--------------------------- MODULE PoolOpsProofs ---------------------------
(***************************************************************************)
(* What a connection of the pool believes of the kernel is true, for every *)
(* size of the pool and of its queues: multishot_armed and send_inflight   *)
(* (RecvAgrees, SendAgrees), the buffer rings that are registered          *)
(* (RingsOwned), the count of active connections (ActiveCountAgrees), and  *)
(* that a blocking connect waits only if a CQE can come                    *)
(* (BlockingConnectNotStuck).                                              *)
(*                                                                         *)
(* OpsInv strengthens Inv of PoolProofs.  What is outstanding is counted   *)
(* per kind and token (Total).  A new occupant of a slot begins with       *)
(* nothing outstanding because its token has never been issued (IssuedInv),*)
(* and a Connect CQE finds no receive armed because a connection with an   *)
(* armed receive has a ring and its buffer group is registered (RingInv).  *)
(***************************************************************************)
EXTENDS PoolProofs, BasicLemmas, FiniteSetTheorems, FunctionTheorems

-----------------------------------------------------------------------------
(* Counting the entries of a queue. *)

Places(q, M) == {i \in 1 .. Len(q) : q[i] \in M}

Count(q, M) == Cardinality(Places(q, M))

\* The places of a queue are finitely many.
LEMMA CountType ==
    ASSUME NEW S, NEW q \in Seq(S), NEW M
    PROVE  IsFiniteSet(Places(q, M)) /\ Count(q, M) \in Nat
<1>1. IsFiniteSet(1 .. Len(q)) BY FS_Interval
<1>2. Places(q, M) \in SUBSET (1 .. Len(q)) BY DEF Places
<1>3. IsFiniteSet(Places(q, M)) BY <1>1, <1>2, FS_Subset
<1> QED BY <1>3, FS_CardinalityType DEF Count

\* Nothing is counted exactly when nothing is there.
LEMMA CountZero ==
    ASSUME NEW S, NEW q \in Seq(S), NEW M
    PROVE  Count(q, M) = 0 <=> \A i \in 1 .. Len(q) : q[i] \notin M
<1>1. Count(q, M) = 0 <=> Places(q, M) = {} BY CountType, FS_EmptySet DEF Count
<1> QED BY <1>1 DEF Places

\* An empty queue holds nothing.
LEMMA CountEmpty ==
    ASSUME NEW M
    PROVE  Count(<<>>, M) = 0
<1>1. Places(<<>>, M) = {} BY DEF Places
<1> QED BY <1>1, FS_EmptySet DEF Count

\* Pushing an entry counts it if it is one of those counted.
LEMMA CountAppend ==
    ASSUME NEW S, NEW q \in Seq(S), NEW e \in S, NEW M
    PROVE  Count(Append(q, e), M) = Count(q, M) + (IF e \in M THEN 1 ELSE 0)
<1>1. /\ Len(Append(q, e)) = Len(q) + 1
      /\ Append(q, e)[Len(q) + 1] = e
      /\ \A i \in 1 .. Len(q) : Append(q, e)[i] = q[i]
      /\ Len(q) \in Nat
  OBVIOUS
<1>2. \A i \in 1 .. Len(Append(q, e)) : i = Len(q) + 1 \/ i \in 1 .. Len(q) BY <1>1
<1>3. /\ Len(q) + 1 \in 1 .. Len(Append(q, e))
      /\ 1 .. Len(q) \subseteq 1 .. Len(Append(q, e))
      /\ Len(q) + 1 \notin 1 .. Len(q)
  BY <1>1
<1>4. Len(q) + 1 \notin Places(q, M) BY <1>3 DEF Places
<1>5. IsFiniteSet(Places(q, M)) /\ Cardinality(Places(q, M)) \in Nat BY CountType DEF Count
<1>6. CASE e \in M
  <2>1. Places(Append(q, e), M) = Places(q, M) \cup {Len(q) + 1}
    BY ONLY <1>1, <1>2, <1>3, <1>6 DEF Places
  <2>2. Cardinality(Places(q, M) \cup {Len(q) + 1}) = Cardinality(Places(q, M)) + 1
    BY <1>4, <1>5, FS_AddElement
  <2> QED BY <1>6, <2>1, <2>2 DEF Count
<1>7. CASE e \notin M
  <2>1. Places(Append(q, e), M) = Places(q, M)
    BY ONLY <1>1, <1>2, <1>3, <1>7 DEF Places
  <2> QED BY <1>5, <1>7, <2>1 DEF Count
<1> QED BY <1>6, <1>7

\* What a queue holds in front of and behind place n.
LEMMA CountSplit ==
    ASSUME NEW S, NEW q \in Seq(S), NEW n \in 0 .. Len(q), NEW M
    PROVE  Count(q, M) = Cardinality({i \in 1 .. n : q[i] \in M})
                            + Count(SubSeq(q, n + 1, Len(q)), M)
<1> DEFINE r == SubSeq(q, n + 1, Len(q))
           A == {i \in 1 .. n : q[i] \in M}
           B == {i \in n + 1 .. Len(q) : q[i] \in M}
<1>1. Len(q) \in Nat /\ n \in Nat /\ n <= Len(q) OBVIOUS
<1>2. /\ r \in Seq(S)
      /\ Len(r) = Len(q) - n
      /\ \A i \in 1 .. Len(q) - n : r[i] = q[n + i]
  BY Split
<1> HIDE DEF r
<1>3. \A i \in 1 .. Len(q) : i \in 1 .. n \/ i \in n + 1 .. Len(q) BY <1>1
<1>4. 1 .. n \subseteq 1 .. Len(q) /\ n + 1 .. Len(q) \subseteq 1 .. Len(q) BY <1>1
<1>5. (1 .. n) \cap (n + 1 .. Len(q)) = {} BY <1>1
<1>6. Places(q, M) = A \cup B BY <1>3, <1>4 DEF Places
<1>7. A \cap B = {} BY <1>5
<1>8. IsFiniteSet(Places(q, M)) BY CountType
<1>9. IsFiniteSet(A) /\ IsFiniteSet(B) BY <1>6, <1>8, FS_Subset
<1>10. Cardinality(A) \in Nat /\ Cardinality(B) \in Nat BY <1>9, FS_CardinalityType
<1>11. Count(q, M) = Cardinality(A) + Cardinality(B)
  <2>1. Cardinality(A \cup B) = Cardinality(A) + Cardinality(B) - Cardinality(A \cap B)
    BY <1>9, FS_Union
  <2>2. Cardinality(A \cap B) = 0 BY <1>7, FS_EmptySet
  <2> QED BY <1>6, <1>10, <2>1, <2>2 DEF Count
<1>12. Cardinality(B) = Count(r, M)
  <2> DEFINE f == [i \in Places(r, M) |-> n + i]
  <2>1. \A i \in Places(r, M) : i \in 1 .. Len(q) - n /\ n + i \in n + 1 .. Len(q) /\ q[n + i] \in M
    BY <1>1, <1>2 DEF Places
  <2>2. f \in [Places(r, M) -> B] BY <2>1
  <2>3. \A i, j \in Places(r, M) : f[i] = f[j] => i = j BY <1>1, <2>1
  <2>4. ASSUME NEW j \in B PROVE \E i \in Places(r, M) : f[i] = j
    <3>1. j - n \in 1 .. Len(r) /\ n + (j - n) = j BY <1>1, <1>2
    <3>2. r[j - n] = q[j] BY <1>2, <3>1
    <3>3. j - n \in Places(r, M) BY <3>1, <3>2 DEF Places
    <3> QED BY <3>1, <3>3
  <2> HIDE DEF f, B
  <2>5. f \in Injection(Places(r, M), B) BY <2>2, <2>3, Fun_IsInj
  <2>6. f \in Surjection(Places(r, M), B) BY <2>2, <2>4, Fun_IsSurj
  <2>7. IsFiniteSet(Places(r, M)) BY <1>2, CountType
  <2>8. Cardinality(B) = Cardinality(Places(r, M))
    BY ONLY <2>5, <2>6, <2>7, FS_Surjection
  <2> QED BY <2>8 DEF Count
<1> QED BY <1>11, <1>12 DEF r

\* Taking the first entry of a queue.
LEMMA CountTail ==
    ASSUME NEW S, NEW q \in Seq(S), q # <<>>, NEW M
    PROVE  Count(q, M) = (IF Head(q) \in M THEN 1 ELSE 0) + Count(Tail(q), M)
<1>1. Len(q) \in Nat \ {0} /\ 1 \in 0 .. Len(q) /\ Head(q) = q[1] OBVIOUS
<1>2. Tail(q) = SubSeq(q, 1 + 1, Len(q)) OBVIOUS
<1>3. Count(q, M) = Cardinality({i \in 1 .. 1 : q[i] \in M}) + Count(Tail(q), M)
  BY <1>1, <1>2, CountSplit
<1>4. 1 .. 1 = {1} OBVIOUS
<1>5. Head(q) \in M => {i \in 1 .. 1 : q[i] \in M} = {1} BY <1>1, <1>4
<1>6. Head(q) \notin M => {i \in 1 .. 1 : q[i] \in M} = {} BY <1>1, <1>4
<1> QED BY <1>3, <1>5, <1>6, FS_EmptySet, FS_Singleton

-----------------------------------------------------------------------------
(* What is outstanding of one connection. *)

MineOp(kind, token) == {o \in OpType : o.kind = kind /\ o.token = token}

\* A CQE with more is not the last of its operation.
MineLast(kind, token) == {c \in CqeType : c.kind = kind /\ c.token = token /\ ~c.more}

Sum(q, o, c, b, kind, token) ==
    Count(q, MineOp(kind, token)) + Cardinality(o \cap MineOp(kind, token))
        + Count(c, MineLast(kind, token)) + Count(b, MineLast(kind, token))

Total(kind, token) == Sum(sq, ops, cq, buf, kind, token)

TokenOf(s) == Token(s, conns[s].gen)

Queues(q, o, c, b) ==
    /\ q \in Seq(OpType)
    /\ o \subseteq OpType
    /\ IsFiniteSet(o)
    /\ c \in Seq(CqeType)
    /\ b \in Seq(CqeType)

QueueType == Queues(sq, ops, cq, buf)

\* The kinds and tokens of what is in the queues.
TagsIn(q, o, c, b) ==
    {<<e.kind, e.token>> : e \in {q[i] : i \in 1 .. Len(q)} \cup o
                                   \cup {c[i] : i \in 1 .. Len(c)}
                                   \cup {b[i] : i \in 1 .. Len(b)}}

Tags == TagsIn(sq, ops, cq, buf)

\* Only a receive has CQEs that are not its last, and one without a buffer is.
CqeOK(c) == c.more => c.kind = "Recv" /\ c.res # "nobufs"

CqeInv ==
    /\ \A i \in 1 .. Len(cq) : CqeOK(cq[i])
    /\ \A i \in 1 .. Len(buf) : CqeOK(buf[i])

\* A token that is outstanding was given to an occupant of its slot.
IssuedInv ==
    \A tag \in Tags, s \in ConnIds, g \in Generations : tag[2] = Token(s, g) => g < born[s]

\* A connection with an armed receive, or with one outstanding, has a ring; one
\* that has a ring has its buffer group registered; one without has not heard
\* of its peer.
RingOK(k, t) ==
    /\ k.armed => k.ring
    /\ k.ring /\ phase # "dropped" => k.bgid \in registered
    /\ ~k.ring => k.state \in {"Connecting", "Closed"} /\ k.ws = "Connecting" /\ ~k.rx
    /\ <<"Recv", t>> \in Tags => k.ring

RingInv == \A s \in LiveIds : RingOK(conns[s], TokenOf(s))

\* A connection that is connecting waits for the CQE of its Connect.
ConnectInv ==
    \A s \in LiveIds : conns[s].state = "Connecting" => <<"Connect", TokenOf(s)>> \in Tags

\* The beliefs of every connection.
AgreeOK(k, t) ==
    /\ Total("Recv", t) = IF k.armed THEN 1 ELSE 0
    /\ Total("Send", t) = IF k.inflight THEN 1 ELSE 0

AgreeInv == \A s \in LiveIds : AgreeOK(conns[s], TokenOf(s))

\* Where a blocking connect is: before it visits its connection in the submit
\* phase that one has not failed, and afterwards it waits for a CQE of its own,
\* unless some connection failed.
OpenInv ==
    /\ phase # "dispatch" => buf = <<>>
    /\ phase = "wait" /\ mode = "open" => sq = <<>>
    /\ mode = "open" /\ phase = "submit" /\ ~first_err /\ cur <= target =>
          conns[target].state # "Closed"
    /\ mode = "open" /\ ~first_err /\ (phase = "wait" \/ (phase = "submit" /\ cur > target)) =>
          conns[target].state = "Connecting" \/ conns[target].armed

OpsInv ==
    /\ IsFiniteSet(ops)
    /\ CqeInv
    /\ IssuedInv
    /\ RingInv
    /\ ConnectInv
    /\ AgreeInv
    /\ OpenInv

\* The queues hold operations and completions.
LEMMA QueueTypeInv == Inv /\ IsFiniteSet(ops) => QueueType
<1>1. Inv => /\ sq \in Seq(OpType) /\ ops \subseteq OpType
             /\ cq \in Seq(CqeType) /\ buf \in Seq(CqeType)
  BY DEF Inv, KernelInv, OwnOps, OwnCqes
<1> QED BY <1>1 DEF QueueType, Queues

\* What is counted of a connection are numbers.
LEMMA SumType ==
    ASSUME NEW q, NEW o, NEW c, NEW b, Queues(q, o, c, b), NEW kind, NEW token
    PROVE  /\ Count(q, MineOp(kind, token)) \in Nat
           /\ IsFiniteSet(o \cap MineOp(kind, token))
           /\ Cardinality(o \cap MineOp(kind, token)) \in Nat
           /\ Count(c, MineLast(kind, token)) \in Nat
           /\ Count(b, MineLast(kind, token)) \in Nat
           /\ Sum(q, o, c, b, kind, token) \in Nat
<1>1. IsFiniteSet(o \cap MineOp(kind, token)) BY FS_Intersection DEF Queues
<1>2. Cardinality(o \cap MineOp(kind, token)) \in Nat BY <1>1, FS_CardinalityType
<1>3. /\ Count(q, MineOp(kind, token)) \in Nat
      /\ Count(c, MineLast(kind, token)) \in Nat
      /\ Count(b, MineLast(kind, token)) \in Nat
  BY CountType DEF Queues
<1> QED BY <1>1, <1>2, <1>3 DEF Sum

\* Pushing an SQE adds one if it is counted.
LEMMA SumPush ==
    ASSUME NEW q, NEW o, NEW c, NEW b, Queues(q, o, c, b), NEW kind, NEW token,
           NEW e \in OpType
    PROVE  /\ Queues(Append(q, e), o, c, b)
           /\ Sum(Append(q, e), o, c, b, kind, token) =
                 Sum(q, o, c, b, kind, token)
                     + (IF e.kind = kind /\ e.token = token THEN 1 ELSE 0)
<1> DEFINE M == MineOp(kind, token)
<1>1. Queues(Append(q, e), o, c, b) BY DEF Queues
<1>2. e \in M <=> e.kind = kind /\ e.token = token BY DEF MineOp
<1>3. Count(Append(q, e), M) = Count(q, M) + (IF e \in M THEN 1 ELSE 0)
  BY CountAppend DEF Queues
<1>4. /\ Count(q, M) \in Nat /\ Cardinality(o \cap M) \in Nat
      /\ Count(c, MineLast(kind, token)) \in Nat /\ Count(b, MineLast(kind, token)) \in Nat
  BY SumType
<1>5. /\ Sum(q, o, c, b, kind, token) = Count(q, M) + Cardinality(o \cap M)
            + Count(c, MineLast(kind, token)) + Count(b, MineLast(kind, token))
      /\ Sum(Append(q, e), o, c, b, kind, token) = Count(Append(q, e), M) + Cardinality(o \cap M)
            + Count(c, MineLast(kind, token)) + Count(b, MineLast(kind, token))
  BY DEF Sum
<1> HIDE DEF M
<1> QED BY ONLY <1>1, <1>2, <1>3, <1>4, <1>5

\* Taking a CQE subtracts one if it is counted.
LEMMA SumTake ==
    ASSUME NEW q, NEW o, NEW c, NEW b, Queues(q, o, c, b), NEW kind, NEW token, b # <<>>
    PROVE  /\ Queues(q, o, c, Tail(b))
           /\ Head(b) \in CqeType
           /\ Sum(q, o, c, b, kind, token) =
                 Sum(q, o, c, Tail(b), kind, token)
                     + (IF Head(b) \in MineLast(kind, token) THEN 1 ELSE 0)
<1> DEFINE M == MineLast(kind, token)
<1>1. Queues(q, o, c, Tail(b)) /\ Head(b) \in CqeType BY DEF Queues
<1>2. Head(b) \in M <=> Head(b) \in MineLast(kind, token) OBVIOUS
<1>3. Count(b, M) = (IF Head(b) \in M THEN 1 ELSE 0) + Count(Tail(b), M)
  BY CountTail DEF Queues
<1>4. /\ Count(q, MineOp(kind, token)) \in Nat /\ Cardinality(o \cap MineOp(kind, token)) \in Nat
      /\ Count(c, M) \in Nat /\ Count(b, M) \in Nat /\ Count(Tail(b), M) \in Nat
  BY <1>1, SumType
<1>5. /\ Sum(q, o, c, b, kind, token) =
            Count(q, MineOp(kind, token)) + Cardinality(o \cap MineOp(kind, token))
            + Count(c, M) + Count(b, M)
      /\ Sum(q, o, c, Tail(b), kind, token) =
            Count(q, MineOp(kind, token)) + Cardinality(o \cap MineOp(kind, token))
            + Count(c, M) + Count(Tail(b), M)
  BY DEF Sum
<1> HIDE DEF M
<1> QED BY ONLY <1>1, <1>2, <1>3, <1>4, <1>5

\* drain_completions moves CQEs and loses none.
LEMMA SumDrain ==
    ASSUME NEW q, NEW o, NEW c, Queues(q, o, c, <<>>), NEW kind, NEW token
    PROVE  /\ Queues(q, o, <<>>, c)
           /\ Sum(q, o, <<>>, c, kind, token) = Sum(q, o, c, <<>>, kind, token)
<1>1. Queues(q, o, <<>>, c) BY DEF Queues
<1>2. Count(c, MineLast(kind, token)) \in Nat BY SumType
<1>3. Count(<<>>, MineLast(kind, token)) = 0 BY CountEmpty
<1>4. Count(q, MineOp(kind, token)) \in Nat /\ Cardinality(o \cap MineOp(kind, token)) \in Nat
  BY SumType
<1> QED BY <1>1, <1>2, <1>3, <1>4 DEF Sum

\* An operation that ends becomes its last CQE.
LEMMA SumComplete ==
    ASSUME NEW q, NEW o, NEW c, NEW b, Queues(q, o, c, b), NEW kind, NEW token,
           NEW op \in o, NEW res \in CqeRes, NEW more \in BOOLEAN, ~more
    PROVE  /\ Queues(q, o \ {op}, Append(c, Cqe(op, res, more)), b)
           /\ Sum(q, o \ {op}, Append(c, Cqe(op, res, more)), b, kind, token) =
                 Sum(q, o, c, b, kind, token)
<1> DEFINE M == MineOp(kind, token)
           L == MineLast(kind, token)
           e == Cqe(op, res, more)
<1>1. op \in OpType /\ e \in CqeType BY DEF Queues, Cqe, CqeType, OpType, CqeRes
<1>2. e \in L <=> op \in M BY <1>1 DEF Cqe, MineLast, MineOp
<1>3. IsFiniteSet(o \ {op}) BY FS_RemoveElement DEF Queues
<1>4. Queues(q, o \ {op}, Append(c, e), b)
  <2> HIDE DEF e
  <2> QED BY <1>1, <1>3 DEF Queues
<1>5. Count(Append(c, e), L) = Count(c, L) + (IF e \in L THEN 1 ELSE 0)
  <2> HIDE DEF e
  <2> QED BY <1>1, CountAppend DEF Queues
<1>6. Cardinality((o \ {op}) \cap M) = Cardinality(o \cap M) - (IF op \in M THEN 1 ELSE 0)
  <2>1. (o \ {op}) \cap M = (o \cap M) \ {op} OBVIOUS
  <2>2. op \in o \cap M <=> op \in M OBVIOUS
  <2>3. IsFiniteSet(o \cap M) /\ Cardinality(o \cap M) \in Nat BY SumType
  <2> HIDE DEF M
  <2> QED BY ONLY <2>1, <2>2, <2>3, FS_RemoveElement
<1>7. /\ Count(q, M) \in Nat /\ Cardinality(o \cap M) \in Nat
      /\ Count(c, L) \in Nat /\ Count(b, L) \in Nat
  BY SumType
<1>8. /\ Sum(q, o, c, b, kind, token) =
            Count(q, M) + Cardinality(o \cap M) + Count(c, L) + Count(b, L)
      /\ Sum(q, o \ {op}, Append(c, e), b, kind, token) =
            Count(q, M) + Cardinality((o \ {op}) \cap M) + Count(Append(c, e), L) + Count(b, L)
  BY DEF Sum
<1>9. Sum(q, o \ {op}, Append(c, e), b, kind, token) = Sum(q, o, c, b, kind, token)
  <2> HIDE DEF M, L, e
  <2> QED BY ONLY <1>2, <1>5, <1>6, <1>7, <1>8
<1> QED BY <1>4, <1>9

\* So a CQE of the kernel changes nothing that is counted: one that is not the
\* last of its operation is not counted either.
LEMMA SumPosted ==
    ASSUME NEW q, NEW o, NEW c, NEW b, Queues(q, o, c, b), NEW kind, NEW token,
           NEW op \in o, NEW res \in CqeRes, NEW more \in BOOLEAN,
           NEW o2, o2 = IF more THEN o ELSE o \ {op}
    PROVE  Sum(q, o2, Append(c, Cqe(op, res, more)), b, kind, token) =
               Sum(q, o, c, b, kind, token)
<1> DEFINE L == MineLast(kind, token)
           e == Cqe(op, res, more)
<1>1. CASE more
  <2>1. e \in CqeType BY DEF Queues, Cqe, CqeType, OpType, CqeRes
  <2>2. e \notin L BY <1>1 DEF Cqe, MineLast
  <2>3. Count(Append(c, e), L) = Count(c, L) + (IF e \in L THEN 1 ELSE 0)
    <3> HIDE DEF e
    <3> QED BY <2>1, CountAppend DEF Queues
  <2>4. Count(c, L) \in Nat BY SumType
  <2>5. Count(Append(c, e), L) = Count(c, L)
    <3> HIDE DEF L, e
    <3> QED BY ONLY <2>2, <2>3, <2>4
  <2>6. o2 = o BY <1>1
  <2> QED BY <2>5, <2>6 DEF Sum
<1>2. CASE ~more BY <1>2, SumComplete
<1> QED BY <1>1, <1>2

\* proactor.submit moves SQEs to the kernel; as the kernel's operations are a
\* set, two of the same connection and kind would become one.
LEMMA SumSubmit ==
    ASSUME NEW q, NEW o, NEW c, NEW b, Queues(q, o, c, b), NEW kind, NEW token,
           Sum(q, o, c, b, kind, token) \in {0, 1}
    PROVE  Sum(<<>>, o \cup {q[i] : i \in 1 .. Len(q)}, c, b, kind, token) =
               Sum(q, o, c, b, kind, token)
<1> DEFINE M == MineOp(kind, token)
           L == MineLast(kind, token)
           o2 == o \cup {q[i] : i \in 1 .. Len(q)}
<1>1. /\ Count(q, M) \in Nat /\ Cardinality(o \cap M) \in Nat
      /\ Count(c, L) \in Nat /\ Count(b, L) \in Nat
      /\ IsFiniteSet(o \cap M)
  BY SumType
<1>2. /\ Sum(q, o, c, b, kind, token) =
            Count(q, M) + Cardinality(o \cap M) + Count(c, L) + Count(b, L)
      /\ Sum(<<>>, o2, c, b, kind, token) =
            Count(<<>>, M) + Cardinality(o2 \cap M) + Count(c, L) + Count(b, L)
  BY DEF Sum
<1>3. Count(<<>>, M) = 0 BY CountEmpty
<1>4. o2 \cap M = (o \cap M) \cup {q[i] : i \in Places(q, M)} BY DEF Places
<1>5. Cardinality(o2 \cap M) = Count(q, M) + Cardinality(o \cap M)
  <2>1. Count(q, M) \in {0, 1}
    <3> HIDE DEF M, L
    <3> QED BY ONLY <1>1, <1>2, Sum(q, o, c, b, kind, token) \in {0, 1}
  <2>2. CASE Count(q, M) = 0
    <3>1. Places(q, M) = {} BY <2>2, CountType, FS_EmptySet DEF Count, Queues
    <3>2. o2 \cap M = o \cap M BY <1>4, <3>1
    <3> HIDE DEF M, L, o2
    <3> QED BY ONLY <1>1, <2>2, <3>2
  <2>3. CASE Count(q, M) = 1
    <3>1. Cardinality(o \cap M) = 0
      <4> HIDE DEF M, L
      <4> QED BY ONLY <1>1, <1>2, <2>3, Sum(q, o, c, b, kind, token) \in {0, 1}
    <3>2. o \cap M = {} BY <1>1, <3>1, FS_EmptySet
    <3>3. PICK i : Places(q, M) = {i} BY <2>3, CountType, FS_Singleton DEF Count, Queues
    <3>4. o2 \cap M = {q[i]} BY <1>4, <3>2, <3>3
    <3>5. Cardinality({q[i]}) = 1 BY FS_Singleton
    <3> HIDE DEF M, L, o2
    <3> QED BY ONLY <2>3, <3>1, <3>4, <3>5
  <2> QED BY <2>1, <2>2, <2>3
<1>6. Sum(<<>>, o2, c, b, kind, token) = Sum(q, o, c, b, kind, token)
  <2> HIDE DEF M, L, o2
  <2> QED BY ONLY <1>1, <1>2, <1>3, <1>5
<1> QED BY <1>6

\* Held counts by place what Total counts.
LEMMA HeldTotal ==
    ASSUME QueueType, NEW s \in ConnIds, NEW kind
    PROVE  Held(s, kind) = Total(kind, TokenOf(s))
<1> DEFINE t == TokenOf(s)
           mine(c) == c.kind = kind /\ c.token = Token(s, conns[s].gen)
<1>1. {i \in 1 .. Len(sq) : mine(sq[i])} = Places(sq, MineOp(kind, t))
  BY DEF Places, MineOp, QueueType, Queues, TokenOf
<1>2. {o \in ops : mine(o)} = ops \cap MineOp(kind, t)
  BY DEF MineOp, QueueType, Queues, TokenOf
<1>3. {i \in 1 .. Len(cq) : mine(cq[i]) /\ ~cq[i].more} = Places(cq, MineLast(kind, t))
  BY DEF Places, MineLast, QueueType, Queues, TokenOf
<1>4. {i \in 1 .. Len(buf) : mine(buf[i]) /\ ~buf[i].more} = Places(buf, MineLast(kind, t))
  BY DEF Places, MineLast, QueueType, Queues, TokenOf
<1> HIDE DEF t
<1>5. Held(s, kind) = Cardinality({i \in 1 .. Len(sq) : mine(sq[i])})
        + Cardinality({o \in ops : mine(o)})
        + Cardinality({i \in 1 .. Len(cq) : mine(cq[i]) /\ ~cq[i].more})
        + Cardinality({i \in 1 .. Len(buf) : mine(buf[i]) /\ ~buf[i].more})
  BY DEF Held
<1>6. Total(kind, t) = Cardinality(Places(sq, MineOp(kind, t)))
        + Cardinality(ops \cap MineOp(kind, t))
        + Cardinality(Places(cq, MineLast(kind, t)))
        + Cardinality(Places(buf, MineLast(kind, t)))
  BY DEF Total, Sum, Count
<1>7. Held(s, kind) = Total(kind, t) BY ONLY <1>1, <1>2, <1>3, <1>4, <1>5, <1>6
<1> QED BY <1>7 DEF t

\* token_conn_id gives back the slot a token was made of.
LEMMA TokenConnIdOf ==
    ASSUME NEW s \in ConnIds, NEW g \in Nat
    PROVE  TokenConnId(Token(s, g)) = s
<1> DEFINE n == ConnIdMask + 1
<1>1. n \in Nat \ {0} /\ s \in 0 .. n - 1 BY PoolAssumption DEF ConnIds
<1>2. Token(s, g) = n * g + s /\ Token(s, g) \in Int BY PoolAssumption DEF Token, ConnIds
<1> HIDE DEF n
<1>3. Token(s, g) % n = s BY <1>1, <1>2, ModIs
<1> QED BY <1>3 DEF TokenConnId, n

\* A CQE is routed to a live connection exactly if it has its token.
LEMMA RoutesByToken ==
    ASSUME Inv, NEW c, NEW s \in ConnIds
    PROVE  Routes(c, s) <=> s \in LiveIds /\ c.token = TokenOf(s)
<1>1. ASSUME s \in LiveIds, c.token = TokenOf(s) PROVE Routes(c, s)
  <2>1. IsLive(s) /\ conns[s].gen \in Nat
    BY <1>1, PoolAssumption DEF LiveIds, Inv, SlotType, IsLive, Conn, Generations
  <2>2. s < next_conn_id BY <2>1 DEF Inv, SlotsAccounted
  <2>3. TokenConnId(c.token) = s BY <1>1, <2>1, TokenConnIdOf DEF TokenOf
  <2> QED BY <1>1, <2>1, <2>2, <2>3 DEF Routes, TokenOf
<1> QED BY <1>1 DEF Routes, LiveIds, TokenOf

\* Two live connections have different tokens.
LEMMA TokenOfInjective ==
    ASSUME Inv, NEW s \in LiveIds, NEW t \in LiveIds, TokenOf(s) = TokenOf(t)
    PROVE  s = t
<1>1. /\ s \in ConnIds /\ t \in ConnIds
      /\ conns[s].gen \in Nat /\ conns[t].gen \in Nat
  BY PoolAssumption DEF LiveIds, Inv, SlotType, IsLive, Conn, Generations
<1> QED BY <1>1, TokenInjective DEF TokenOf

-----------------------------------------------------------------------------
(* What handlers do to the beliefs of a connection. *)

\* k2 believes what k does, and did not go back to connecting.
Keeps(k, k2) ==
    /\ k2 \in Conn
    /\ k2.ring = k.ring
    /\ k2.armed = k.armed
    /\ k2.inflight = k.inflight
    /\ k2.state = "Connecting" => k.state = "Connecting"

\* Keeping one's beliefs is transitive.
LEMMA KeepsTrans ==
    ASSUME NEW j, NEW k, NEW l, Keeps(j, k), Keeps(k, l)
    PROVE  Keeps(j, l)
  BY DEF Keeps

\* The steps of the handlers keep them.
LEMMA StepsKeep ==
    ASSUME NEW k \in Conn
    PROVE  /\ Keeps(k, k)
           /\ Keeps(k, Failed(k))
           /\ Keeps(k, SyncOpen(k))
           /\ Keeps(k, SyncClose(k))
           /\ Keeps(k, Fed(k))
           /\ \A a \in TlsAdvanced(k) : Keeps(k, a)
           /\ \A cn \in BOOLEAN : Keeps(k, CloseNotify(k, cn))
           /\ \A ws \in WsState : Keeps(k, Drained(k, ws))
<1> USE DEF Keeps, Conn, State
<1>1. Keeps(k, k) OBVIOUS
<1>2. Keeps(k, Failed(k)) BY DEF Failed
<1>3. Keeps(k, SyncOpen(k)) BY DEF SyncOpen
<1>4. Keeps(k, SyncClose(k)) BY DEF SyncClose
<1>5. Keeps(k, Fed(k)) BY DEF Fed
<1>6. \A a \in TlsAdvanced(k) : Keeps(k, a) BY DEF TlsAdvanced
<1>7. \A cn \in BOOLEAN : Keeps(k, CloseNotify(k, cn)) BY DEF CloseNotify
<1>8. \A ws \in WsState : Keeps(k, Drained(k, ws)) BY DEF Drained
<1> QED BY <1>1, <1>2, <1>3, <1>4, <1>5, <1>6, <1>7, <1>8

\* on_recv_cqe with bytes keeps them.
LEMMA RecvFeedKeeps ==
    ASSUME NEW k \in Conn, NEW r \in RecvFeed(k)
    PROVE  Keeps(k, r.conn)
<1>1. CASE r = Ok(Fed(k))
  BY <1>1, StepsKeep DEF Ok, Res
<1>2. CASE r = Err(k)
  BY <1>2, StepsKeep DEF Err, Res
<1>3. ASSUME NEW a \in TlsAdvanced(k), NEW cn \in BOOLEAN,
             r = Ok(CloseNotify(a, cn)) \/ r = Ok(CloseNotify(Fed(a), cn))
      PROVE  Keeps(k, r.conn)
  <2>1. Keeps(k, a) /\ a \in Conn BY StepsKeep DEF Keeps
  <2>2. Keeps(k, Fed(a)) /\ Fed(a) \in Conn BY <2>1, StepsKeep, KeepsTrans DEF Keeps
  <2>3. Keeps(k, CloseNotify(a, cn)) /\ Keeps(k, CloseNotify(Fed(a), cn))
    BY <2>1, <2>2, StepsKeep, KeepsTrans
  <2> QED BY <1>3, <2>3 DEF Ok, Res
<1>4. CASE r \in RecvFeedTls(k)
  BY <1>2, <1>3, <1>4 DEF RecvFeedTls
<1> QED BY <1>1, <1>4 DEF RecvFeed, RecvFeedPlain

\* So do the handlers of the data pumps.
LEMMA RecvDrainKeeps ==
    ASSUME NEW k \in Conn, NEW r \in RecvDrain(k)
    PROVE  Keeps(k, r.conn)
<1>1. CASE r = Err(k)
  BY <1>1, StepsKeep DEF Err, Res
<1>2. ASSUME NEW a \in TlsAdvanced(k), NEW cn \in BOOLEAN, r = Ok(CloseNotify(a, cn))
      PROVE  Keeps(k, r.conn)
  <2>1. Keeps(k, a) /\ a \in Conn BY StepsKeep DEF Keeps
  <2>2. Keeps(k, CloseNotify(a, cn)) BY <2>1, StepsKeep, KeepsTrans
  <2> QED BY <1>2, <2>2 DEF Ok, Res
<1>3. ASSUME NEW a \in TlsAdvanced(k), NEW cn \in BOOLEAN, NEW o \in WsOutcomes(k.ws),
             r.conn = CloseNotify(Drained(a, o.ws), cn)
      PROVE  Keeps(k, r.conn)
  <2>1. Keeps(k, a) /\ a \in Conn BY StepsKeep DEF Keeps
  <2>2. o.ws \in WsState BY WsOutcomesType
  <2>3. Keeps(k, Drained(a, o.ws)) /\ Drained(a, o.ws) \in Conn
    BY <2>1, <2>2, StepsKeep, KeepsTrans DEF Keeps
  <2>4. Keeps(k, CloseNotify(Drained(a, o.ws), cn)) BY <2>3, StepsKeep, KeepsTrans
  <2> QED BY <1>3, <2>4
<1>4. CASE r \in RecvDrainTls(k)
  <2>1. \/ r = Err(k)
        \/ \E a \in TlsAdvanced(k), cn \in BOOLEAN : r = Ok(CloseNotify(a, cn))
        \/ \E a \in TlsAdvanced(k), o \in WsOutcomes(k.ws), cn \in BOOLEAN :
             r.conn = CloseNotify(Drained(a, o.ws), cn)
        \/ \E a \in TlsAdvanced(k), o \in WsOutcomes(k.ws) : r.conn = Drained(a, o.ws)
    BY <1>4 DEF RecvDrainTls, Err, Res
  <2>2. ASSUME NEW a \in TlsAdvanced(k), NEW o \in WsOutcomes(k.ws), r.conn = Drained(a, o.ws)
        PROVE  Keeps(k, r.conn)
    <3>1. Keeps(k, a) /\ a \in Conn /\ o.ws \in WsState BY StepsKeep, WsOutcomesType DEF Keeps
    <3> QED BY <2>2, <3>1, StepsKeep, KeepsTrans
  <2> QED BY <1>1, <1>2, <1>3, <2>1, <2>2
<1>5. CASE r \in RecvDrainPlain(k)
  <2>1. PICK o \in WsOutcomes(k.ws) : r = Res(Drained(k, o.ws), o.err)
    BY <1>5 DEF RecvDrainPlain
  <2>2. o.ws \in WsState BY WsOutcomesType
  <2> QED BY <2>1, <2>2, StepsKeep DEF Res
<1> QED BY <1>4, <1>5 DEF RecvDrain

\* The beliefs of k2 are those of k after CQE c.
After(k, c, k2) ==
    /\ k2 \in Conn
    /\ k2.ring = k.ring
    /\ k2.armed = (IF c.kind = "Recv" THEN k.armed /\ c.more ELSE k.armed)
    /\ k2.inflight = (IF c.kind = "Send" THEN FALSE ELSE k.inflight)
    /\ k2.state = "Connecting" => k.state = "Connecting"
    /\ c.kind # "Recv" => k2.ws = k.ws /\ k2.rx = k.rx /\ k2.state \in {k.state, "Closed"}

\* A CQE clears what the connection no longer has to wait for, and nothing else.
LEMMA HandleCompletionAfter ==
    ASSUME NEW k \in Conn, NEW c \in CqeType, NEW r \in HandleCompletion(k, c),
           c.more => c.kind = "Recv" /\ c.res # "nobufs",
           c.kind = "Connect" => k.state = "Closed"
    PROVE  After(k, c, r.conn)
<1> DEFINE seen == [k EXCEPT !.armed = @ /\ c.more]
<1>1. /\ k.armed \in BOOLEAN /\ k.inflight \in BOOLEAN /\ c.more \in BOOLEAN
      /\ c.kind \in {"Connect", "Send", "Recv"}
  BY DEF Conn, CqeType, Kind
<1>2. CASE k.state = "Closed"
  <2>1. r = Discard(k, c) BY <1>2 DEF HandleCompletion
  <2>2. CASE c.kind = "Recv"
    <3>1. r.conn = [k EXCEPT !.armed = @ /\ c.more /\ c.res # "nobufs"]
      BY <2>1, <2>2 DEF Discard, Ok, Res
    <3>2. (k.armed /\ c.more /\ c.res # "nobufs") = (k.armed /\ c.more) BY <1>1
    <3> QED BY <1>1, <2>2, <3>1, <3>2 DEF After, Conn
  <2>3. CASE c.kind = "Send"
    BY <2>1, <2>3 DEF Discard, Ok, Res, After, Conn
  <2>4. CASE c.kind = "Connect"
    BY <2>1, <2>4 DEF Discard, Ok, Res, After, Conn
  <2> QED BY <1>1, <2>2, <2>3, <2>4
<1>3. CASE k.state # "Closed" /\ c.kind = "Send"
  <2>1. r = OnSendCqe(k, c) BY <1>3 DEF HandleCompletion
  <2> QED BY <1>3, <2>1 DEF OnSendCqe, Res, After, Conn
<1>4. CASE k.state # "Closed" /\ c.kind = "Recv"
  <2>0. r \in OnRecvCqe(k, c) BY <1>4 DEF HandleCompletion
  <2>1. /\ seen \in Conn /\ seen.ring = k.ring /\ seen.armed = (k.armed /\ c.more)
        /\ seen.inflight = k.inflight /\ seen.state = k.state
    BY <1>1 DEF Conn
  <2>2. \A k2 : Keeps(seen, k2) => After(k, c, k2)
    BY <1>4, <2>1 DEF Keeps, After
  <2>3. CASE c.res = "eof"
    <3>1. r.conn = Failed(seen) BY <2>0, <2>3 DEF OnRecvCqe, Err, Res
    <3> HIDE DEF seen
    <3> QED BY <2>1, <2>2, <3>1, StepsKeep
  <2>4. CASE c.res = "nobufs"
    <3>1. r.conn = [seen EXCEPT !.armed = FALSE] BY <2>0, <2>4 DEF OnRecvCqe, Ok, Res
    <3>2. ~c.more /\ seen.armed = FALSE BY <1>1, <2>1, <2>4
    <3>3. Keeps(seen, r.conn)
      <4> HIDE DEF seen
      <4> QED BY <2>1, <3>1, <3>2 DEF Keeps, Conn
    <3> QED BY <2>2, <3>3
  <2>5. CASE c.res = "err"
    <3>1. r.conn = seen BY <2>0, <2>5 DEF OnRecvCqe, Err, Res
    <3> HIDE DEF seen
    <3> QED BY <2>1, <2>2, <3>1, StepsKeep
  <2>6. CASE c.res \notin {"eof", "nobufs", "err"}
    <3>1. r \in RecvDrain(seen) \/ r \in RecvFeed(seen) BY <2>0, <2>6 DEF OnRecvCqe
    <3> HIDE DEF seen
    <3> QED BY <2>1, <2>2, <3>1, RecvDrainKeeps, RecvFeedKeeps
  <2> QED BY <2>3, <2>4, <2>5, <2>6
<1> QED BY <1>1, <1>2, <1>3, <1>4

\* finish_conn_result and fail_conn_and_account keep the beliefs, and open
\* nothing that has not heard of its peer.
LEMMA FinishKeeps ==
    ASSUME NEW s, NEW k, NEW r, r.conn \in Conn, FinishConnResult(s, k, r)
    PROVE  \E done : /\ conns' = [conns EXCEPT ![s] = done]
                     /\ Same(r.conn, done)
                     /\ Keeps(r.conn, done)
                     /\ done.ws = r.conn.ws /\ done.rx = r.conn.rx
                     /\ r.conn.ws = "Connecting" => done.state \in {r.conn.state, "Closed"}
<1> DEFINE done == IF r.err THEN Failed(r.conn) ELSE SyncClose(SyncOpen(r.conn))
<1>1. conns' = [conns EXCEPT ![s] = done] BY DEF FinishConnResult
<1>2. Same(r.conn, done) BY FailedSame, SyncSame
<1>3. SyncOpen(r.conn) \in Conn /\ Keeps(r.conn, SyncOpen(r.conn)) BY StepsKeep DEF Keeps
<1>4. Keeps(r.conn, SyncClose(SyncOpen(r.conn))) BY <1>3, StepsKeep, KeepsTrans
<1>5. Keeps(r.conn, done) BY <1>4, StepsKeep
<1>6. /\ done.ws = r.conn.ws /\ done.rx = r.conn.rx
      /\ r.conn.ws = "Connecting" => done.state \in {r.conn.state, "Closed"}
  BY DEF Failed, SyncOpen, SyncClose, Conn
<1> HIDE DEF done
<1> QED BY <1>1, <1>2, <1>5, <1>6

-----------------------------------------------------------------------------
(* What the queues carry. *)

\* Pushing an SQE adds its tag.
LEMMA TagsPush ==
    ASSUME NEW q \in Seq(OpType), NEW o, NEW c, NEW b, NEW e \in OpType
    PROVE  TagsIn(Append(q, e), o, c, b) = TagsIn(q, o, c, b) \cup {<<e.kind, e.token>>}
<1>1. /\ Len(Append(q, e)) = Len(q) + 1
      /\ Append(q, e)[Len(q) + 1] = e
      /\ \A i \in 1 .. Len(q) : Append(q, e)[i] = q[i]
      /\ Len(q) \in Nat
  OBVIOUS
<1>2. /\ \A i \in 1 .. Len(Append(q, e)) : i = Len(q) + 1 \/ i \in 1 .. Len(q)
      /\ Len(q) + 1 \in 1 .. Len(Append(q, e))
      /\ 1 .. Len(q) \subseteq 1 .. Len(Append(q, e))
  BY <1>1
<1>3. {Append(q, e)[i] : i \in 1 .. Len(Append(q, e))} = {q[i] : i \in 1 .. Len(q)} \cup {e}
  BY ONLY <1>1, <1>2
<1> QED BY ONLY <1>3 DEF TagsIn

\* Taking CQEs removes at most their tags.
LEMMA TagsTake ==
    ASSUME NEW q, NEW o, NEW c, NEW b \in Seq(CqeType), NEW n \in 0 .. Len(b)
    PROVE  /\ TagsIn(q, o, c, SubSeq(b, n + 1, Len(b))) \subseteq TagsIn(q, o, c, b)
           /\ \A tag \in TagsIn(q, o, c, b) :
                 \/ tag \in TagsIn(q, o, c, SubSeq(b, n + 1, Len(b)))
                 \/ \E i \in 1 .. n : tag = <<b[i].kind, b[i].token>>
<1> DEFINE r == SubSeq(b, n + 1, Len(b))
<1>1. Len(b) \in Nat /\ n \in Nat /\ n <= Len(b) OBVIOUS
<1>2. /\ Len(r) = Len(b) - n
      /\ \A i \in 1 .. Len(b) - n : r[i] = b[n + i]
  BY Split
<1> HIDE DEF r
<1>3. \A i \in 1 .. Len(r) : n + i \in 1 .. Len(b) /\ r[i] = b[n + i] BY <1>1, <1>2
<1>4. ASSUME NEW i \in 1 .. Len(b), i \notin 1 .. n
      PROVE  i - n \in 1 .. Len(r) /\ r[i - n] = b[i]
  <2>1. i - n \in 1 .. Len(r) /\ n + (i - n) = i BY <1>1, <1>2, <1>4
  <2> QED BY <1>3, <2>1
<1>5. TagsIn(q, o, c, r) \subseteq TagsIn(q, o, c, b)
  <2>1. {r[i] : i \in 1 .. Len(r)} \subseteq {b[i] : i \in 1 .. Len(b)} BY <1>3
  <2> QED BY ONLY <2>1 DEF TagsIn
<1>6. ASSUME NEW tag \in TagsIn(q, o, c, b), tag \notin TagsIn(q, o, c, r)
      PROVE  \E i \in 1 .. n : tag = <<b[i].kind, b[i].token>>
  <2>1. PICK i \in 1 .. Len(b) : tag = <<b[i].kind, b[i].token>> BY <1>6 DEF TagsIn
  <2>2. i \in 1 .. n
    <3> SUFFICES ASSUME i \notin 1 .. n PROVE FALSE OBVIOUS
    <3>1. i - n \in 1 .. Len(r) /\ r[i - n] = b[i] BY <1>4
    <3> QED BY <1>6, <2>1, <3>1 DEF TagsIn
  <2> QED BY <2>1, <2>2
<1> QED BY <1>5, <1>6 DEF r

\* Taking one CQE.
LEMMA TagsTail ==
    ASSUME NEW q, NEW o, NEW c, NEW b \in Seq(CqeType), b # <<>>
    PROVE  /\ TagsIn(q, o, c, Tail(b)) \subseteq TagsIn(q, o, c, b)
           /\ <<Head(b).kind, Head(b).token>> \in TagsIn(q, o, c, b)
           /\ \A tag \in TagsIn(q, o, c, b) :
                 tag \in TagsIn(q, o, c, Tail(b)) \/ tag = <<Head(b).kind, Head(b).token>>
<1>1. Len(b) \in Nat \ {0} /\ 1 \in 0 .. Len(b) /\ 1 \in 1 .. Len(b) /\ Head(b) = b[1] OBVIOUS
<1>2. PICK n \in 0 .. Len(b) : n = 1 BY <1>1
<1>3. Tail(b) = SubSeq(b, n + 1, Len(b)) BY <1>2
<1>4. /\ TagsIn(q, o, c, SubSeq(b, n + 1, Len(b))) \subseteq TagsIn(q, o, c, b)
      /\ \A tag \in TagsIn(q, o, c, b) :
            \/ tag \in TagsIn(q, o, c, SubSeq(b, n + 1, Len(b)))
            \/ \E i \in 1 .. n : tag = <<b[i].kind, b[i].token>>
  BY TagsTake
<1>5. \A i \in 1 .. n : b[i] = Head(b) BY <1>1, <1>2
<1>6. <<Head(b).kind, Head(b).token>> \in TagsIn(q, o, c, b) BY <1>1 DEF TagsIn
<1> QED BY <1>3, <1>4, <1>5, <1>6

\* Draining and submitting move what is outstanding.
LEMMA TagsMove ==
    ASSUME NEW q, NEW o, NEW c, NEW b
    PROVE  /\ TagsIn(q, o, <<>>, c) = TagsIn(q, o, c, <<>>)
           /\ TagsIn(<<>>, o \cup {q[i] : i \in 1 .. Len(q)}, c, b) = TagsIn(q, o, c, b)
<1>1. \A e : {<<>>[i] : i \in 1 .. Len(<<>>)} = {} OBVIOUS
<1> QED BY <1>1 DEF TagsIn

\* A CQE carries the tag of its operation.
LEMMA TagsComplete ==
    ASSUME NEW q, NEW o, NEW c \in Seq(CqeType), NEW b, NEW op \in o, o \subseteq OpType,
           NEW res \in CqeRes, NEW more \in BOOLEAN,
           NEW o2, o2 = o \/ o2 = o \ {op}
    PROVE  TagsIn(q, o2, Append(c, Cqe(op, res, more)), b) = TagsIn(q, o, c, b)
<1> DEFINE e == Cqe(op, res, more)
<1>0. e \in CqeType BY DEF Cqe, CqeType, OpType, CqeRes
<1>1. e.kind = op.kind /\ e.token = op.token BY DEF Cqe
<1> HIDE DEF e
<1>2. /\ Len(Append(c, e)) = Len(c) + 1
      /\ Append(c, e)[Len(c) + 1] = e
      /\ \A i \in 1 .. Len(c) : Append(c, e)[i] = c[i]
      /\ Len(c) \in Nat
  BY <1>0
<1>3. /\ \A i \in 1 .. Len(Append(c, e)) : i = Len(c) + 1 \/ i \in 1 .. Len(c)
      /\ Len(c) + 1 \in 1 .. Len(Append(c, e))
      /\ 1 .. Len(c) \subseteq 1 .. Len(Append(c, e))
  BY <1>2
<1>4. {Append(c, e)[i] : i \in 1 .. Len(Append(c, e))} = {c[i] : i \in 1 .. Len(c)} \cup {e}
  BY ONLY <1>2, <1>3
<1>5. TagsIn(q, o2, Append(c, e), b) = TagsIn(q, o, c, b) BY <1>1, <1>4 DEF TagsIn
<1> QED BY <1>5 DEF e

-----------------------------------------------------------------------------
(* The kinds of steps. *)

\* What OpsInv says of connections and of what is outstanding.
SlotOps == IssuedInv /\ RingInv /\ ConnectInv /\ AgreeInv

\* A live connection has a generation.
LEMMA LiveConn ==
    ASSUME Inv, NEW s \in LiveIds
    PROVE  s \in ConnIds /\ conns[s] \in Conn /\ conns[s] # None
  BY DEF LiveIds, IsLive, Inv, SlotType

\* A step that changes no connection and moves what is outstanding, or drops
\* what belongs to no connection.
LEMMA MovedOps ==
    ASSUME Inv, SlotOps, UNCHANGED <<conns, born>>,
           phase' # "dropped" => phase # "dropped" /\ registered' = registered,
           Tags' \subseteq Tags,
           \A s \in LiveIds : <<"Connect", TokenOf(s)>> \in Tags => <<"Connect", TokenOf(s)>> \in Tags',
           \A s \in LiveIds, kind \in {"Recv", "Send"} :
               Sum(sq', ops', cq', buf', kind, TokenOf(s)) = Total(kind, TokenOf(s))
    PROVE  SlotOps'
<1>1. LiveIds' = LiveIds BY DEF LiveIds, IsLive
<1>2. \A s : TokenOf(s)' = TokenOf(s) BY DEF TokenOf
<1>3. IssuedInv' BY DEF SlotOps, IssuedInv
<1>4. RingInv' BY <1>1, <1>2 DEF SlotOps, RingInv, RingOK
<1>5. ConnectInv' BY <1>1, <1>2 DEF SlotOps, ConnectInv
<1>6. ASSUME NEW s \in LiveIds PROVE AgreeOK(conns[s], TokenOf(s))'
  <2>1. /\ Total("Recv", TokenOf(s)) = IF conns[s].armed THEN 1 ELSE 0
        /\ Total("Send", TokenOf(s)) = IF conns[s].inflight THEN 1 ELSE 0
    BY DEF SlotOps, AgreeInv, AgreeOK
  <2>2. /\ Sum(sq', ops', cq', buf', "Recv", TokenOf(s)) = Total("Recv", TokenOf(s))
        /\ Sum(sq', ops', cq', buf', "Send", TokenOf(s)) = Total("Send", TokenOf(s))
    OBVIOUS
  <2> QED BY <1>2, <2>1, <2>2 DEF AgreeOK, Total
<1>7. AgreeInv' BY <1>1, <1>6 DEF AgreeInv
<1> QED BY <1>3, <1>4, <1>5, <1>7 DEF SlotOps

\* A step on the connection in slot s, which becomes k2: it may submit
\* operations of its own and have a CQE of its own taken.
LEMMA ConnOps ==
    ASSUME Inv, SlotOps, NEW s \in LiveIds, NEW k2, Same(conns[s], k2),
           conns' = [conns EXCEPT ![s] = k2], UNCHANGED born,
           NEW token, token = TokenOf(s),
           phase # "dropped", phase' # "dropped", registered \subseteq registered',
           \A tag \in Tags' : tag \in Tags \/ tag[2] = token,
           \A tag \in Tags : tag[2] # token => tag \in Tags',
           RingOK(k2, token)',
           k2.state = "Connecting" => <<"Connect", token>> \in Tags',
           \A kind \in {"Recv", "Send"}, t \in Nat :
               t # token => Sum(sq', ops', cq', buf', kind, t) = Total(kind, t),
           Sum(sq', ops', cq', buf', "Recv", token) = IF k2.armed THEN 1 ELSE 0,
           Sum(sq', ops', cq', buf', "Send", token) = IF k2.inflight THEN 1 ELSE 0
    PROVE  SlotOps'
<1>0. s \in ConnIds /\ conns[s] \in Conn /\ conns[s] # None /\ k2 \in Conn /\ k2 # None
  BY LiveConn, PoolAssumption DEF Same
<1>1. LiveIds' = LiveIds
  BY <1>0 DEF LiveIds, IsLive, Inv, SlotType
<1>2. \A t \in LiveIds : t # s => conns'[t] = conns[t] /\ TokenOf(t)' = TokenOf(t)
  BY DEF TokenOf, LiveIds, Inv, SlotType
<1>3. conns'[s] = k2 /\ TokenOf(s)' = token
  BY <1>0 DEF TokenOf, Same, Inv, SlotType
<1>4. \A t \in LiveIds : t # s => TokenOf(t) # token /\ TokenOf(t) \in Nat
  <2> SUFFICES ASSUME NEW t \in LiveIds, t # s PROVE TokenOf(t) # token /\ TokenOf(t) \in Nat
    OBVIOUS
  <2>1. t \in ConnIds /\ conns[t].gen \in Nat
    BY LiveConn, PoolAssumption DEF Conn, Generations
  <2> QED BY <2>1, TokenOfInjective, TokenType DEF TokenOf
<1>5. IssuedInv'
  <2> SUFFICES ASSUME NEW tag \in Tags', NEW t \in ConnIds, NEW g \in Generations,
                      tag[2] = Token(t, g)
               PROVE  g < born[t]
    BY DEF IssuedInv
  <2>1. CASE tag \in Tags BY <2>1 DEF SlotOps, IssuedInv
  <2>2. CASE tag[2] = token
    <3>1. Token(t, g) = Token(s, conns[s].gen) BY <2>2 DEF TokenOf
    <3>2. g \in Nat /\ conns[s].gen \in Nat
      BY <1>0, PoolAssumption DEF Conn, Generations
    <3>3. t = s /\ g = conns[s].gen BY <1>0, <3>1, <3>2, TokenInjective
    <3>4. conns[s].gen = generations[s] /\ born[s] = generations[s] + 1
      BY <1>0 DEF Inv, OccupantInv, IsLive
    <3> QED BY <3>2, <3>3, <3>4
  <2> QED BY <2>1, <2>2
<1>6. RingInv'
  <2> SUFFICES ASSUME NEW t \in LiveIds PROVE RingOK(conns[t], TokenOf(t))'
    BY <1>1 DEF RingInv
  <2>1. CASE t = s BY <1>3, <2>1 DEF RingOK
  <2>2. CASE t # s
    <3>1. conns'[t] = conns[t] /\ TokenOf(t)' = TokenOf(t) /\ TokenOf(t) # token
      BY <1>2, <1>4, <2>2
    <3>2. <<"Recv", TokenOf(t)>> \in Tags' => <<"Recv", TokenOf(t)>> \in Tags
      BY <3>1
    <3>3. RingOK(conns[t], TokenOf(t)) BY DEF SlotOps, RingInv
    <3> QED BY <3>1, <3>2, <3>3 DEF RingOK
  <2> QED BY <2>1, <2>2
<1>7. ConnectInv'
  <2> SUFFICES ASSUME NEW t \in LiveIds, conns'[t].state = "Connecting"
               PROVE  <<"Connect", TokenOf(t)'>> \in Tags'
    BY <1>1 DEF ConnectInv
  <2>1. CASE t = s BY <1>3, <2>1
  <2>2. CASE t # s
    <3>1. conns'[t] = conns[t] /\ TokenOf(t)' = TokenOf(t) /\ TokenOf(t) # token
      BY <1>2, <1>4, <2>2
    <3>2. <<"Connect", TokenOf(t)>> \in Tags BY <3>1 DEF SlotOps, ConnectInv
    <3> QED BY <3>1, <3>2
  <2> QED BY <2>1, <2>2
<1>8. AgreeInv'
  <2> SUFFICES ASSUME NEW t \in LiveIds PROVE AgreeOK(conns[t], TokenOf(t))'
    BY <1>1 DEF AgreeInv
  <2>1. CASE t = s BY <1>3, <2>1 DEF AgreeOK, Total
  <2>2. CASE t # s
    <3>1. /\ conns'[t] = conns[t] /\ TokenOf(t)' = TokenOf(t)
          /\ TokenOf(t) # token /\ TokenOf(t) \in Nat
      BY <1>2, <1>4, <2>2
    <3>2. /\ Sum(sq', ops', cq', buf', "Recv", TokenOf(t)) = Total("Recv", TokenOf(t))
          /\ Sum(sq', ops', cq', buf', "Send", TokenOf(t)) = Total("Send", TokenOf(t))
      BY <3>1
    <3>3. /\ Total("Recv", TokenOf(t)) = IF conns[t].armed THEN 1 ELSE 0
          /\ Total("Send", TokenOf(t)) = IF conns[t].inflight THEN 1 ELSE 0
      BY DEF SlotOps, AgreeInv, AgreeOK
    <3> QED BY <3>1, <3>2, <3>3 DEF AgreeOK, Total
  <2> QED BY <2>1, <2>2
<1> QED BY <1>5, <1>6, <1>7, <1>8 DEF SlotOps

\* A step that retires slot s leaves what is outstanding of it behind.
LEMMA RetireOps ==
    ASSUME Inv, SlotOps, NEW s \in LiveIds, RetireSlot(s), UNCHANGED <<sq, ops, cq, buf>>,
           phase # "dropped", phase' # "dropped"
    PROVE  SlotOps'
<1>1. /\ conns' = [conns EXCEPT ![s] = None]
      /\ born' = born
      /\ registered \ {conns[s].bgid} \subseteq registered'
  BY DEF RetireSlot
<1>2. \A t \in LiveIds' : t \in LiveIds /\ t # s
  BY <1>1, LiveConn DEF LiveIds, IsLive, Inv, SlotType
<1>3. \A t \in LiveIds : t # s =>
        /\ conns'[t] = conns[t] /\ TokenOf(t)' = TokenOf(t)
        /\ conns[t].bgid # conns[s].bgid
  BY <1>1 DEF TokenOf, LiveIds, Inv, SlotType, BgidInv, BgidExclusive
<1>4. Tags' = Tags BY DEF Tags
<1>5. IssuedInv' BY <1>1, <1>4 DEF SlotOps, IssuedInv
<1>6. RingInv' BY <1>1, <1>2, <1>3, <1>4 DEF SlotOps, RingInv, RingOK
<1>7. ConnectInv' BY <1>2, <1>3, <1>4 DEF SlotOps, ConnectInv
<1>8. ASSUME NEW t \in LiveIds' PROVE AgreeOK(conns[t], TokenOf(t))'
  <2>1. t \in LiveIds /\ conns'[t] = conns[t] /\ TokenOf(t)' = TokenOf(t) BY <1>2, <1>3
  <2>2. /\ Total("Recv", TokenOf(t)) = IF conns[t].armed THEN 1 ELSE 0
        /\ Total("Send", TokenOf(t)) = IF conns[t].inflight THEN 1 ELSE 0
    BY <2>1 DEF SlotOps, AgreeInv, AgreeOK
  <2> QED BY <2>1, <2>2 DEF AgreeOK, Total
<1>9. AgreeInv' BY <1>8 DEF AgreeInv
<1> QED BY <1>5, <1>6, <1>7, <1>9 DEF SlotOps

\* What is not tagged is not counted.
LEMMA SumUntagged ==
    ASSUME NEW q, NEW o, NEW c, NEW b, Queues(q, o, c, b), NEW kind, NEW token,
           <<kind, token>> \notin TagsIn(q, o, c, b)
    PROVE  Sum(q, o, c, b, kind, token) = 0
<1>1. \A i \in 1 .. Len(q) : q[i] \notin MineOp(kind, token) BY DEF TagsIn, MineOp
<1>2. \A i \in 1 .. Len(c) : c[i] \notin MineLast(kind, token) BY DEF TagsIn, MineLast
<1>3. \A i \in 1 .. Len(b) : b[i] \notin MineLast(kind, token) BY DEF TagsIn, MineLast
<1>4. o \cap MineOp(kind, token) = {} BY DEF TagsIn, MineOp
<1>5. /\ Count(q, MineOp(kind, token)) = 0
      /\ Count(c, MineLast(kind, token)) = 0
      /\ Count(b, MineLast(kind, token)) = 0
  BY <1>1, <1>2, <1>3, CountZero DEF Queues
<1>6. Cardinality(o \cap MineOp(kind, token)) = 0 BY <1>4, FS_EmptySet
<1> QED BY <1>5, <1>6 DEF Sum

\* A new connection has a token that was never issued.
LEMMA SubmittedOps ==
    ASSUME Inv, QueueType, SlotOps, NEW tls \in BOOLEAN, ConnIdAvailable, BgidAvailable,
           Submitted(ReservedConnId, NewConn(ReservedConnId, tls)),
           UNCHANGED <<generations, ops, cq, buf, registered>>,
           phase # "dropped", phase' # "dropped"
    PROVE  /\ SlotOps'
           /\ conns'[ReservedConnId].state = "Connecting"
<1>1. PICK s : s = ReservedConnId OBVIOUS
<1>2. PICK k : k = NewConn(s, tls) OBVIOUS
<1>3. /\ s \in ConnIds /\ ~IsLive(s) /\ born[s] = generations[s]
      /\ ReservedBgid \in Bgids
  BY <1>1, ReservedFresh
<1>4. /\ k \in Conn
      /\ k.gen = generations[s]
      /\ k.state = "Connecting" /\ k.ws = "Connecting"
      /\ k.rx = FALSE /\ k.ring = FALSE /\ k.armed = FALSE /\ k.inflight = FALSE
  BY <1>2, <1>3 DEF NewConn, Conn, State, WsState, Inv, SlotType
<1>5. /\ sq' = Append(sq, Op("Connect", s, k))
      /\ conns' = [conns EXCEPT ![s] = k]
      /\ born' = [born EXCEPT ![s] = @ + 1]
  BY <1>1, <1>2 DEF Submitted
<1>6. k # None BY <1>4, PoolAssumption
<1>7. k.gen \in Generations /\ k.gen \in Nat /\ born[s] \in Nat
  BY <1>3, <1>4, PoolAssumption DEF Conn, Generations, Inv, SlotType
<1>8. PICK token : token = Token(s, k.gen) OBVIOUS
<1>9. token \in Nat BY <1>3, <1>7, <1>8, TokenType
<1>10. PICK e : e = Op("Connect", s, k) OBVIOUS
<1>11. /\ e \in OpType
       /\ e.kind = "Connect" /\ e.token = token
  BY <1>4, <1>7, <1>8, <1>9, <1>10 DEF Op, OpType, Kind, Conn
<1>12. conns'[s] = k /\ conns'[s].state = "Connecting"
  BY <1>3, <1>4, <1>5 DEF Inv, SlotType
<1>13. \A t \in LiveIds' : t = s \/ (t \in LiveIds /\ t # s)
  BY <1>3, <1>5 DEF LiveIds, IsLive, Inv, SlotType
<1>14. \A t \in LiveIds : t # s => conns'[t] = conns[t] /\ TokenOf(t)' = TokenOf(t)
  BY <1>5 DEF TokenOf, LiveIds, Inv, SlotType
<1>15. TokenOf(s)' = token BY <1>8, <1>12 DEF TokenOf
<1>16. \A tag \in Tags : tag[2] # token
  <2> SUFFICES ASSUME NEW tag \in Tags, tag[2] = token PROVE FALSE OBVIOUS
  <2>1. k.gen < born[s] BY <1>3, <1>7, <1>8 DEF SlotOps, IssuedInv
  <2> QED BY <1>3, <1>4, <1>7, <2>1
<1>17. Tags' = Tags \cup {<<"Connect", token>>}
  <2>1. TagsIn(Append(sq, e), ops, cq, buf) = TagsIn(sq, ops, cq, buf) \cup {<<e.kind, e.token>>}
    BY <1>11, TagsPush DEF QueueType, Queues
  <2> QED BY <1>5, <1>10, <1>11, <2>1 DEF Tags
<1>18. ASSUME NEW kind \in {"Recv", "Send"}, NEW t
       PROVE  Sum(sq', ops', cq', buf', kind, t) = Total(kind, t)
  <2>1. Sum(Append(sq, e), ops, cq, buf, kind, t) =
          Sum(sq, ops, cq, buf, kind, t) + (IF e.kind = kind /\ e.token = t THEN 1 ELSE 0)
    BY <1>11, SumPush DEF QueueType
  <2>2. Sum(sq, ops, cq, buf, kind, t) \in Nat BY SumType DEF QueueType
  <2>3. ~(e.kind = kind /\ e.token = t) BY <1>11
  <2>4. Sum(Append(sq, e), ops, cq, buf, kind, t) = Sum(sq, ops, cq, buf, kind, t)
    BY ONLY <2>1, <2>2, <2>3
  <2> QED BY <1>5, <1>10, <2>4 DEF Total
<1>19. IssuedInv'
  <2> SUFFICES ASSUME NEW tag \in Tags', NEW t \in ConnIds, NEW g \in Generations,
                      tag[2] = Token(t, g)
               PROVE  g < born'[t]
    BY DEF IssuedInv
  <2>0. /\ g \in Nat /\ born[t] \in Nat
        /\ born'[t] = IF t = s THEN born[t] + 1 ELSE born[t]
    BY <1>3, <1>5, PoolAssumption DEF Generations, Inv, SlotType
  <2>1. CASE tag \in Tags
    <3>1. g < born[t] BY <2>1 DEF SlotOps, IssuedInv
    <3> QED BY <2>0, <3>1
  <2>2. CASE tag[2] = token
    <3>1. Token(t, g) = Token(s, k.gen) BY <1>8, <2>2
    <3>2. g \in Nat BY <2>0
    <3>3. t = s /\ g = k.gen BY <1>3, <1>7, <3>1, <3>2, TokenInjective
    <3> QED BY <1>3, <1>4, <2>0, <3>3
  <2> QED BY <1>17, <2>1, <2>2
<1>20. RingInv'
  <2> SUFFICES ASSUME NEW t \in LiveIds' PROVE RingOK(conns[t], TokenOf(t))'
    BY DEF RingInv
  <2>1. CASE t = s
    <3>1. <<"Recv", token>> \notin Tags' BY <1>16, <1>17
    <3> QED BY <1>4, <1>12, <1>15, <2>1, <3>1 DEF RingOK
  <2>2. CASE t # s
    <3>1. t \in LiveIds /\ conns'[t] = conns[t] /\ TokenOf(t)' = TokenOf(t)
      BY <1>13, <1>14, <2>2
    <3>2. RingOK(conns[t], TokenOf(t)) BY <3>1 DEF SlotOps, RingInv
    <3>3. <<"Recv", TokenOf(t)>> \in Tags' => <<"Recv", TokenOf(t)>> \in Tags BY <1>17
    <3> QED BY <3>1, <3>2, <3>3 DEF RingOK
  <2> QED BY <2>1, <2>2
<1>21. ConnectInv'
  <2> SUFFICES ASSUME NEW t \in LiveIds', conns'[t].state = "Connecting"
               PROVE  <<"Connect", TokenOf(t)'>> \in Tags'
    BY DEF ConnectInv
  <2>1. CASE t = s BY <1>15, <1>17, <2>1
  <2>2. CASE t # s
    <3>1. t \in LiveIds /\ conns'[t] = conns[t] /\ TokenOf(t)' = TokenOf(t)
      BY <1>13, <1>14, <2>2
    <3> QED BY <1>17, <3>1 DEF SlotOps, ConnectInv
  <2> QED BY <2>1, <2>2
<1>22. AgreeInv'
  <2> SUFFICES ASSUME NEW t \in LiveIds' PROVE AgreeOK(conns[t], TokenOf(t))'
    BY DEF AgreeInv
  <2>1. CASE t = s
    <3>1. \A kind : <<kind, token>> \notin Tags BY <1>16
    <3>2. Total("Recv", token) = 0 /\ Total("Send", token) = 0
      BY <3>1, SumUntagged DEF Total, Tags, QueueType
    <3>3. /\ Sum(sq', ops', cq', buf', "Recv", token) = 0
          /\ Sum(sq', ops', cq', buf', "Send", token) = 0
      BY <1>18, <3>2
    <3> QED BY <1>4, <1>12, <1>15, <2>1, <3>3 DEF AgreeOK, Total
  <2>2. CASE t # s
    <3>1. t \in LiveIds /\ conns'[t] = conns[t] /\ TokenOf(t)' = TokenOf(t)
      BY <1>13, <1>14, <2>2
    <3>2. /\ Total("Recv", TokenOf(t)) = IF conns[t].armed THEN 1 ELSE 0
          /\ Total("Send", TokenOf(t)) = IF conns[t].inflight THEN 1 ELSE 0
      BY <3>1 DEF SlotOps, AgreeInv, AgreeOK
    <3>3. /\ Sum(sq', ops', cq', buf', "Recv", TokenOf(t)) = Total("Recv", TokenOf(t))
          /\ Sum(sq', ops', cq', buf', "Send", TokenOf(t)) = Total("Send", TokenOf(t))
      BY <1>18
    <3> QED BY <3>1, <3>2, <3>3 DEF AgreeOK, Total
  <2> QED BY <2>1, <2>2
<1> QED BY <1>1, <1>12, <1>19, <1>20, <1>21, <1>22 DEF SlotOps

-----------------------------------------------------------------------------
(* One lemma per action. *)

\* The facts about the queues that every step uses.
LEMMA OpsInvFacts ==
    ASSUME Inv, OpsInv
    PROVE  /\ QueueType
           /\ SlotOps
           /\ sq \in Seq(OpType) /\ ops \subseteq OpType /\ IsFiniteSet(ops)
           /\ cq \in Seq(CqeType) /\ buf \in Seq(CqeType)
  BY QueueTypeInv DEF OpsInv, SlotOps, QueueType, Queues

\* Outside the submit phase and the wait of a blocking connect, OpenInv asks
\* for an empty buffer of CQEs only.
LEMMA OpenElsewhere ==
    ASSUME mode' # "open" \/ phase' \notin {"submit", "wait"},
           phase' # "dispatch" => buf' = <<>>
    PROVE  OpenInv'
  BY DEF OpenInv

\* Steps that touch neither connections nor queues.
LEMMA StillOps ==
    ASSUME Inv, OpsInv, UNCHANGED <<conns, born, sq, ops, cq, buf>>,
           phase' # "dropped" => phase # "dropped" /\ registered' = registered
    PROVE  IsFiniteSet(ops)' /\ CqeInv' /\ SlotOps'
<1>1. Tags' = Tags BY DEF Tags
<1>2. \A kind, t : Sum(sq', ops', cq', buf', kind, t) = Total(kind, t) BY DEF Total
<1>3. SlotOps' BY <1>1, <1>2, OpsInvFacts, MovedOps
<1>4. IsFiniteSet(ops)' /\ CqeInv' BY DEF OpsInv, CqeInv
<1> QED BY <1>3, <1>4

\* Beginning a pump, dropping the pool, a failed submit, the end of a dispatch
\* and of the polling preserve the invariant.
LEMMA StillStepOps ==
    ASSUME Inv, OpsInv,
           \/ \E m \in PumpModes : PumpBegin(m)
           \/ DropPool \/ SubmitError \/ EndDispatch \/ PollEnd
    PROVE  OpsInv'
<1>1. UNCHANGED <<conns, born, sq, ops, cq, buf>>
  BY DEF PumpBegin, DropPool, SubmitError, EndDispatch, PollEnd, slotVars, kernelVars
<1>2. phase' # "dropped" => phase # "dropped" /\ registered' = registered
  BY DEF PumpBegin, DropPool, SubmitError, EndDispatch, PollEnd, kernelVars
<1>3. IsFiniteSet(ops)' /\ CqeInv' /\ SlotOps' BY <1>1, <1>2, StillOps
<1>4. phase # "dispatch" => buf = <<>> BY DEF OpsInv, OpenInv
<1>5. OpenInv'
  <2>1. CASE \E m \in PumpModes : PumpBegin(m)
    <3>1. mode' # "open" BY <2>1, PoolAssumption DEF PumpBegin, StartRound
    <3>2. phase = "idle" BY <2>1 DEF PumpBegin
    <3> QED BY <1>1, <1>4, <3>1, <3>2, OpenElsewhere
  <2>2. CASE DropPool BY <1>1, <1>4, <2>2, OpenElsewhere DEF DropPool
  <2>3. CASE SubmitError BY <1>1, <1>4, <2>3, OpenElsewhere DEF SubmitError, Return
  <2>4. CASE EndDispatch
    <3>1. mode' # "open" \/ phase' \notin {"submit", "wait"} BY <2>4 DEF EndDispatch, Return
    <3>2. buf' = <<>> BY <1>1, <2>4 DEF EndDispatch
    <3> QED BY <3>1, <3>2, OpenElsewhere
  <2>5. CASE PollEnd BY <1>1, <1>4, <2>5, OpenElsewhere DEF PollEnd, Return
  <2> QED BY <2>1, <2>2, <2>3, <2>4, <2>5
<1> QED BY <1>3, <1>5 DEF OpsInv, SlotOps

\* A step that changes nothing preserves the invariant.
LEMMA StutterOps ==
    ASSUME Inv, OpsInv, UNCHANGED vars
    PROVE  OpsInv'
<1>1. UNCHANGED <<conns, born, sq, ops, cq, buf, registered, phase, mode, cur, target, first_err>>
  BY DEF vars, slotVars, pumpVars, kernelVars
<1>2. IsFiniteSet(ops)' /\ CqeInv' /\ SlotOps' BY <1>1, StillOps
<1>3. OpenInv' BY <1>1 DEF OpsInv, OpenInv
<1> QED BY <1>2, <1>3 DEF OpsInv, SlotOps

\* A live connection has one receive and one send outstanding, at most.
LEMMA AtMostOne ==
    ASSUME SlotOps, NEW s \in LiveIds, NEW kind \in {"Recv", "Send"}
    PROVE  Sum(sq, ops, cq, buf, kind, TokenOf(s)) \in {0, 1}
<1>1. AgreeOK(conns[s], TokenOf(s)) BY DEF SlotOps, AgreeInv
<1> QED BY <1>1 DEF AgreeOK, Total

\* proactor.submit preserves the invariant.
LEMMA SubmitOps ==
    ASSUME Inv, OpsInv, Submit
    PROVE  OpsInv'
<1>1. /\ phase = "submit" /\ phase' = "wait" /\ cur >= next_conn_id
      /\ ops' = ops \cup {sq[i] : i \in 1 .. Len(sq)}
      /\ sq' = <<>>
      /\ UNCHANGED <<mode, target, buf, first_err, conns, born, cq, registered>>
  BY DEF Submit, slotVars
<1>2. Tags' = Tags BY <1>1, TagsMove DEF Tags
<1>3. ASSUME NEW s \in LiveIds, NEW kind \in {"Recv", "Send"}
      PROVE  Sum(sq', ops', cq', buf', kind, TokenOf(s)) = Total(kind, TokenOf(s))
  <2>1. Queues(sq, ops, cq, buf) /\ Sum(sq, ops, cq, buf, kind, TokenOf(s)) \in {0, 1}
    BY OpsInvFacts, AtMostOne DEF QueueType
  <2>2. Sum(<<>>, ops \cup {sq[i] : i \in 1 .. Len(sq)}, cq, buf, kind, TokenOf(s)) =
           Sum(sq, ops, cq, buf, kind, TokenOf(s))
    BY <2>1, SumSubmit
  <2> QED BY <1>1, <2>2 DEF Total
<1>4. SlotOps' BY <1>1, <1>2, <1>3, OpsInvFacts, MovedOps
<1>5. IsFiniteSet(ops')
  <2>1. IsFiniteSet({sq[i] : i \in 1 .. Len(sq)})
    <3> DEFINE f == [i \in 1 .. Len(sq) |-> sq[i]]
               T == {sq[i] : i \in 1 .. Len(sq)}
    <3>1. f \in [1 .. Len(sq) -> T] /\ \A e \in T : \E i \in 1 .. Len(sq) : f[i] = e
      OBVIOUS
    <3>2. Len(sq) \in Nat BY OpsInvFacts
    <3>3. IsFiniteSet(1 .. Len(sq)) BY <3>2, FS_Interval
    <3> HIDE DEF f, T
    <3>4. f \in Surjection(1 .. Len(sq), T) BY <3>1, Fun_IsSurj
    <3>5. IsFiniteSet(T) BY <3>3, <3>4, FS_Surjection
    <3> QED BY <3>5 DEF T
  <2> QED BY <1>1, <2>1, OpsInvFacts, FS_Union
<1>6. CqeInv' BY <1>1 DEF OpsInv, CqeInv
<1>7. OpenInv'
  <2>1. mode = "open" => cur > target
    <3> SUFFICES ASSUME mode = "open" PROVE cur > target OBVIOUS
    <3>1. target \in ConnIds /\ IsLive(target) BY <1>1 DEF Inv, TargetLive, PumpType
    <3>2. target < next_conn_id BY <3>1 DEF Inv, SlotsAccounted
    <3> QED BY <1>1, <3>1, <3>2, PoolAssumption DEF Inv, PumpType, SlotType, ConnIds
  <2> QED BY <1>1, <2>1 DEF OpsInv, OpenInv
<1> QED BY <1>4, <1>5, <1>6, <1>7 DEF OpsInv, SlotOps

\* drain_completions preserves the invariant.
LEMMA DrainOps ==
    ASSUME Inv, OpsInv, Drain
    PROVE  OpsInv'
<1>1. /\ phase = "wait" /\ phase' = "dispatch"
      /\ buf' = cq /\ cq' = <<>>
      /\ UNCHANGED <<conns, born, sq, ops, registered>>
  BY DEF Drain, slotVars
<1>2. buf = <<>> BY <1>1 DEF OpsInv, OpenInv
<1>3. Tags' = Tags BY <1>1, <1>2, TagsMove DEF Tags
<1>4. ASSUME NEW t, NEW kind
      PROVE  Sum(sq', ops', cq', buf', kind, t) = Total(kind, t)
  <2>1. Queues(sq, ops, cq, <<>>) BY <1>2, OpsInvFacts DEF QueueType
  <2>2. Sum(sq, ops, <<>>, cq, kind, t) = Sum(sq, ops, cq, <<>>, kind, t) BY <2>1, SumDrain
  <2> QED BY <1>1, <1>2, <2>2 DEF Total
<1>5. SlotOps' BY <1>1, <1>3, <1>4, OpsInvFacts, MovedOps
<1>6. IsFiniteSet(ops)' /\ CqeInv' BY <1>1 DEF OpsInv, CqeInv
<1>7. OpenInv' BY <1>1, OpenElsewhere
<1> QED BY <1>5, <1>6, <1>7 DEF OpsInv, SlotOps

\* A step of the kernel preserves the invariant.
LEMMA KernelOps ==
    ASSUME Inv, OpsInv, Kernel
    PROVE  OpsInv'
<1>1. PICK op \in ops : KernelComplete(op) \/ KernelRecv(op) BY DEF Kernel
<1>2. UNCHANGED <<conns, born, sq, registered, phase, mode, cur, target, buf, first_err>>
  BY <1>1 DEF KernelComplete, KernelRecv, pumpVars, slotVars
<1>3. \E res \in CqeRes, more \in BOOLEAN :
        /\ cq' = Append(cq, Cqe(op, res, more))
        /\ ops' = IF more THEN ops ELSE ops \ {op}
        /\ more => op.kind = "Recv" /\ res # "nobufs"
  <2>1. CASE KernelComplete(op)
    BY <2>1 DEF KernelComplete, CqeRes
  <2>2. CASE KernelRecv(op)
    <3>1. CASE \E more \in BOOLEAN :
                  /\ cq' = Append(cq, Cqe(op, "data", more))
                  /\ ops' = IF more THEN ops ELSE ops \ {op}
      BY <2>2, <3>1 DEF KernelRecv, CqeRes
    <3>2. CASE /\ \E res \in {"eof", "err", "nobufs"} : cq' = Append(cq, Cqe(op, res, FALSE))
               /\ ops' = ops \ {op}
      BY <2>2, <3>2 DEF KernelRecv, CqeRes
    <3> QED BY <2>2, <3>1, <3>2 DEF KernelRecv
  <2> QED BY <1>1, <2>1, <2>2
<1>4. PICK res \in CqeRes, more \in BOOLEAN :
        /\ cq' = Append(cq, Cqe(op, res, more))
        /\ ops' = IF more THEN ops ELSE ops \ {op}
        /\ more => op.kind = "Recv" /\ res # "nobufs"
  BY <1>3
<1>5. /\ ops \subseteq OpType /\ op \in OpType /\ cq \in Seq(CqeType)
      /\ Queues(sq, ops, cq, buf)
  BY OpsInvFacts DEF QueueType
<1>6. Tags' = Tags
  <2>1. ops' = ops \/ ops' = ops \ {op} BY <1>4
  <2>2. TagsIn(sq, ops', Append(cq, Cqe(op, res, more)), buf) = TagsIn(sq, ops, cq, buf)
    BY <1>5, <2>1, TagsComplete
  <2> QED BY <1>2, <1>4, <2>2 DEF Tags
<1>7. ASSUME NEW t, NEW kind
      PROVE  Sum(sq', ops', cq', buf', kind, t) = Total(kind, t)
  <2>1. Sum(sq, ops', Append(cq, Cqe(op, res, more)), buf, kind, t) =
           Sum(sq, ops, cq, buf, kind, t)
    BY <1>4, <1>5, SumPosted
  <2> QED BY <1>2, <1>4, <2>1 DEF Total
<1>8. SlotOps' BY <1>2, <1>6, <1>7, OpsInvFacts, MovedOps
<1>9. IsFiniteSet(ops') BY <1>4, FS_RemoveElement DEF OpsInv
<1>10. CqeInv'
  <2>1. PICK e : e = Cqe(op, res, more) OBVIOUS
  <2>2. e \in CqeType BY <1>5, <2>1 DEF Cqe, CqeType, OpType, CqeRes
  <2>3. CqeOK(e) BY <1>4, <2>1 DEF CqeOK, Cqe
  <2>4. cq' = Append(cq, e) BY <1>4, <2>1
  <2>5. /\ Len(cq') = Len(cq) + 1 /\ Len(cq) \in Nat
        /\ cq'[Len(cq) + 1] = e
        /\ \A i \in 1 .. Len(cq) : cq'[i] = cq[i]
    BY <1>5, <2>2, <2>4
  <2>6. \A i \in 1 .. Len(cq') : i \in 1 .. Len(cq) \/ i = Len(cq) + 1 BY <2>5
  <2>7. \A i \in 1 .. Len(cq) : CqeOK(cq[i]) BY DEF OpsInv, CqeInv
  <2>8. \A i \in 1 .. Len(cq') : CqeOK(cq'[i]) BY <2>3, <2>5, <2>6, <2>7
  <2> QED BY <1>2, <2>8 DEF OpsInv, CqeInv, CqeOK
<1>11. OpenInv' BY <1>2 DEF OpsInv, OpenInv
<1> QED BY <1>8, <1>9, <1>10, <1>11 DEF OpsInv, SlotOps

\* Dropping a CQE that routes nowhere preserves the invariant: it belongs to no
\* live connection.
LEMMA DropStaleOps ==
    ASSUME Inv, OpsInv, DropStale
    PROVE  OpsInv'
<1>1. /\ phase = "dispatch" /\ buf # <<>> /\ buf' = Tail(buf)
      /\ ~\E s \in ConnIds : Routes(Head(buf), s)
      /\ UNCHANGED <<phase, conns, born, sq, ops, cq, registered>>
  BY DEF DropStale, Dispatching, slotVars, kernelVars
<1>2. \A s \in LiveIds : Head(buf).token # TokenOf(s)
  BY <1>1, RoutesByToken DEF LiveIds
<1>3. /\ Tags' \subseteq Tags
      /\ \A tag \in Tags : tag \in Tags' \/ tag = <<Head(buf).kind, Head(buf).token>>
  BY <1>1, OpsInvFacts, TagsTail DEF Tags
<1>4. ASSUME NEW s \in LiveIds, NEW kind
      PROVE  Sum(sq', ops', cq', buf', kind, TokenOf(s)) = Total(kind, TokenOf(s))
  <2>0. Queues(sq, ops, cq, buf) /\ buf # <<>> BY <1>1, OpsInvFacts DEF QueueType
  <2>1. /\ Queues(sq, ops, cq, Tail(buf))
        /\ Sum(sq, ops, cq, buf, kind, TokenOf(s)) =
              Sum(sq, ops, cq, Tail(buf), kind, TokenOf(s))
                + (IF Head(buf) \in MineLast(kind, TokenOf(s)) THEN 1 ELSE 0)
    BY ONLY <2>0, SumTake
  <2>2. Sum(sq, ops, cq, Tail(buf), kind, TokenOf(s)) \in Nat BY <2>1, SumType
  <2>3. Sum(sq, ops, cq, buf, kind, TokenOf(s)) = Sum(sq, ops, cq, Tail(buf), kind, TokenOf(s))
    BY <1>2, <2>1, <2>2 DEF MineLast
  <2> QED BY <1>1, <2>3 DEF Total
<1>5. SlotOps' BY <1>1, <1>2, <1>3, <1>4, OpsInvFacts, MovedOps
<1>6. CqeInv'
  <2>1. \A i \in 1 .. Len(Tail(buf)) : i + 1 \in 1 .. Len(buf) /\ Tail(buf)[i] = buf[i + 1]
    BY <1>1, OpsInvFacts
  <2> QED BY <1>1, <2>1 DEF OpsInv, CqeInv, CqeOK
<1>7. IsFiniteSet(ops)' /\ OpenInv' BY <1>1, OpenElsewhere DEF OpsInv
<1> QED BY <1>5, <1>6, <1>7 DEF OpsInv, SlotOps

-----------------------------------------------------------------------------
(* Steps of one connection. *)

\* What finishing a handler does to a connection.
LEMMA FinishedKeeps ==
    ASSUME NEW k \in Conn, NEW done \in {Failed(k), SyncClose(SyncOpen(k))}
    PROVE  /\ Same(k, done)
           /\ Keeps(k, done)
           /\ done.ws = k.ws /\ done.rx = k.rx
           /\ k.ws = "Connecting" => done.state \in {k.state, "Closed"}
<1>1. SyncOpen(k) \in Conn /\ Keeps(k, SyncOpen(k)) BY StepsKeep DEF Keeps
<1>2. Keeps(k, SyncClose(SyncOpen(k))) BY <1>1, StepsKeep, KeepsTrans
<1>3. Keeps(k, done) BY <1>2, StepsKeep
<1>4. Same(k, done) BY FailedSame, SyncSame
<1>5. /\ done.ws = k.ws /\ done.rx = k.rx
      /\ k.ws = "Connecting" => done.state \in {k.state, "Closed"}
  BY DEF Failed, SyncOpen, SyncClose, Conn
<1> QED BY <1>3, <1>4, <1>5

\* A connection without a ring has not heard of its peer.
Unheard(k) == k.state \in {"Connecting", "Closed"} /\ k.ws = "Connecting" /\ ~k.rx

\* Steps that change one connection, not its beliefs, and no queue.
LEMMA QuietConnOps ==
    ASSUME Inv, OpsInv, NEW s \in LiveIds, NEW k2, Same(conns[s], k2), Keeps(conns[s], k2),
           ~conns[s].ring => Unheard(k2),
           conns' = [conns EXCEPT ![s] = k2],
           UNCHANGED <<born, sq, ops, cq, buf, registered>>,
           phase # "dropped", phase' # "dropped"
    PROVE  IsFiniteSet(ops)' /\ CqeInv' /\ SlotOps'
<1>1. PICK token : token = TokenOf(s) OBVIOUS
<1>2. Tags' = Tags BY DEF Tags
<1>3. \A kind, t : Sum(sq', ops', cq', buf', kind, t) = Total(kind, t) BY DEF Total
<1>4. SlotOps BY OpsInvFacts
<1>5. RingOK(conns[s], token) BY <1>1, <1>4 DEF SlotOps, RingInv
<1>6. k2.bgid = conns[s].bgid BY DEF Same
<1>7. k2.ring = conns[s].ring /\ k2.armed = conns[s].armed /\ k2.inflight = conns[s].inflight
  BY DEF Keeps
<1>8. RingOK(k2, token)' BY <1>2, <1>5, <1>6, <1>7 DEF RingOK, Unheard
<1>9. k2.state = "Connecting" => <<"Connect", token>> \in Tags'
  BY <1>1, <1>2, <1>4 DEF Keeps, SlotOps, ConnectInv
<1>10. AgreeOK(conns[s], token) BY <1>1, <1>4 DEF SlotOps, AgreeInv
<1>11. /\ Sum(sq', ops', cq', buf', "Recv", token) = IF k2.armed THEN 1 ELSE 0
       /\ Sum(sq', ops', cq', buf', "Send", token) = IF k2.inflight THEN 1 ELSE 0
  BY <1>3, <1>7, <1>10 DEF AgreeOK
<1>12. SlotOps' BY <1>1, <1>2, <1>3, <1>4, <1>8, <1>9, <1>11, ConnOps
<1>13. IsFiniteSet(ops)' /\ CqeInv' BY DEF OpsInv, CqeInv
<1> QED BY <1>12, <1>13

\* What is known of a connection that has no ring.
LEMMA RinglessUnheard ==
    ASSUME OpsInv, NEW s \in LiveIds, ~conns[s].ring
    PROVE  Unheard(conns[s])
  BY DEF OpsInv, RingInv, RingOK, Unheard

\* initiate_close preserves the invariant.
LEMMA InitiateCloseOps ==
    ASSUME Inv, OpsInv, NEW s \in ConnIds, InitiateClose(s)
    PROVE  OpsInv'
<1> DEFINE k == [conns[s] EXCEPT !.ws = IF @ = "Open" THEN "Closing" ELSE @,
                                 !.state = IF @ = "Open" THEN "Closing" ELSE @]
<1>1. s \in LiveIds /\ conns[s] \in Conn BY DEF InitiateClose, LiveIds, Inv, SlotType, IsLive
<1>2. Same(conns[s], k) BY <1>1 DEF Same, Conn, State, WsState
<1>3. Keeps(conns[s], k) BY <1>1 DEF Keeps, Conn, State, WsState
<1>4. conns' = [conns EXCEPT ![s] = k] BY DEF InitiateClose
<1>5. /\ UNCHANGED <<born, sq, ops, cq, buf, registered, phase>>
      /\ phase = "idle"
  BY DEF InitiateClose, kernelVars, pumpVars
<1>6. conns[s].ring BY <1>1, RinglessUnheard DEF InitiateClose, Unheard
<1> HIDE DEF k
<1>7. IsFiniteSet(ops)' /\ CqeInv' /\ SlotOps'
  BY <1>1, <1>2, <1>3, <1>4, <1>5, <1>6, QuietConnOps
<1>8. OpenInv' BY <1>5, OpenElsewhere DEF OpsInv, OpenInv
<1> QED BY <1>7, <1>8 DEF OpsInv, SlotOps

\* Polling one client preserves the invariant.
LEMMA PollConnOps ==
    ASSUME Inv, OpsInv, PollConn
    PROVE  OpsInv'
<1>1. cur \in ConnIds BY CurConnId DEF PollConn
<1>2. /\ UNCHANGED <<born, sq, ops, cq, buf, registered, phase>>
      /\ phase = "poll"
  BY DEF PollConn, idVars, kernelVars
<1>3. IsFiniteSet(ops)' /\ CqeInv' /\ SlotOps'
  <2>1. CASE UNCHANGED conns
    BY <1>2, <2>1, StillOps
  <2>2. CASE ~UNCHANGED conns
    <3>1. cur \in LiveIds /\ conns[cur] \in Conn
      BY <1>1, <2>2 DEF PollConn, Inv, SlotType, IsLive, LiveIds
    <3>2. PICK o \in WsResult :
            /\ ~conns[cur].rx => o.ws = conns[cur].ws
            /\ \E d \in {Failed(Drained(conns[cur], o.ws)),
                         SyncClose(SyncOpen(Drained(conns[cur], o.ws)))} :
                  conns' = [conns EXCEPT ![cur] = d]
      BY <2>2, <3>1 DEF PollConn, WsOutcomes, WsResult, Conn, FinishConnResult, Err, Res
    <3>3. PICK k : k = Drained(conns[cur], o.ws) OBVIOUS
    <3>4. PICK done \in {Failed(k), SyncClose(SyncOpen(k))} : conns' = [conns EXCEPT ![cur] = done]
      BY <3>2, <3>3
    <3>5. k \in Conn /\ Same(conns[cur], k) /\ Keeps(conns[cur], k)
      BY <3>1, <3>2, <3>3, DrainedSame, StepsKeep DEF Same, WsResult
    <3>6. /\ Same(k, done) /\ Keeps(k, done)
          /\ done.ws = k.ws /\ done.rx = k.rx
          /\ k.ws = "Connecting" => done.state \in {k.state, "Closed"}
      BY <3>5, FinishedKeeps
    <3>7. Same(conns[cur], done) /\ Keeps(conns[cur], done)
      BY <3>5, <3>6, SameTrans, KeepsTrans
    <3>8. k.rx = FALSE /\ k.ws = o.ws /\ k.state = conns[cur].state
      BY <3>1, <3>3 DEF Drained, Conn
    <3>9. ~conns[cur].ring => Unheard(done)
      BY <3>1, <3>2, <3>6, <3>8, RinglessUnheard DEF Unheard
    <3> QED BY <1>2, <3>1, <3>4, <3>7, <3>9, QuietConnOps
  <2> QED BY <2>1, <2>2
<1>4. OpenInv' BY <1>2, OpenElsewhere DEF OpsInv, OpenInv
<1> QED BY <1>3, <1>4 DEF OpsInv, SlotOps

\* drive_target_handshake_event preserves the invariant: another round begins
\* only if the connection has not failed.
LEMMA DriveTargetOps ==
    ASSUME Inv, OpsInv, DriveTarget
    PROVE  OpsInv'
<1> DEFINE k == conns[target]
           Next1(state) == CASE state = "Open" -> Return
                             [] state = "Closed" -> phase' = "failed"
                                   /\ UNCHANGED <<mode, cur, target, first_err>>
                             [] OTHER -> StartRound("open") /\ UNCHANGED target
<1>1. phase = "target" /\ target \in LiveIds /\ target \in ConnIds /\ k \in Conn
  BY DEF DriveTarget, Inv, TargetLive, PumpType, SlotType, IsLive, LiveIds
<1>2. UNCHANGED <<born, sq, ops, cq, buf, registered>>
  BY DEF DriveTarget, idVars, kernelVars
<1>3. ~k.ring => Unheard(k) BY <1>1, RinglessUnheard
<1>4. \E done : /\ Same(k, done) /\ Keeps(k, done)
                /\ ~k.ring => Unheard(done)
                /\ conns' = [conns EXCEPT ![target] = done]
                /\ Next1(done.state)
  <2>1. CASE k.state \in {"Open", "Closed"}
    <3>1. /\ conns' = [conns EXCEPT ![target] = SyncOpen(k)]
          /\ Next1(SyncOpen(k).state)
      BY <2>1 DEF DriveTarget
    <3>2. Same(k, SyncOpen(k)) BY <1>1 DEF SyncOpen, Same, Conn, State
    <3>3. Keeps(k, SyncOpen(k)) BY <1>1, StepsKeep
    <3>4. ~k.ring => Unheard(SyncOpen(k)) BY <1>3 DEF SyncOpen, Unheard
    <3> QED BY <3>1, <3>2, <3>3, <3>4
  <2>2. CASE k.state \notin {"Open", "Closed"}
    <3>1. PICK o \in WsResult, more \in BOOLEAN :
            /\ ~k.rx => o.ws = k.ws /\ more = FALSE
            /\ LET polled == [k EXCEPT !.ws = o.ws, !.rx = more]
                   done == IF o.err THEN Failed(polled) ELSE SyncClose(SyncOpen(polled))
               IN  /\ conns' = [conns EXCEPT ![target] = done]
                   /\ Next1(done.state)
      <4>1. [ws |-> k.ws, err |-> FALSE] \in WsResult BY <1>1 DEF WsResult, Conn
      <4>2. WsOneEvent(k.ws) \subseteq WsResult BY DEF WsOneEvent, WsOutcomes
      <4>3. CASE k.rx BY <2>2, <4>2, <4>3 DEF DriveTarget
      <4>4. CASE ~k.rx
        <5>1. PICK o \in {[ws |-> k.ws, err |-> FALSE]}, more \in {FALSE} :
                LET polled == [k EXCEPT !.ws = o.ws, !.rx = more]
                    done == IF o.err THEN Failed(polled) ELSE SyncClose(SyncOpen(polled))
                IN  /\ conns' = [conns EXCEPT ![target] = done]
                    /\ Next1(done.state)
          BY <2>2, <4>4 DEF DriveTarget
        <5>2. o = [ws |-> k.ws, err |-> FALSE] BY <5>1
        <5>3. o \in WsResult /\ o.ws = k.ws BY <4>1, <5>2
        <5>4. more \in BOOLEAN /\ more = FALSE BY <5>1
        <5> HIDE DEF Next1, k
        <5> QED BY <5>1, <5>3, <5>4
      <4> QED BY <4>3, <4>4
    <3> DEFINE polled == [k EXCEPT !.ws = o.ws, !.rx = more]
               done == IF o.err THEN Failed(polled) ELSE SyncClose(SyncOpen(polled))
    <3>2. Same(k, polled) BY <1>1 DEF Same, Conn, WsResult
    <3>3. Keeps(k, polled) BY <1>1 DEF Keeps, Conn, WsResult
    <3>4. polled \in Conn BY <3>2 DEF Same
    <3>5. polled.ws = o.ws /\ polled.rx = more /\ polled.state = k.state BY <1>1 DEF Conn
    <3>6. conns' = [conns EXCEPT ![target] = done] /\ Next1(done.state) BY <3>1
    <3> HIDE DEF polled
    <3>7. done \in {Failed(polled), SyncClose(SyncOpen(polled))} OBVIOUS
    <3> HIDE DEF done
    <3>8. /\ Same(polled, done) /\ Keeps(polled, done)
          /\ done.ws = polled.ws /\ done.rx = polled.rx
          /\ polled.ws = "Connecting" => done.state \in {polled.state, "Closed"}
      BY <3>4, <3>7, FinishedKeeps
    <3>9. Same(k, done) /\ Keeps(k, done) BY <3>2, <3>3, <3>8, SameTrans, KeepsTrans
    <3>10. ~k.ring => Unheard(done) BY <1>3, <3>1, <3>5, <3>8 DEF Unheard
    <3> QED BY <3>6, <3>9, <3>10
  <2> QED BY <2>1, <2>2
<1>5. PICK done : /\ Same(k, done) /\ Keeps(k, done)
                  /\ ~k.ring => Unheard(done)
                  /\ conns' = [conns EXCEPT ![target] = done]
                  /\ Next1(done.state)
  BY <1>4
<1>6. \/ Return
      \/ phase' = "failed" /\ UNCHANGED <<mode, cur, target, first_err>>
      \/ done.state # "Closed" /\ StartRound("open") /\ UNCHANGED target
  BY <1>5
<1>7. phase' # "dropped" BY <1>6 DEF Return, StartRound
<1>8. IsFiniteSet(ops)' /\ CqeInv' /\ SlotOps' BY <1>1, <1>2, <1>5, <1>7, QuietConnOps
<1>9. buf' = <<>> BY <1>1, <1>2 DEF OpsInv, OpenInv
<1>10. OpenInv'
  <2>1. CASE Return BY <1>9, <2>1, OpenElsewhere DEF Return
  <2>2. CASE phase' = "failed" BY <1>9, <2>2, OpenElsewhere
  <2>3. CASE done.state # "Closed" /\ StartRound("open") /\ UNCHANGED target
    <3>1. conns'[target] = done BY <1>1, <1>5 DEF Inv, SlotType
    <3>2. phase' = "submit" /\ cur' = 0 /\ target' = target BY <2>3 DEF StartRound
    <3>3. ~(cur' > target') BY <1>1, <3>2, PoolAssumption DEF ConnIds
    <3> QED BY <1>9, <2>3, <3>1, <3>2, <3>3 DEF OpenInv
  <2> QED BY <1>6, <2>1, <2>2, <2>3
<1> QED BY <1>8, <1>10 DEF OpsInv, SlotOps

\* A retired slot takes its connection with it.
LEMMA RetireStepOps ==
    ASSUME Inv, OpsInv,
           \/ \E s \in ConnIds : RemoveConn(s)
           \/ \E s \in ConnIds, blocking \in Blocking : Reconnect(s, blocking)
           \/ OpenFailed
    PROVE  OpsInv'
<1>1. \E s \in LiveIds : RetireSlot(s)
  BY DEF RemoveConn, Reconnect, OpenFailed, LiveIds, Inv, TargetLive, PumpType
<1>2. /\ UNCHANGED <<sq, ops, cq, buf>>
      /\ phase \in {"idle", "failed"}
      /\ phase' \in {"idle", "resubmit"}
  BY DEF RemoveConn, Reconnect, OpenFailed, Return, pumpVars
<1>3. SlotOps' BY <1>1, <1>2, OpsInvFacts, RetireOps
<1>4. IsFiniteSet(ops)' /\ CqeInv' BY <1>2 DEF OpsInv, CqeInv
<1>5. OpenInv' BY <1>2, OpenElsewhere DEF OpsInv, OpenInv
<1> QED BY <1>3, <1>4, <1>5 DEF OpsInv, SlotOps

\* submit_connect_to preserves the invariant.
LEMMA SubmitConnectToOps ==
    ASSUME Inv, OpsInv, NEW tls \in UseTls, NEW blocking \in Blocking,
           SubmitConnectTo(tls, blocking)
    PROVE  OpsInv'
<1>1. /\ phase \in {"idle", "resubmit"}
      /\ UNCHANGED <<buf, ops, cq, registered>>
  BY DEF SubmitConnectTo
<1>2. buf = <<>> BY <1>1 DEF OpsInv, OpenInv
<1>3. tls \in BOOLEAN BY PoolAssumption
<1>4. IsFiniteSet(ops)' /\ CqeInv' BY <1>1 DEF OpsInv, CqeInv
<1>5. CASE SubmitFailed /\ Return
  <2>1. UNCHANGED <<conns, born, sq>> /\ phase' = "idle" BY <1>5 DEF SubmitFailed, Return
  <2>2. SlotOps' BY <1>1, <2>1, StillOps
  <2>3. OpenInv' BY <1>1, <1>2, <2>1, OpenElsewhere
  <2> QED BY <1>4, <2>2, <2>3 DEF OpsInv, SlotOps
<1>6. CASE /\ BgidAvailable /\ ConnIdAvailable
           /\ Submitted(ReservedConnId, NewConn(ReservedConnId, tls))
           /\ IF blocking THEN StartRound("open") /\ target' = ReservedConnId ELSE Return
           /\ UNCHANGED generations
  <2>1. phase' \in {"submit", "idle"} BY <1>6 DEF StartRound, Return
  <2>2. SlotOps' /\ conns'[ReservedConnId].state = "Connecting"
    BY <1>1, <1>3, <1>6, <2>1, OpsInvFacts, SubmittedOps
  <2>3. OpenInv'
    <3>1. CASE Return BY <1>1, <1>2, <3>1, OpenElsewhere DEF Return
    <3>2. CASE StartRound("open") /\ target' = ReservedConnId
      BY <1>1, <1>2, <2>2, <3>2 DEF OpenInv, StartRound
    <3> QED BY <1>6, <3>1, <3>2
  <2> QED BY <1>4, <2>2, <2>3 DEF OpsInv, SlotOps
<1> QED BY <1>5, <1>6 DEF SubmitConnectTo

-----------------------------------------------------------------------------
(* Steps that handle CQEs. *)

\* The CQE that is handled belongs to the connection it is routed to.
LEMMA TakenHead ==
    ASSUME Inv, OpsInv, buf # <<>>, NEW s \in ConnIds, Routes(Head(buf), s)
    PROVE  /\ s \in LiveIds /\ conns[s] \in Conn
           /\ Head(buf) \in CqeType /\ CqeOK(Head(buf))
           /\ Head(buf).token = TokenOf(s)
           /\ Head(buf).kind = "Recv" => conns[s].ring
           /\ \A i \in 1 .. Len(Tail(buf)) : CqeOK(Tail(buf)[i])
           /\ TagsIn(sq, ops, cq, Tail(buf)) \subseteq Tags
           /\ \A tag \in Tags : \/ tag \in TagsIn(sq, ops, cq, Tail(buf))
                                \/ tag = <<Head(buf).kind, TokenOf(s)>>
<1>1. s \in LiveIds /\ Head(buf).token = TokenOf(s) BY RoutesByToken
<1>2. conns[s] \in Conn BY <1>1, LiveConn
<1>3. buf \in Seq(CqeType) /\ Head(buf) \in CqeType BY OpsInvFacts
<1>4. /\ Head(buf) = buf[1] /\ 1 \in 1 .. Len(buf)
      /\ \A i \in 1 .. Len(Tail(buf)) : i + 1 \in 1 .. Len(buf) /\ Tail(buf)[i] = buf[i + 1]
  BY <1>3
<1>5. /\ CqeOK(Head(buf))
      /\ \A i \in 1 .. Len(Tail(buf)) : CqeOK(Tail(buf)[i])
  BY <1>4 DEF OpsInv, CqeInv
<1>6. /\ TagsIn(sq, ops, cq, Tail(buf)) \subseteq Tags
      /\ <<Head(buf).kind, Head(buf).token>> \in Tags
      /\ \A tag \in Tags : \/ tag \in TagsIn(sq, ops, cq, Tail(buf))
                           \/ tag = <<Head(buf).kind, Head(buf).token>>
  BY <1>3, TagsTail DEF Tags
<1>7. Head(buf).kind = "Recv" => conns[s].ring
  BY <1>1, <1>6 DEF OpsInv, RingInv, RingOK
<1> QED BY <1>1, <1>2, <1>3, <1>5, <1>6, <1>7

\* What is counted of the connections after the CQE was taken.
LEMMA TakenCounts ==
    ASSUME Inv, OpsInv, buf # <<>>, NEW s \in ConnIds, Routes(Head(buf), s)
    PROVE  /\ Queues(sq, ops, cq, Tail(buf))
           /\ \A kind, t : t # TokenOf(s) =>
                 Sum(sq, ops, cq, Tail(buf), kind, t) = Total(kind, t)
           /\ Sum(sq, ops, cq, Tail(buf), "Recv", TokenOf(s)) =
                 IF conns[s].armed /\ (Head(buf).kind = "Recv" => Head(buf).more) THEN 1 ELSE 0
           /\ Sum(sq, ops, cq, Tail(buf), "Send", TokenOf(s)) =
                 IF conns[s].inflight /\ Head(buf).kind # "Send" THEN 1 ELSE 0
<1>1. PICK c : c = Head(buf) OBVIOUS
<1>2. PICK token : token = TokenOf(s) OBVIOUS
<1>3. /\ s \in LiveIds /\ c \in CqeType /\ c.token = token
      /\ c.more => c.kind = "Recv"
  BY <1>1, <1>2, TakenHead DEF CqeOK
<1>4. Queues(sq, ops, cq, buf) BY OpsInvFacts DEF QueueType
<1>5. ASSUME NEW kind, NEW t
      PROVE  /\ Queues(sq, ops, cq, Tail(buf))
             /\ Sum(sq, ops, cq, Tail(buf), kind, t) \in Nat
             /\ Total(kind, t) = Sum(sq, ops, cq, Tail(buf), kind, t)
                                    + (IF c \in MineLast(kind, t) THEN 1 ELSE 0)
  <2>1. /\ Queues(sq, ops, cq, Tail(buf))
        /\ Sum(sq, ops, cq, buf, kind, t) = Sum(sq, ops, cq, Tail(buf), kind, t)
              + (IF Head(buf) \in MineLast(kind, t) THEN 1 ELSE 0)
    BY <1>4, SumTake
  <2>2. Sum(sq, ops, cq, Tail(buf), kind, t) \in Nat BY <2>1, SumType
  <2> QED BY <1>1, <2>1, <2>2 DEF Total
<1>6. ASSUME NEW kind, NEW t, t # token
      PROVE  Sum(sq, ops, cq, Tail(buf), kind, t) = Total(kind, t)
  <2>1. c \notin MineLast(kind, t) BY <1>3, <1>6 DEF MineLast
  <2> QED BY <1>5, <2>1
<1>7. /\ Total("Recv", token) = IF conns[s].armed THEN 1 ELSE 0
      /\ Total("Send", token) = IF conns[s].inflight THEN 1 ELSE 0
  BY <1>2, <1>3 DEF OpsInv, AgreeInv, AgreeOK
<1>8. Sum(sq, ops, cq, Tail(buf), "Recv", token) =
         IF conns[s].armed /\ (c.kind = "Recv" => c.more) THEN 1 ELSE 0
  <2>1. c \in MineLast("Recv", token) <=> c.kind = "Recv" /\ ~c.more BY <1>3 DEF MineLast
  <2>2. PICK sum : sum = Sum(sq, ops, cq, Tail(buf), "Recv", token) OBVIOUS
  <2>3. /\ sum \in Nat
        /\ Total("Recv", token) = sum + (IF c \in MineLast("Recv", token) THEN 1 ELSE 0)
    BY <1>5, <2>2
  <2>4. CASE c \in MineLast("Recv", token)
    <3>1. sum = 0 BY <1>7, <2>3, <2>4
    <3> QED BY <2>1, <2>2, <2>4, <3>1
  <2>5. CASE c \notin MineLast("Recv", token)
    <3>1. sum = IF conns[s].armed THEN 1 ELSE 0 BY <1>7, <2>3, <2>5
    <3> QED BY <2>1, <2>2, <2>5, <3>1
  <2> QED BY <2>4, <2>5
<1>9. Sum(sq, ops, cq, Tail(buf), "Send", token) =
         IF conns[s].inflight /\ c.kind # "Send" THEN 1 ELSE 0
  <2>1. c \in MineLast("Send", token) <=> c.kind = "Send" BY <1>3 DEF MineLast
  <2>2. PICK sum : sum = Sum(sq, ops, cq, Tail(buf), "Send", token) OBVIOUS
  <2>3. /\ sum \in Nat
        /\ Total("Send", token) = sum + (IF c \in MineLast("Send", token) THEN 1 ELSE 0)
    BY <1>5, <2>2
  <2>4. CASE c \in MineLast("Send", token)
    <3>1. sum = 0 BY <1>7, <2>3, <2>4
    <3> QED BY <2>1, <2>2, <2>4, <3>1
  <2>5. CASE c \notin MineLast("Send", token)
    <3>1. sum = IF conns[s].inflight THEN 1 ELSE 0 BY <1>7, <2>3, <2>5
    <3> QED BY <2>1, <2>2, <2>5, <3>1
  <2> QED BY <2>4, <2>5
<1>10. PICK kind : kind = "Recv" OBVIOUS
<1>11. Queues(sq, ops, cq, Tail(buf)) BY <1>5, <1>10
<1> QED BY <1>1, <1>2, <1>6, <1>8, <1>9, <1>11

\* Handling one CQE preserves the invariant.
LEMMA DispatchOps ==
    ASSUME Inv, OpsInv, NEW s \in ConnIds, Dispatch(s)
    PROVE  OpsInv'
<1>1. /\ UNCHANGED <<born, sq, ops, cq, registered, phase>>
      /\ phase = "dispatch" /\ buf # <<>> /\ buf' = Tail(buf)
      /\ Routes(Head(buf), s)
      /\ Head(buf).kind = "Connect" => conns[s].state = "Closed"
  BY DEF Dispatch, Dispatching, idVars, kernelVars
<1>2. PICK c : c = Head(buf) OBVIOUS
<1>3. PICK token : token = TokenOf(s) OBVIOUS
<1>4. PICK k : k = conns[s] OBVIOUS
<1>5. /\ s \in LiveIds /\ k \in Conn
      /\ c \in CqeType /\ CqeOK(c) /\ c.token = token
      /\ c.kind = "Recv" => k.ring
      /\ \A i \in 1 .. Len(buf') : CqeOK(buf'[i])
      /\ Tags' \subseteq Tags
      /\ \A tag \in Tags : tag \in Tags' \/ tag = <<c.kind, token>>
  BY <1>1, <1>2, <1>3, <1>4, TakenHead DEF Tags
<1>6. PICK r \in HandleCompletion(k, c) : FinishConnResult(s, k, r)
  BY <1>2, <1>4 DEF Dispatch
<1>7. r \in Result /\ Same(k, r.conn) BY <1>5, <1>6, HandleCompletionSame
<1>8. After(k, c, r.conn)
  BY <1>1, <1>2, <1>4, <1>5, <1>6, HandleCompletionAfter DEF CqeOK
<1>9. PICK done : /\ conns' = [conns EXCEPT ![s] = done]
                  /\ Same(r.conn, done)
                  /\ Keeps(r.conn, done)
                  /\ done.ws = r.conn.ws /\ done.rx = r.conn.rx
                  /\ r.conn.ws = "Connecting" => done.state \in {r.conn.state, "Closed"}
  BY <1>6, <1>7, FinishKeeps DEF Result
<1>10. Same(k, done) BY <1>7, <1>9, SameTrans
<1>11. /\ done.ring = k.ring
       /\ done.armed = (IF c.kind = "Recv" THEN k.armed /\ c.more ELSE k.armed)
       /\ done.inflight = (IF c.kind = "Send" THEN FALSE ELSE k.inflight)
       /\ done.state = "Connecting" => k.state = "Connecting"
  BY <1>8, <1>9 DEF After, Keeps
<1>12. RingOK(k, token) BY <1>3, <1>4, <1>5 DEF OpsInv, RingInv
<1>13. ~k.ring => done.ws = "Connecting" /\ ~done.rx /\ done.state \in {"Connecting", "Closed"}
  BY <1>5, <1>8, <1>9, <1>12 DEF After, RingOK
<1>14. RingOK(done, token)'
  <2>1. done.bgid = k.bgid BY <1>10 DEF Same
  <2>2. done.armed => k.armed BY <1>11
  <2> QED BY <1>1, <1>5, <1>11, <1>12, <1>13, <2>1, <2>2 DEF RingOK
<1>15. done.state = "Connecting" => <<"Connect", token>> \in Tags'
  <2> SUFFICES ASSUME done.state = "Connecting" PROVE <<"Connect", token>> \in Tags' OBVIOUS
  <2>1. k.state = "Connecting" BY <1>11
  <2>2. <<"Connect", token>> \in Tags BY <1>3, <1>4, <1>5, <2>1 DEF OpsInv, ConnectInv
  <2>3. c.kind # "Connect" BY <1>1, <1>2, <1>4, <2>1
  <2> QED BY <1>5, <2>2, <2>3
<1>16. /\ \A kind, t : t # token => Sum(sq', ops', cq', buf', kind, t) = Total(kind, t)
       /\ Sum(sq', ops', cq', buf', "Recv", token) =
             IF k.armed /\ (c.kind = "Recv" => c.more) THEN 1 ELSE 0
       /\ Sum(sq', ops', cq', buf', "Send", token) =
             IF k.inflight /\ c.kind # "Send" THEN 1 ELSE 0
  BY <1>1, <1>2, <1>3, <1>4, TakenCounts
<1>17. Sum(sq', ops', cq', buf', "Recv", token) = IF done.armed THEN 1 ELSE 0
  <2>1. done.armed <=> k.armed /\ (c.kind = "Recv" => c.more)
    BY <1>5, <1>11 DEF Conn, CqeType
  <2> QED BY <1>16, <2>1
<1>18. Sum(sq', ops', cq', buf', "Send", token) = IF done.inflight THEN 1 ELSE 0
  <2>1. done.inflight <=> k.inflight /\ c.kind # "Send"
    BY <1>5, <1>11 DEF Conn
  <2> QED BY <1>16, <2>1
<1>19. SlotOps BY OpsInvFacts
<1>20. SlotOps'
  <2>1. /\ \A tag \in Tags' : tag \in Tags \/ tag[2] = token
        /\ \A tag \in Tags : tag[2] # token => tag \in Tags'
    BY <1>5
  <2>2. Same(conns[s], done) BY <1>4, <1>10
  <2>3. phase # "dropped" /\ phase' # "dropped" /\ registered \subseteq registered' /\ UNCHANGED born
    BY <1>1
  <2>4. \A kind \in {"Recv", "Send"}, t \in Nat :
          t # token => Sum(sq', ops', cq', buf', kind, t) = Total(kind, t)
    BY <1>16
  <2>5. s \in LiveIds /\ conns' = [conns EXCEPT ![s] = done] BY <1>5, <1>9
  <2> QED BY <1>3, <1>14, <1>15, <1>17, <1>18, <1>19, <2>1, <2>2, <2>3, <2>4, <2>5, ConnOps
<1>21. IsFiniteSet(ops)' /\ CqeInv' BY <1>1, <1>5 DEF OpsInv, CqeInv, CqeOK
<1>22. OpenInv' BY <1>1, OpenElsewhere
<1> QED BY <1>20, <1>21, <1>22 DEF OpsInv, SlotOps

\* Those of the first n entries of a queue that are in M.
Among(n, q, M) == {i \in 1 .. n : q[i] \in M}

\* Taking n CQEs subtracts those of them that are counted.
LEMMA SumSkip ==
    ASSUME NEW q, NEW o, NEW c, NEW b, Queues(q, o, c, b), NEW kind, NEW token,
           NEW n \in 0 .. Len(b)
    PROVE  /\ Queues(q, o, c, SubSeq(b, n + 1, Len(b)))
           /\ IsFiniteSet(Among(n, b, MineLast(kind, token)))
           /\ Sum(q, o, c, b, kind, token) =
                 Sum(q, o, c, SubSeq(b, n + 1, Len(b)), kind, token)
                     + Cardinality(Among(n, b, MineLast(kind, token)))
<1> DEFINE M == MineLast(kind, token)
           r == SubSeq(b, n + 1, Len(b))
           T == Among(n, b, M)
<1>1. b \in Seq(CqeType) /\ n \in Nat BY DEF Queues
<1>2. r \in Seq(CqeType) BY <1>1, Split
<1>3. Queues(q, o, c, r) BY <1>2 DEF Queues
<1>4. IsFiniteSet(T)
  <2>1. IsFiniteSet(1 .. n) BY <1>1, FS_Interval
  <2>2. T \in SUBSET (1 .. n) BY DEF Among
  <2> QED BY <2>1, <2>2, FS_Subset
<1>5. Cardinality(T) \in Nat BY <1>4, FS_CardinalityType
<1>6. Count(b, M) = Cardinality(T) + Count(r, M) BY <1>1, CountSplit DEF Among
<1>7. /\ Count(q, MineOp(kind, token)) \in Nat /\ Cardinality(o \cap MineOp(kind, token)) \in Nat
      /\ Count(c, M) \in Nat /\ Count(b, M) \in Nat
  BY SumType
<1> HIDE DEF r, T
<1>8. Count(r, M) \in Nat BY <1>3, SumType
<1>9. /\ Sum(q, o, c, b, kind, token) =
            Count(q, MineOp(kind, token)) + Cardinality(o \cap MineOp(kind, token))
            + Count(c, M) + Count(b, M)
      /\ Sum(q, o, c, r, kind, token) =
            Count(q, MineOp(kind, token)) + Cardinality(o \cap MineOp(kind, token))
            + Count(c, M) + Count(r, M)
  BY DEF Sum
<1>10. Sum(q, o, c, b, kind, token) = Sum(q, o, c, r, kind, token) + Cardinality(T)
  <2> HIDE DEF M
  <2> QED BY ONLY <1>5, <1>6, <1>7, <1>8, <1>9
<1> QED BY <1>3, <1>4, <1>10 DEF r, T

\* Handling a run of CQEs of one connection preserves the invariant: the
\* receive is over if one of them was its last.
LEMMA DispatchBatchOps ==
    ASSUME Inv, OpsInv, NEW s \in ConnIds, DispatchBatch(s)
    PROVE  OpsInv'
<1>1. PICK n \in 2 .. Len(buf) :
        /\ BatchOf(s, n)
        /\ \E r \in RecvDrain([conns[s] EXCEPT !.armed =
                                  @ /\ \A i \in 1 .. n : buf[i].more]) :
              FinishConnResult(s, conns[s], r)
        /\ buf' = SubSeq(buf, n + 1, Len(buf))
  BY DEF DispatchBatch
<1>2. /\ UNCHANGED <<born, sq, ops, cq, registered, phase>>
      /\ phase = "dispatch"
  BY DEF DispatchBatch, Dispatching, idVars, kernelVars
<1>3. buf \in Seq(CqeType) /\ Len(buf) \in Nat /\ SlotOps /\ Queues(sq, ops, cq, buf)
  BY OpsInvFacts DEF QueueType
<1>4. n \in 0 .. Len(buf) /\ n \in Nat /\ 1 \in 1 .. n /\ 1 .. n \subseteq 1 .. Len(buf)
  BY <1>3
<1>5. PICK k : k = conns[s] OBVIOUS
<1>6. PICK token : token = TokenOf(s) OBVIOUS
<1>7. \A i \in 1 .. n : Routes(buf[i], s) /\ buf[i].kind = "Recv"
  BY <1>1 DEF BatchOf, CanBatch
<1>8. s \in LiveIds /\ \A i \in 1 .. n : buf[i].token = token
  BY <1>4, <1>6, <1>7, RoutesByToken
<1>9. k \in Conn BY <1>5, <1>8, LiveConn
<1>10. \A i \in 1 .. n : buf[i] \in CqeType BY <1>3, <1>4
<1> DEFINE more == \A i \in 1 .. n : buf[i].more
           seen == [k EXCEPT !.armed = k.armed /\ more]
<1>11. PICK r \in RecvDrain(seen) : FinishConnResult(s, k, r)
  BY <1>1, <1>5
<1>12. more \in BOOLEAN OBVIOUS
<1> HIDE DEF more
<1>13. k.armed \in BOOLEAN /\ (k.armed /\ more) \in BOOLEAN BY <1>9, <1>12 DEF Conn
<1>14. Same(k, seen) BY <1>9, <1>13 DEF Same, Conn
<1>15. /\ seen \in Conn /\ seen.ring = k.ring /\ seen.inflight = k.inflight
       /\ seen.state = k.state /\ seen.armed = (k.armed /\ more)
  BY <1>9, <1>13 DEF Conn
<1> HIDE DEF seen
<1>16. r \in Result /\ Same(k, r.conn)
  BY <1>11, <1>14, <1>15, RecvDrainSame, SameTrans
<1>17. Keeps(seen, r.conn) BY <1>11, <1>15, RecvDrainKeeps
<1>18. PICK done : /\ conns' = [conns EXCEPT ![s] = done]
                   /\ Same(r.conn, done)
                   /\ Keeps(r.conn, done)
  BY <1>11, <1>16, FinishKeeps DEF Result
<1>19. Same(k, done) BY <1>16, <1>18, SameTrans
<1>20. /\ done.ring = k.ring /\ done.armed = (k.armed /\ more)
       /\ done.inflight = k.inflight
       /\ done.state = "Connecting" => k.state = "Connecting"
  BY <1>15, <1>17, <1>18 DEF Keeps
<1>21. /\ Tags' \subseteq Tags
       /\ \A tag \in Tags : tag \in Tags' \/ \E i \in 1 .. n : tag = <<buf[i].kind, buf[i].token>>
  BY <1>1, <1>2, <1>3, <1>4, TagsTake DEF Tags
<1>22. \A tag \in Tags : tag \in Tags' \/ tag = <<"Recv", token>>
  BY <1>7, <1>8, <1>21
<1>23. <<"Recv", token>> \in Tags
  <2>1. <<buf[1].kind, buf[1].token>> \in Tags BY <1>4 DEF Tags, TagsIn
  <2> QED BY <1>4, <1>7, <1>8, <2>1
<1>24. RingOK(k, token) BY <1>3, <1>5, <1>6, <1>8 DEF SlotOps, RingInv
<1>25. k.ring BY <1>23, <1>24 DEF RingOK
<1>26. RingOK(done, token)'
  <2>1. done.bgid = k.bgid BY <1>19 DEF Same
  <2> QED BY <1>2, <1>20, <1>24, <1>25, <2>1 DEF RingOK
<1>27. done.state = "Connecting" => <<"Connect", token>> \in Tags'
  BY <1>3, <1>5, <1>6, <1>8, <1>20, <1>22 DEF SlotOps, ConnectInv
<1>28. ASSUME NEW kind, NEW t
       PROVE  /\ Sum(sq', ops', cq', buf', kind, t) \in Nat
              /\ IsFiniteSet(Among(n, buf, MineLast(kind, t)))
              /\ Total(kind, t) = Sum(sq', ops', cq', buf', kind, t)
                    + Cardinality(Among(n, buf, MineLast(kind, t)))
  <2>0. Queues(sq, ops, cq, buf) /\ n \in 0 .. Len(buf) BY <1>3, <1>4
  <2>1. /\ Queues(sq, ops, cq, SubSeq(buf, n + 1, Len(buf)))
        /\ IsFiniteSet(Among(n, buf, MineLast(kind, t)))
        /\ Sum(sq, ops, cq, buf, kind, t) =
              Sum(sq, ops, cq, SubSeq(buf, n + 1, Len(buf)), kind, t)
                + Cardinality(Among(n, buf, MineLast(kind, t)))
    BY ONLY <2>0, SumSkip
  <2>2. Sum(sq, ops, cq, SubSeq(buf, n + 1, Len(buf)), kind, t) \in Nat BY <2>1, SumType
  <2> QED BY <1>1, <1>2, <2>1, <2>2 DEF Total
<1>29. ASSUME NEW kind, NEW t, t # token \/ kind # "Recv"
       PROVE  Sum(sq', ops', cq', buf', kind, t) = Total(kind, t)
  <2>1. Among(n, buf, MineLast(kind, t)) = {}
    BY <1>7, <1>8, <1>29 DEF Among, MineLast
  <2>2. Cardinality(Among(n, buf, MineLast(kind, t))) = 0 BY <2>1, FS_EmptySet
  <2> QED BY <1>28, <2>2
<1>30. AgreeOK(k, token) BY <1>3, <1>5, <1>6, <1>8 DEF SlotOps, AgreeInv
<1>31. Sum(sq', ops', cq', buf', "Send", token) = IF done.inflight THEN 1 ELSE 0
  BY <1>20, <1>29, <1>30 DEF AgreeOK
<1>32. Sum(sq', ops', cq', buf', "Recv", token) = IF done.armed THEN 1 ELSE 0
  <2> DEFINE T == Among(n, buf, MineLast("Recv", token))
  <2>1. PICK sum : sum = Sum(sq', ops', cq', buf', "Recv", token) OBVIOUS
  <2>2. /\ sum \in Nat /\ IsFiniteSet(T)
        /\ Total("Recv", token) = sum + Cardinality(T)
    BY <1>28, <2>1
  <2>3. Total("Recv", token) = IF k.armed THEN 1 ELSE 0 BY <1>30 DEF AgreeOK
  <2>4. T = {} <=> more BY <1>7, <1>8, <1>10 DEF Among, MineLast, more
  <2>5. Cardinality(T) \in Nat /\ (Cardinality(T) = 0 <=> T = {})
    BY <2>2, FS_CardinalityType, FS_EmptySet
  <2> HIDE DEF T
  <2>6. CASE T = {}
    <3>1. Cardinality(T) = 0 /\ more BY <2>4, <2>5, <2>6
    <3>2. sum = IF k.armed THEN 1 ELSE 0 BY <2>2, <2>3, <3>1
    <3>3. done.armed <=> k.armed BY <1>13, <1>20, <3>1
    <3> QED BY <2>1, <3>2, <3>3
  <2>7. CASE T # {}
    <3>1. Cardinality(T) # 0 /\ ~more BY <2>4, <2>5, <2>7
    <3>2. sum = 0 BY <2>2, <2>3, <2>5, <3>1
    <3>3. ~done.armed BY <1>20, <3>1
    <3> QED BY <2>1, <3>2, <3>3
  <2> QED BY <2>6, <2>7
<1>33. SlotOps'
  <2>1. /\ \A tag \in Tags' : tag \in Tags \/ tag[2] = token
        /\ \A tag \in Tags : tag[2] # token => tag \in Tags'
    BY <1>21, <1>22
  <2>2. Same(conns[s], done) BY <1>5, <1>19
  <2> QED BY <1>2, <1>3, <1>6, <1>8, <1>18, <1>26, <1>27, <1>29, <1>31, <1>32, <2>1, <2>2, ConnOps
<1>34. CqeInv'
  <2>1. /\ Len(buf') = Len(buf) - n
        /\ \A i \in 1 .. Len(buf) - n : buf'[i] = buf[n + i]
    BY <1>1, <1>3, <1>4, Split
  <2>2. \A i \in 1 .. Len(buf') : n + i \in 1 .. Len(buf) /\ buf'[i] = buf[n + i]
    BY <1>3, <1>4, <2>1
  <2>3. \A i \in 1 .. Len(buf) : CqeOK(buf[i]) BY DEF OpsInv, CqeInv
  <2>4. \A i \in 1 .. Len(buf') : CqeOK(buf'[i]) BY <2>2, <2>3
  <2> QED BY <1>2, <2>4 DEF OpsInv, CqeInv, CqeOK
<1>35. IsFiniteSet(ops)' /\ OpenInv' BY <1>2, OpenElsewhere DEF OpsInv
<1> QED BY <1>33, <1>34, <1>35 DEF OpsInv, SlotOps

\* on_connect_cqe preserves the invariant: the receive it arms is the only one.
LEMMA OnConnectCqeOps ==
    ASSUME Inv, OpsInv, NEW s \in ConnIds, OnConnectCqe(s)
    PROVE  OpsInv'
<1>1. PICK c : c = Head(buf) OBVIOUS
<1>2. PICK token : token = TokenOf(s) OBVIOUS
<1>3. PICK k : k = conns[s] OBVIOUS
<1>4. /\ UNCHANGED <<born, ops, cq, phase>>
      /\ phase = "dispatch" /\ buf # <<>> /\ buf' = Tail(buf)
      /\ Routes(Head(buf), s)
      /\ c.kind = "Connect"
      /\ registered \subseteq registered'
  BY <1>1 DEF OnConnectCqe, Dispatching, idVars
<1> DEFINE T == TagsIn(sq, ops, cq, Tail(buf))
<1>5. /\ s \in LiveIds /\ k \in Conn
      /\ \A i \in 1 .. Len(buf') : CqeOK(buf'[i])
      /\ T \subseteq Tags
      /\ \A tag \in Tags : tag \in T \/ tag = <<"Connect", token>>
  BY <1>1, <1>2, <1>3, <1>4, TakenHead
<1>6. /\ Queues(sq, ops, cq, Tail(buf))
      /\ \A kind, t : t # token => Sum(sq, ops, cq, Tail(buf), kind, t) = Total(kind, t)
      /\ Sum(sq, ops, cq, Tail(buf), "Recv", token) = IF k.armed THEN 1 ELSE 0
      /\ Sum(sq, ops, cq, Tail(buf), "Send", token) = IF k.inflight THEN 1 ELSE 0
  BY <1>1, <1>2, <1>3, <1>4, TakenCounts
<1> HIDE DEF T
<1>7. SlotOps BY OpsInvFacts
<1>8. RingOK(k, token) BY <1>2, <1>3, <1>5, <1>7 DEF SlotOps, RingInv
<1>9. SlotOps'
  <2>1. CASE FinishConnResult(s, k, Err(k)) /\ UNCHANGED sq
    <3>1. PICK done : done = Failed(k) OBVIOUS
    <3>2. conns' = [conns EXCEPT ![s] = done] BY <2>1, <3>1 DEF FinishConnResult, Err, Res
    <3>3. Same(k, done) /\ Keeps(k, done) BY <1>5, <3>1, FailedSame, StepsKeep
    <3>4. done.state = "Closed" /\ done.ws = k.ws /\ done.rx = k.rx
      BY <1>5, <3>1 DEF Failed, Conn
    <3>5. Tags' = T BY <1>4, <2>1 DEF Tags, T
    <3>6. RingOK(done, token)'
      <4>1. done.bgid = k.bgid BY <3>3 DEF Same
      <4>2. done.ring = k.ring /\ done.armed = k.armed BY <3>3 DEF Keeps
      <4> QED BY <1>4, <1>5, <1>8, <3>4, <3>5, <4>1, <4>2 DEF RingOK
    <3>7. /\ \A tag \in Tags' : tag \in Tags \/ tag[2] = token
          /\ \A tag \in Tags : tag[2] # token => tag \in Tags'
      BY <1>5, <3>5
    <3>8. done.armed = k.armed /\ done.inflight = k.inflight BY <3>3 DEF Keeps
    <3>9. /\ \A kind, t : t # token => Sum(sq', ops', cq', buf', kind, t) = Total(kind, t)
          /\ Sum(sq', ops', cq', buf', "Recv", token) = IF done.armed THEN 1 ELSE 0
          /\ Sum(sq', ops', cq', buf', "Send", token) = IF done.inflight THEN 1 ELSE 0
      BY <1>4, <1>6, <2>1, <3>8
    <3>10. Same(conns[s], done) BY <1>3, <3>3
    <3> QED BY <1>2, <1>4, <1>5, <1>7, <3>2, <3>4, <3>6, <3>7, <3>9, <3>10, ConnOps
  <2>2. CASE /\ k.bgid \notin registered
             /\ FinishConnResult(s, k, Ok([k EXCEPT !.ring = TRUE, !.armed = TRUE,
                                           !.state = IF k.tls THEN "TlsHandshake"
                                                              ELSE "WsHandshake"]))
             /\ sq' = Append(sq, Op("Recv", s, k))
             /\ registered' = registered \cup {k.bgid}
    <3>1. PICK up : up = [k EXCEPT !.ring = TRUE, !.armed = TRUE,
                                   !.state = IF k.tls THEN "TlsHandshake" ELSE "WsHandshake"]
      OBVIOUS
    <3>2. /\ up \in Conn /\ Same(k, up)
          /\ up.ring /\ up.armed /\ up.inflight = k.inflight
          /\ up.state # "Connecting"
      BY <1>5, <3>1 DEF Same, Conn, State
    <3>3. PICK done : done = SyncClose(SyncOpen(up)) OBVIOUS
    <3>4. conns' = [conns EXCEPT ![s] = done] BY <2>2, <3>1, <3>3 DEF FinishConnResult, Ok, Res
    <3>5. Same(up, done) /\ Keeps(up, done) BY <3>2, <3>3, FinishedKeeps
    <3>6. Same(k, done) BY <3>2, <3>5, SameTrans
    <3>7. done.ring /\ done.armed /\ done.inflight = k.inflight /\ done.state # "Connecting"
      BY <3>2, <3>5 DEF Keeps
    <3>8. ~k.armed BY <1>4, <1>8, <2>2 DEF RingOK
    <3>9. PICK e : e = Op("Recv", s, k) OBVIOUS
    <3>10. e \in OpType /\ e.kind = "Recv" /\ e.token = token
      <4>1. IsLive(s) /\ Same(conns[s], k) BY <1>3, <1>5 DEF LiveIds, Same
      <4>2. e \in OwnOps BY <3>9, <4>1, OpOwn DEF Kind
      <4> QED BY <1>2, <1>3, <3>9, <4>2 DEF OwnOps, Op, TokenOf
    <3>11. Tags' = T \cup {<<"Recv", token>>}
      <4>1. sq \in Seq(OpType) BY <1>6 DEF Queues
      <4>2. TagsIn(Append(sq, e), ops, cq, Tail(buf)) =
              TagsIn(sq, ops, cq, Tail(buf)) \cup {<<e.kind, e.token>>}
        BY <3>10, <4>1, TagsPush
      <4> QED BY <1>4, <2>2, <3>9, <3>10, <4>2 DEF Tags, T
    <3>12. ASSUME NEW kind, NEW t
           PROVE  Sum(sq', ops', cq', buf', kind, t) =
                    Sum(sq, ops, cq, Tail(buf), kind, t)
                      + (IF e.kind = kind /\ e.token = t THEN 1 ELSE 0)
      <4>1. Sum(Append(sq, e), ops, cq, Tail(buf), kind, t) =
              Sum(sq, ops, cq, Tail(buf), kind, t)
                + (IF e.kind = kind /\ e.token = t THEN 1 ELSE 0)
        BY <1>6, <3>10, SumPush
      <4> QED BY <1>4, <2>2, <3>9, <4>1
    <3>13. \A kind, t : Sum(sq, ops, cq, Tail(buf), kind, t) \in Nat BY <1>6, SumType
    <3>14. \A kind, t : t # token => Sum(sq', ops', cq', buf', kind, t) = Total(kind, t)
      <4> SUFFICES ASSUME NEW kind, NEW t, t # token
                   PROVE  Sum(sq', ops', cq', buf', kind, t) = Total(kind, t)
        OBVIOUS
      <4>1. Sum(sq', ops', cq', buf', kind, t) = Sum(sq, ops, cq, Tail(buf), kind, t)
        BY <3>10, <3>12, <3>13
      <4> QED BY <1>6, <4>1
    <3>15. Sum(sq', ops', cq', buf', "Recv", token) = IF done.armed THEN 1 ELSE 0
      <4>1. Sum(sq, ops, cq, Tail(buf), "Recv", token) = 0 BY <1>6, <3>8
      <4> QED BY <3>7, <3>10, <3>12, <4>1
    <3>16. Sum(sq', ops', cq', buf', "Send", token) = IF done.inflight THEN 1 ELSE 0
      <4>1. Sum(sq', ops', cq', buf', "Send", token) = Sum(sq, ops, cq, Tail(buf), "Send", token)
        BY <3>10, <3>12, <3>13
      <4> QED BY <1>6, <3>7, <4>1
    <3>17. RingOK(done, token)'
      <4>1. done.bgid = k.bgid BY <3>6 DEF Same
      <4> QED BY <2>2, <3>7, <4>1 DEF RingOK
    <3>18. /\ \A tag \in Tags' : tag \in Tags \/ tag[2] = token
           /\ \A tag \in Tags : tag[2] # token => tag \in Tags'
      BY <1>5, <3>11
    <3>19. Same(conns[s], done) BY <1>3, <3>6
    <3> QED BY <1>2, <1>4, <1>5, <1>7, <3>4, <3>7, <3>14, <3>15, <3>16, <3>17, <3>18, <3>19, ConnOps
  <2> QED BY <1>3, <2>1, <2>2 DEF OnConnectCqe
<1>10. IsFiniteSet(ops)' /\ CqeInv' BY <1>4, <1>5 DEF OpsInv, CqeInv, CqeOK
<1>11. OpenInv' BY <1>4, OpenElsewhere
<1> QED BY <1>9, <1>10, <1>11 DEF OpsInv, SlotOps

-----------------------------------------------------------------------------
(* submit_conn_ops. *)

\* The connection in slot s has become k2, with submission queue q, and
\* everything it believes is true.
SubmissionOK(s, k2, q) ==
    /\ Same(conns[s], k2)
    /\ k2.ring = conns[s].ring /\ k2.state = conns[s].state
    /\ k2.ws = conns[s].ws /\ k2.rx = conns[s].rx
    /\ k2.armed => k2.ring
    /\ Queues(q, ops, cq, buf)
    /\ Tags \subseteq TagsIn(q, ops, cq, buf)
    /\ \A tag \in TagsIn(q, ops, cq, buf) :
          tag \in Tags \/ tag = <<"Send", TokenOf(s)>> \/ (tag = <<"Recv", TokenOf(s)>> /\ k2.ring)
    /\ \A kind, t : t # TokenOf(s) => Sum(q, ops, cq, buf, kind, t) = Total(kind, t)
    /\ Sum(q, ops, cq, buf, "Recv", TokenOf(s)) = IF k2.armed THEN 1 ELSE 0
    /\ Sum(q, ops, cq, buf, "Send", TokenOf(s)) = IF k2.inflight THEN 1 ELSE 0

\* So it is before.
LEMMA SubmissionBegins ==
    ASSUME Inv, OpsInv, NEW s \in LiveIds
    PROVE  SubmissionOK(s, conns[s], sq)
<1>1. RingOK(conns[s], TokenOf(s)) /\ AgreeOK(conns[s], TokenOf(s))
  BY DEF OpsInv, RingInv, AgreeInv
<1>2. conns[s] \in Conn BY LiveConn
<1>3. Queues(sq, ops, cq, buf) BY OpsInvFacts DEF QueueType
<1>4. /\ \A kind, t : Sum(sq, ops, cq, buf, kind, t) = Total(kind, t)
      /\ TagsIn(sq, ops, cq, buf) = Tags
  BY DEF Total, Tags
<1>5. /\ Sum(sq, ops, cq, buf, "Recv", TokenOf(s)) = IF conns[s].armed THEN 1 ELSE 0
      /\ Sum(sq, ops, cq, buf, "Send", TokenOf(s)) = IF conns[s].inflight THEN 1 ELSE 0
  BY <1>1, <1>4 DEF AgreeOK
<1> QED BY <1>1, <1>2, <1>3, <1>4, <1>5 DEF SubmissionOK, RingOK, Same

\* Pushing an operation of the connection.
LEMMA SubmissionPush ==
    ASSUME Inv, NEW s \in LiveIds, NEW k, NEW q, SubmissionOK(s, k, q),
           NEW kind \in {"Send", "Recv"}
    PROVE  /\ Queues(Append(q, Op(kind, s, k)), ops, cq, buf)
           /\ TagsIn(Append(q, Op(kind, s, k)), ops, cq, buf) =
                 TagsIn(q, ops, cq, buf) \cup {<<kind, TokenOf(s)>>}
           /\ \A kd, t : (kd # kind \/ t # TokenOf(s)) =>
                 Sum(Append(q, Op(kind, s, k)), ops, cq, buf, kd, t) = Sum(q, ops, cq, buf, kd, t)
           /\ Sum(q, ops, cq, buf, kind, TokenOf(s)) = 0 =>
                 Sum(Append(q, Op(kind, s, k)), ops, cq, buf, kind, TokenOf(s)) = 1
<1>1. PICK e : e = Op(kind, s, k) OBVIOUS
<1>2. Same(conns[s], k) /\ Queues(q, ops, cq, buf) BY DEF SubmissionOK
<1>3. s \in ConnIds /\ IsLive(s) BY DEF LiveIds
<1>4. e \in OwnOps BY <1>1, <1>2, <1>3, OpOwn DEF Kind
<1>5. e \in OpType /\ e.kind = kind /\ e.token = TokenOf(s)
  BY <1>1, <1>2, <1>4 DEF OwnOps, Op, TokenOf, Same
<1>6. q \in Seq(OpType) BY <1>2 DEF Queues
<1>7. TagsIn(Append(q, e), ops, cq, buf) = TagsIn(q, ops, cq, buf) \cup {<<e.kind, e.token>>}
  BY <1>5, <1>6, TagsPush
<1>8. ASSUME NEW kd, NEW t
      PROVE  /\ Sum(q, ops, cq, buf, kd, t) \in Nat
             /\ Sum(Append(q, e), ops, cq, buf, kd, t) = Sum(q, ops, cq, buf, kd, t)
                   + (IF e.kind = kd /\ e.token = t THEN 1 ELSE 0)
  <2>1. Sum(q, ops, cq, buf, kd, t) \in Nat BY <1>2, SumType
  <2>2. Sum(Append(q, e), ops, cq, buf, kd, t) = Sum(q, ops, cq, buf, kd, t)
           + (IF e.kind = kd /\ e.token = t THEN 1 ELSE 0)
    BY <1>2, <1>5, SumPush
  <2> QED BY <2>1, <2>2
<1>9. Queues(Append(q, e), ops, cq, buf) BY <1>2, <1>5 DEF Queues
<1>10. \A kd, t : (kd # kind \/ t # TokenOf(s)) =>
         Sum(Append(q, e), ops, cq, buf, kd, t) = Sum(q, ops, cq, buf, kd, t)
  BY <1>5, <1>8
<1>11. Sum(q, ops, cq, buf, kind, TokenOf(s)) = 0 =>
         Sum(Append(q, e), ops, cq, buf, kind, TokenOf(s)) = 1
  BY <1>5, <1>8
<1> QED BY <1>1, <1>5, <1>7, <1>9, <1>10, <1>11

\* try_submit_send keeps the beliefs true.
LEMMA TrySubmitSendOK ==
    ASSUME Inv, OpsInv, NEW s \in LiveIds, NEW r \in TrySubmitSend(s, conns[s])
    PROVE  SubmissionOK(s, r.conn, r.q)
<1>1. PICK k : k = conns[s] OBVIOUS
<1>2. k \in Conn /\ SubmissionOK(s, k, sq) BY <1>1, LiveConn, SubmissionBegins
<1>3. CASE r.conn = k /\ r.q = sq BY <1>2, <1>3
<1>4. CASE ~k.inflight /\ r.conn = [k EXCEPT !.inflight = TRUE]
           /\ r.q = Append(sq, Op("Send", s, k))
  <2>1. PICK k2 : k2 = [k EXCEPT !.inflight = TRUE] OBVIOUS
  <2>2. PICK q : q = Append(sq, Op("Send", s, k)) OBVIOUS
  <2>3. /\ k2 \in Conn /\ Same(k, k2)
        /\ k2.ring = k.ring /\ k2.state = k.state /\ k2.ws = k.ws /\ k2.rx = k.rx
        /\ k2.armed = k.armed /\ k2.inflight
    BY <1>2, <2>1 DEF Same, Conn
  <2>4. /\ Queues(q, ops, cq, buf)
        /\ TagsIn(q, ops, cq, buf) = TagsIn(sq, ops, cq, buf) \cup {<<"Send", TokenOf(s)>>}
        /\ \A kd, t : (kd # "Send" \/ t # TokenOf(s)) =>
              Sum(q, ops, cq, buf, kd, t) = Sum(sq, ops, cq, buf, kd, t)
        /\ Sum(sq, ops, cq, buf, "Send", TokenOf(s)) = 0 =>
              Sum(q, ops, cq, buf, "Send", TokenOf(s)) = 1
    BY <1>2, <2>2, SubmissionPush
  <2>5. Sum(sq, ops, cq, buf, "Send", TokenOf(s)) = 0 BY <1>2, <1>4 DEF SubmissionOK
  <2>6. SubmissionOK(s, k2, q)
    BY <1>1, <1>2, <2>3, <2>4, <2>5 DEF SubmissionOK
  <2> QED BY <1>4, <2>1, <2>2, <2>6
<1>5. \/ r.conn = k /\ r.q = sq
      \/ /\ ~k.inflight /\ r.conn = [k EXCEPT !.inflight = TRUE]
         /\ r.q = Append(sq, Op("Send", s, k))
  <2>1. CASE k.inflight \/ CannotSubmit(k) BY <1>1, <2>1 DEF TrySubmitSend
  <2>2. CASE ~(k.inflight \/ CannotSubmit(k))
    <3> DEFINE nothing == [conn |-> k, err |-> FALSE, q |-> sq]
               failed == [conn |-> k, err |-> TRUE, q |-> sq]
               sent == [conn |-> [k EXCEPT !.inflight = TRUE], err |-> FALSE,
                        q |-> Append(sq, Op("Send", s, k))]
    <3>1. r \in {nothing, failed, sent} BY <1>1 DEF TrySubmitSend
    <3>2. CASE r = sent BY <2>2, <3>2
    <3> QED BY <3>1, <3>2
  <2> QED BY <2>1, <2>2
<1> QED BY <1>3, <1>4, <1>5

\* So does try_rearm_multishot.
LEMMA TryRearmOK ==
    ASSUME Inv, NEW s \in LiveIds, NEW k, NEW q, SubmissionOK(s, k, q)
    PROVE  /\ SubmissionOK(s, TryRearm(s, k, q).conn, TryRearm(s, k, q).q)
           /\ (~TryRearm(s, k, q).err /\ ~CannotSubmit(k) /\ k.ring) =>
                 TryRearm(s, k, q).conn.armed
<1>1. PICK r : r = TryRearm(s, k, q) OBVIOUS
<1>2. k \in Conn BY DEF SubmissionOK, Same
<1>3. CASE r.conn = k /\ r.q = q /\ (r.err \/ k.armed \/ CannotSubmit(k) \/ ~k.ring)
  BY <1>1, <1>3
<1>4. CASE ~k.armed /\ k.ring /\ r.conn = [k EXCEPT !.armed = TRUE]
           /\ r.q = Append(q, Op("Recv", s, k))
  <2>1. PICK k2 : k2 = [k EXCEPT !.armed = TRUE] OBVIOUS
  <2>2. PICK q2 : q2 = Append(q, Op("Recv", s, k)) OBVIOUS
  <2>3. /\ k2 \in Conn /\ Same(k, k2)
        /\ k2.ring = k.ring /\ k2.state = k.state /\ k2.ws = k.ws /\ k2.rx = k.rx
        /\ k2.inflight = k.inflight /\ k2.armed
    BY <1>2, <2>1 DEF Same, Conn
  <2>4. /\ Queues(q2, ops, cq, buf)
        /\ TagsIn(q2, ops, cq, buf) = TagsIn(q, ops, cq, buf) \cup {<<"Recv", TokenOf(s)>>}
        /\ \A kd, t : (kd # "Recv" \/ t # TokenOf(s)) =>
              Sum(q2, ops, cq, buf, kd, t) = Sum(q, ops, cq, buf, kd, t)
        /\ Sum(q, ops, cq, buf, "Recv", TokenOf(s)) = 0 =>
              Sum(q2, ops, cq, buf, "Recv", TokenOf(s)) = 1
    BY <2>2, SubmissionPush
  <2>5. Sum(q, ops, cq, buf, "Recv", TokenOf(s)) = 0 BY <1>4 DEF SubmissionOK
  <2>6. Same(conns[s], k2) BY <2>3, SameTrans DEF SubmissionOK
  <2>7. SubmissionOK(s, k2, q2)
    BY <1>4, <2>3, <2>4, <2>5, <2>6 DEF SubmissionOK
  <2> QED BY <1>1, <1>4, <2>1, <2>2, <2>3, <2>7
<1> QED BY <1>1, <1>3, <1>4 DEF TryRearm

\* What a visit of submit_conn_ops does to the connection in its slot.
LEMMA VisitedOps ==
    ASSUME Inv, OpsInv, NEW s \in LiveIds, NEW k, NEW done,
           SubmissionOK(s, k, sq'), done \in {k, Failed(k)},
           conns' = [conns EXCEPT ![s] = done],
           UNCHANGED <<born, ops, cq, buf, registered, phase>>, phase # "dropped"
    PROVE  SlotOps'
<1>1. PICK token : token = TokenOf(s) OBVIOUS
<1>2. /\ Same(conns[s], k)
      /\ k.ring = conns[s].ring /\ k.state = conns[s].state
      /\ k.ws = conns[s].ws /\ k.rx = conns[s].rx
      /\ k.armed => k.ring
      /\ Tags \subseteq Tags'
      /\ \A tag \in Tags' :
            tag \in Tags \/ tag = <<"Send", token>> \/ (tag = <<"Recv", token>> /\ k.ring)
      /\ \A kind, t : t # token => Sum(sq', ops', cq', buf', kind, t) = Total(kind, t)
      /\ Sum(sq', ops', cq', buf', "Recv", token) = IF k.armed THEN 1 ELSE 0
      /\ Sum(sq', ops', cq', buf', "Send", token) = IF k.inflight THEN 1 ELSE 0
  BY <1>1 DEF SubmissionOK, Tags
<1>3. k \in Conn BY <1>2 DEF Same
<1>4. /\ Same(k, done) /\ Keeps(k, done)
      /\ done.ws = k.ws /\ done.rx = k.rx /\ done.state \in {k.state, "Closed"}
  BY <1>3, FailedSame, StepsKeep DEF Same, Failed, Conn
<1>5. Same(conns[s], done) BY <1>2, <1>4, SameTrans
<1>6. /\ done.ring = k.ring /\ done.armed = k.armed /\ done.inflight = k.inflight
      /\ done.bgid = conns[s].bgid
  BY <1>4, <1>5 DEF Keeps, Same
<1>7. SlotOps BY OpsInvFacts
<1>8. RingOK(conns[s], token) BY <1>1, <1>7 DEF SlotOps, RingInv
<1>9. RingOK(done, token)'
  <2>1. <<"Recv", token>> \in Tags' => done.ring BY <1>2, <1>6, <1>8 DEF RingOK
  <2>2. ~done.ring => done.state \in {"Connecting", "Closed"} /\ done.ws = "Connecting" /\ ~done.rx
    BY <1>2, <1>4, <1>6, <1>8 DEF RingOK
  <2>3. done.ring => done.bgid \in registered' BY <1>2, <1>6, <1>8 DEF RingOK
  <2>4. done.armed => done.ring BY <1>2, <1>6
  <2> QED BY <2>1, <2>2, <2>3, <2>4 DEF RingOK
<1>10. done.state = "Connecting" => <<"Connect", token>> \in Tags'
  BY <1>1, <1>2, <1>4, <1>7 DEF SlotOps, ConnectInv
<1>11. /\ Sum(sq', ops', cq', buf', "Recv", token) = IF done.armed THEN 1 ELSE 0
       /\ Sum(sq', ops', cq', buf', "Send", token) = IF done.inflight THEN 1 ELSE 0
  BY <1>2, <1>6
<1>12. /\ \A tag \in Tags' : tag \in Tags \/ tag[2] = token
       /\ \A tag \in Tags : tag[2] # token => tag \in Tags'
  BY <1>2
<1> QED BY <1>1, <1>2, <1>5, <1>7, <1>9, <1>10, <1>11, <1>12, ConnOps

\* submit_conn_ops preserves the invariant: after its visit the connection of a
\* blocking connect is connecting or has a receive armed, or something failed.
LEMMA SubmitConnOpsOps ==
    ASSUME Inv, OpsInv, SubmitConnOps
    PROVE  OpsInv'
<1>1. cur \in ConnIds BY CurConnId DEF SubmitConnOps
<1>2. /\ UNCHANGED <<born, phase, mode, target, buf, ops, cq, registered>>
      /\ cur' = cur + 1 /\ phase = "submit"
  BY DEF SubmitConnOps
<1>3. IsFiniteSet(ops)' /\ CqeInv' BY <1>2 DEF OpsInv, CqeInv
<1>4. buf' = <<>> BY <1>2 DEF OpsInv, OpenInv
<1>5. mode = "open" => target \in LiveIds
  BY <1>2 DEF Inv, TargetLive, PumpType, LiveIds
<1>6. cur \in Nat /\ target \in Nat BY PoolAssumption DEF Inv, PumpType, ConnIds
<1>7. CASE ~IsLive(cur)
  <2>1. UNCHANGED <<conns, first_err, sq>> BY <1>7 DEF SubmitConnOps
  <2>2. SlotOps' BY <1>2, <2>1, StillOps
  <2>3. mode = "open" => cur # target BY <1>5, <1>7 DEF LiveIds
  <2>4. mode = "open" => (cur' <= target <=> cur <= target) BY <1>2, <1>6, <2>3
  <2>5. mode = "open" => (cur' > target <=> cur > target) BY <1>2, <1>6, <2>3
  <2>6. OpenInv' BY <1>2, <1>4, <2>1, <2>4, <2>5 DEF OpsInv, OpenInv
  <2> QED BY <1>3, <2>2, <2>6 DEF OpsInv, SlotOps
<1>8. CASE IsLive(cur)
  <2>1. PICK sent \in TrySubmitSend(cur, conns[cur]) :
          LET r == IF sent.err THEN sent ELSE TryRearm(cur, sent.conn, sent.q)
          IN  /\ sq' = r.q
              /\ IF r.err
                 THEN FinishConnResult(cur, conns[cur], Err(r.conn))
                 ELSE /\ conns' = [conns EXCEPT ![cur] = r.conn]
                      /\ UNCHANGED <<active_count, first_err>>
    BY <1>8 DEF SubmitConnOps
  <2>2. cur \in LiveIds BY <1>1, <1>8 DEF LiveIds
  <2>3. SubmissionOK(cur, sent.conn, sent.q) BY <2>1, <2>2, TrySubmitSendOK
  <2>4. PICK r : r = IF sent.err THEN sent ELSE TryRearm(cur, sent.conn, sent.q) OBVIOUS
  <2>5. SubmissionOK(cur, r.conn, r.q) BY <2>2, <2>3, <2>4, TryRearmOK
  <2>6. /\ sq' = r.q
        /\ r.err => FinishConnResult(cur, conns[cur], Err(r.conn))
        /\ ~r.err => conns' = [conns EXCEPT ![cur] = r.conn] /\ UNCHANGED first_err
    BY <2>1, <2>4
  <2>7. PICK done : done = IF r.err THEN Failed(r.conn) ELSE r.conn OBVIOUS
  <2>8. conns' = [conns EXCEPT ![cur] = done]
    BY <2>6, <2>7 DEF FinishConnResult, Err, Res
  <2>9. SlotOps' BY <1>2, <2>2, <2>5, <2>6, <2>7, <2>8, VisitedOps
  <2>10. OpenInv'
    <3>1. CASE r.err
      <4>1. first_err' = TRUE BY <2>6, <3>1 DEF FinishConnResult, Err, Res
      <4> QED BY <1>2, <1>4, <4>1 DEF OpenInv
    <3>2. CASE mode # "open" BY <1>2, <1>4, <3>2, OpenElsewhere
    <3>3. CASE ~r.err /\ mode = "open" /\ cur # target
      <4>1. conns'[target] = conns[target] BY <1>5, <2>8, <3>3 DEF LiveIds, Inv, SlotType
      <4>2. (cur' <= target <=> cur <= target) /\ (cur' > target <=> cur > target)
        BY <1>2, <1>6, <3>3
      <4>3. first_err' = first_err BY <2>6, <3>3
      <4> QED BY <1>2, <1>4, <4>1, <4>2, <4>3 DEF OpsInv, OpenInv
    <3>4. CASE ~r.err /\ mode = "open" /\ cur = target /\ ~first_err
      <4>1. conns'[target] = r.conn BY <1>1, <2>7, <2>8, <3>4 DEF Inv, SlotType
      <4>2. conns[cur].state # "Closed"
        <5>1. cur <= target BY <1>6, <3>4
        <5> QED BY <1>2, <3>4, <5>1 DEF OpsInv, OpenInv
      <4>3. ~sent.err /\ r = TryRearm(cur, sent.conn, sent.q) BY <2>4, <3>4
      <4>4. /\ sent.conn.state = conns[cur].state /\ sent.conn.ring = conns[cur].ring
            /\ r.conn.state = conns[cur].state
        BY <2>3, <2>5 DEF SubmissionOK
      <4>5. CASE conns[cur].state = "Connecting"
        <5>1. ~(cur' <= target') BY <1>2, <1>6, <3>4
        <5> QED BY <1>2, <1>4, <4>1, <4>4, <4>5, <5>1 DEF OpenInv
      <4>6. CASE conns[cur].state # "Connecting"
        <5>1. conns[cur].ring BY <2>2, <4>2, <4>6, RinglessUnheard DEF Unheard
        <5>2. r.conn.armed
          BY <2>2, <2>3, <3>4, <4>2, <4>3, <4>4, <4>6, <5>1, TryRearmOK DEF CannotSubmit
        <5>3. ~(cur' <= target') BY <1>2, <1>6, <3>4
        <5> QED BY <1>2, <1>4, <4>1, <5>2, <5>3 DEF OpenInv
      <4> QED BY <4>5, <4>6
    <3>5. CASE ~r.err /\ first_err
      <4>1. first_err' = first_err BY <2>6, <3>5
      <4> QED BY <1>2, <1>4, <3>5, <4>1 DEF OpenInv
    <3> QED BY <3>1, <3>2, <3>3, <3>4, <3>5
  <2> QED BY <1>3, <2>9, <2>10 DEF OpsInv, SlotOps
<1> QED BY <1>7, <1>8

-----------------------------------------------------------------------------
(* The theorems. *)

\* An empty pool satisfies the invariant.
LEMMA InitOps == Init => OpsInv
<1> SUFFICES ASSUME Init PROVE OpsInv OBVIOUS
<1>1. LiveIds = {} BY DEF Init, LiveIds, IsLive
<1>2. Tags = {} BY DEF Init, Tags, TagsIn
<1>3. IsFiniteSet(ops) BY FS_EmptySet DEF Init
<1>4. CqeInv /\ OpenInv BY DEF Init, CqeInv, OpenInv
<1>5. IssuedInv BY <1>2 DEF IssuedInv
<1>6. RingInv /\ ConnectInv /\ AgreeInv BY <1>1 DEF RingInv, ConnectInv, AgreeInv
<1> QED BY <1>3, <1>4, <1>5, <1>6 DEF OpsInv

\* Every step preserves the invariant.
LEMMA NextOps == Inv /\ OpsInv /\ [Next]_vars => OpsInv'
<1> SUFFICES ASSUME Inv, OpsInv, [Next]_vars PROVE OpsInv' OBVIOUS
<1>1. ASSUME NEW tls \in UseTls, NEW blocking \in Blocking, SubmitConnectTo(tls, blocking)
      PROVE  OpsInv'
  BY <1>1, SubmitConnectToOps
<1>2. CASE \/ \E s \in ConnIds : RemoveConn(s)
           \/ \E s \in ConnIds, blocking \in Blocking : Reconnect(s, blocking)
           \/ OpenFailed
  BY <1>2, RetireStepOps
<1>3. ASSUME NEW s \in ConnIds, InitiateClose(s) PROVE OpsInv' BY <1>3, InitiateCloseOps
<1>4. CASE \/ \E m \in PumpModes : PumpBegin(m)
           \/ DropPool \/ SubmitError \/ EndDispatch \/ PollEnd
  BY <1>4, StillStepOps
<1>5. CASE SubmitConnOps BY <1>5, SubmitConnOpsOps
<1>6. CASE Submit BY <1>6, SubmitOps
<1>7. CASE Drain BY <1>7, DrainOps
<1>8. CASE DropStale BY <1>8, DropStaleOps
<1>9. ASSUME NEW s \in ConnIds, OnConnectCqe(s) PROVE OpsInv' BY <1>9, OnConnectCqeOps
<1>10. ASSUME NEW s \in ConnIds, Dispatch(s) PROVE OpsInv' BY <1>10, DispatchOps
<1>11. ASSUME NEW s \in ConnIds, DispatchBatch(s) PROVE OpsInv' BY <1>11, DispatchBatchOps
<1>12. CASE PollConn BY <1>12, PollConnOps
<1>13. CASE DriveTarget BY <1>13, DriveTargetOps
<1>14. CASE Kernel BY <1>14, KernelOps
<1>15. CASE UNCHANGED vars BY <1>15, StutterOps
<1> QED
  BY <1>1, <1>2, <1>3, <1>4, <1>5, <1>6, <1>7, <1>8, <1>9, <1>10, <1>11, <1>12, <1>13, <1>14,
     <1>15 DEF Next, Api, Pump

\* Both invariants hold in every reachable state of the pool.
THEOREM PoolOpsInvariant == Spec => [](Inv /\ OpsInv)
<1>1. Init => Inv /\ OpsInv BY InitInv, InitOps
<1>2. (Inv /\ OpsInv) /\ [Next]_vars => (Inv /\ OpsInv)' BY NextInv, NextOps
<1> QED BY <1>1, <1>2, PTL DEF Spec

\* multishot_armed tells the truth, for every size of the pool: exactly one
\* receive of the connection is outstanding while it is set, none while it is not.
THEOREM PoolRecvAgrees == Spec => []RecvAgrees
<1>1. Inv /\ OpsInv => RecvAgrees
  <2> SUFFICES ASSUME Inv, OpsInv, NEW s \in LiveIds
               PROVE  Held(s, "Recv") = IF conns[s].armed THEN 1 ELSE 0
    BY DEF RecvAgrees
  <2>1. QueueType /\ s \in ConnIds BY OpsInvFacts DEF LiveIds
  <2>2. Held(s, "Recv") = Total("Recv", TokenOf(s)) BY <2>1, HeldTotal
  <2> QED BY <2>2 DEF OpsInv, AgreeInv, AgreeOK
<1> QED BY <1>1, PoolOpsInvariant, PTL

\* send_inflight tells the truth: while it is clear the kernel reads nothing
\* from send_buf, and while it is set a CQE that clears it is still to come.
THEOREM PoolSendAgrees == Spec => []SendAgrees
<1>1. Inv /\ OpsInv => SendAgrees
  <2> SUFFICES ASSUME Inv, OpsInv, NEW s \in LiveIds
               PROVE  Held(s, "Send") = IF conns[s].inflight THEN 1 ELSE 0
    BY DEF SendAgrees
  <2>1. QueueType /\ s \in ConnIds BY OpsInvFacts DEF LiveIds
  <2>2. Held(s, "Send") = Total("Send", TokenOf(s)) BY <2>1, HeldTotal
  <2> QED BY <2>2 DEF OpsInv, AgreeInv, AgreeOK
<1> QED BY <1>1, PoolOpsInvariant, PTL

\* drive_conn_until_open never waits for a CQE that cannot come, unless a
\* connection failed in the submit phase.
THEOREM PoolConnectNotStuck == Spec => []BlockingConnectNotStuck
<1>1. Inv /\ OpsInv => BlockingConnectNotStuck
  <2> SUFFICES ASSUME Inv, OpsInv, phase = "wait", mode = "open", ~first_err
               PROVE  ops # {} \/ cq # <<>>
    BY DEF BlockingConnectNotStuck
  <2>1. sq = <<>> /\ buf = <<>> BY DEF OpsInv, OpenInv
  <2>2. conns[target].state = "Connecting" \/ conns[target].armed BY DEF OpsInv, OpenInv
  <2>3. target \in LiveIds BY DEF Inv, TargetLive, PumpType, LiveIds
  <2>4. \E tag : tag \in Tags
    <3>1. CASE conns[target].state = "Connecting" BY <2>3, <3>1 DEF OpsInv, ConnectInv
    <3>2. CASE conns[target].armed
      <4>1. Total("Recv", TokenOf(target)) = 1 BY <2>3, <3>2 DEF OpsInv, AgreeInv, AgreeOK
      <4>2. Queues(sq, ops, cq, buf) BY OpsInvFacts DEF QueueType
      <4>3. Sum(sq, ops, cq, buf, "Recv", TokenOf(target)) # 0 BY <4>1 DEF Total
      <4> QED BY <4>2, <4>3, SumUntagged DEF Tags
    <3> QED BY <2>2, <3>1, <3>2
  <2>5. ASSUME ops = {}, cq = <<>> PROVE Tags = {} BY <2>1, <2>5 DEF Tags, TagsIn
  <2> QED BY <2>4, <2>5
<1> QED BY <1>1, PoolOpsInvariant, PTL

-----------------------------------------------------------------------------
(* Accounting for connections and for rings. *)

ringVars == <<registered, refused, leaked>>

\* A ring is registered with its connection, which then has one, or left behind
\* without it.
RingMoved(k, k2) ==
    \/ k2.ring = k.ring /\ UNCHANGED ringVars
    \/ /\ k2.ring = k.ring
       /\ k.bgid \notin registered
       /\ registered' = registered \cup {k.bgid}
       /\ leaked' = leaked \cup {k.bgid}
       /\ UNCHANGED refused
    \/ /\ k2.ring
       /\ k.bgid \notin registered
       /\ registered' = registered \cup {k.bgid}
       /\ UNCHANGED <<refused, leaked>>

\* Closing connection k, which becomes k2, takes it off the count; opening it
\* again after that is noted and does not count it.
CountMoved(k, k2) ==
    /\ active_count' = IF Active(k) /\ ~Active(k2) THEN Dec(active_count) ELSE active_count
    /\ reopened \/ (~Active(k) /\ Active(k2)) => reopened'

\* A step on the connection in slot s, which becomes k2.
Moved(s, k2) ==
    /\ Same(conns[s], k2)
    /\ conns' = [conns EXCEPT ![s] = k2]
    /\ CountMoved(conns[s], k2)
    /\ RingMoved(conns[s], k2)

Alive == phase # "dropped" /\ phase' # "dropped"

\* finish_conn_result and fail_conn_and_account account for the connection, if no
\* handler opens a Closed connection and then fails.
LEMMA FinishMoved ==
    ASSUME NEW s, NEW r \in Result, Same(conns[s], r.conn), conns[s].state \in State,
           FinishConnResult(s, conns[s], r), RingMoved(conns[s], r.conn),
           r.err /\ ~Active(conns[s]) => ~Active(r.conn)
    PROVE  \E k2 : Moved(s, k2)
<1> DEFINE done == IF r.err THEN Failed(r.conn) ELSE SyncClose(SyncOpen(r.conn))
<1>1. r.conn \in Conn /\ r.err \in BOOLEAN BY DEF Result
<1>2. done \in {Failed(r.conn), SyncClose(SyncOpen(r.conn))} OBVIOUS
<1>3. conns' = [conns EXCEPT ![s] = done] BY DEF FinishConnResult
<1>4. r.err => ~Active(done) BY <1>1 DEF Failed, Active, Conn
<1>5. CountMoved(conns[s], done)
  <2>1. active_count' = IF IF r.err THEN Active(conns[s]) \/ Active(r.conn)
                                    ELSE Active(conns[s]) /\ ~Active(done)
                        THEN Dec(active_count) ELSE active_count
    BY DEF FinishConnResult
  <2>2. reopened' = (reopened \/ (~Active(conns[s]) /\ Active(done))) BY DEF FinishConnResult
  <2> HIDE DEF done
  <2> QED BY <1>4, <2>1, <2>2 DEF CountMoved
<1> HIDE DEF done
<1>6. Same(r.conn, done) /\ Keeps(r.conn, done) BY <1>1, <1>2, FinishedKeeps
<1>7. Same(conns[s], done) BY <1>6, SameTrans
<1>8. done.ring = r.conn.ring BY <1>6 DEF Keeps
<1>9. RingMoved(conns[s], done) BY <1>8 DEF RingMoved
<1>10. Moved(s, done) BY <1>3, <1>5, <1>7, <1>9 DEF Moved
<1> QED BY <1>10

\* submit_conn_ops leaves slots alone or moves the connection it visits.
LEMMA SubmitConnOpsMoves ==
    ASSUME Inv, OpsInv, SubmitConnOps
    PROVE  \/ UNCHANGED <<conns, active_count, reopened, ringVars>>
           \/ \E s \in LiveIds : \E k2 : Moved(s, k2)
<1>1. cur \in ConnIds BY CurConnId DEF SubmitConnOps
<1>2. UNCHANGED ringVars BY DEF SubmitConnOps, ringVars
<1>3. CASE ~IsLive(cur) BY <1>2, <1>3 DEF SubmitConnOps
<1>4. CASE IsLive(cur)
  <2>1. PICK sent \in TrySubmitSend(cur, conns[cur]) :
          LET r == IF sent.err THEN sent ELSE TryRearm(cur, sent.conn, sent.q)
          IN  /\ sq' = r.q
              /\ IF r.err
                 THEN FinishConnResult(cur, conns[cur], Err(r.conn))
                 ELSE /\ conns' = [conns EXCEPT ![cur] = r.conn]
                      /\ UNCHANGED <<active_count, reopened, first_err>>
    BY <1>4 DEF SubmitConnOps
  <2>2. cur \in LiveIds BY <1>1, <1>4 DEF LiveIds
  <2>3. SubmissionOK(cur, sent.conn, sent.q) BY <2>1, <2>2, TrySubmitSendOK
  <2>4. PICK r : r = IF sent.err THEN sent ELSE TryRearm(cur, sent.conn, sent.q) OBVIOUS
  <2>5. SubmissionOK(cur, r.conn, r.q) BY <2>2, <2>3, <2>4, TryRearmOK
  <2>6. /\ r.err => FinishConnResult(cur, conns[cur], Err(r.conn))
        /\ ~r.err => /\ conns' = [conns EXCEPT ![cur] = r.conn]
                     /\ UNCHANGED <<active_count, reopened>>
    BY <2>1, <2>4
  <2>7. Same(conns[cur], r.conn) /\ r.conn.ring = conns[cur].ring /\ r.conn.state = conns[cur].state
    BY <2>5 DEF SubmissionOK
  <2>8. CASE r.err
    <3>1. Err(r.conn) \in Result /\ Err(r.conn).conn = r.conn
      BY <2>7 DEF Same, Err, Res, Result
    <3>2. conns[cur].state \in State BY <2>2, LiveConn DEF Conn
    <3>3. RingMoved(conns[cur], r.conn) BY <1>2, <2>7 DEF RingMoved
    <3>4. ~Active(conns[cur]) => ~Active(r.conn) BY <2>7 DEF Active
    <3> QED BY <2>2, <2>6, <2>7, <2>8, <3>1, <3>2, <3>3, <3>4, FinishMoved
  <2>9. CASE ~r.err
    <3>1. Moved(cur, r.conn)
      BY <1>2, <2>6, <2>7, <2>9 DEF Moved, CountMoved, RingMoved, Active
    <3> QED BY <2>2, <3>1
  <2> QED BY <2>8, <2>9
<1> QED BY <1>3, <1>4

\* Handling CQEs moves the connection they are routed to.
LEMMA DispatchMoves ==
    ASSUME Inv, OpsInv, NEW s \in ConnIds, OnConnectCqe(s) \/ Dispatch(s) \/ DispatchBatch(s)
    PROVE  s \in LiveIds /\ \E k2 : Moved(s, k2)
<1>1. CASE OnConnectCqe(s)
  <2>1. s \in LiveIds BY <1>1 DEF OnConnectCqe, Routes, LiveIds
  <2>2. PICK k : k = conns[s] OBVIOUS
  <2>3. k \in Conn /\ k.state \in State /\ Same(k, k)
    BY <2>1, <2>2, LiveConn DEF Conn, Same
  <2>4. PICK up : up = [k EXCEPT !.ring = TRUE, !.armed = TRUE,
                                 !.state = IF k.tls THEN "TlsHandshake" ELSE "WsHandshake"]
    OBVIOUS
  <2>5. \/ FinishConnResult(s, k, Err(k)) /\ RingMoved(k, k)
        \/ FinishConnResult(s, k, Ok(up)) /\ RingMoved(k, up)
    <3>1. CASE FinishConnResult(s, k, Err(k)) /\ UNCHANGED <<registered, leaked>>
      BY <1>1, <3>1 DEF OnConnectCqe, idVars, ringVars, RingMoved
    <3>2. CASE /\ FinishConnResult(s, k, Err(k))
               /\ k.bgid \notin registered
               /\ registered' = registered \cup {k.bgid} /\ leaked' = leaked \cup {k.bgid}
      BY <1>1, <3>2 DEF OnConnectCqe, idVars, RingMoved
    <3>3. CASE /\ FinishConnResult(s, k, Ok(up))
               /\ k.bgid \notin registered
               /\ registered' = registered \cup {k.bgid} /\ leaked' = leaked
      <4>1. up.ring BY <2>3, <2>4 DEF Conn
      <4> QED BY <1>1, <3>3, <4>1 DEF OnConnectCqe, idVars, RingMoved
    <3>4. ASSUME NEW kept \in SUBSET {b \in {k.bgid} : UnregisterMayFail}
          PROVE  \/ registered \cup kept = registered /\ leaked \cup kept = leaked
                 \/ kept = {k.bgid}
      OBVIOUS
    <3> QED BY <1>1, <2>2, <2>4, <3>1, <3>2, <3>3, <3>4 DEF OnConnectCqe
  <2>6. CASE FinishConnResult(s, k, Err(k)) /\ RingMoved(k, k)
    <3>1. Err(k) \in Result /\ Err(k).conn = k BY <2>3 DEF Err, Res, Result
    <3> QED BY <2>1, <2>2, <2>3, <2>6, <3>1, FinishMoved
  <2>7. CASE FinishConnResult(s, k, Ok(up)) /\ RingMoved(k, up)
    <3>1. up \in Conn /\ Same(k, up) BY <2>3, <2>4 DEF Same, Conn, State
    <3>2. Ok(up) \in Result /\ Ok(up).conn = up /\ ~Ok(up).err
      BY <3>1 DEF Ok, Res, Result
    <3> QED BY <2>1, <2>2, <2>3, <2>7, <3>1, <3>2, FinishMoved
  <2> QED BY <2>5, <2>6, <2>7
<1>2. CASE Dispatch(s)
  <2>1. /\ buf # <<>> /\ Routes(Head(buf), s) /\ UNCHANGED ringVars
        /\ Head(buf).kind = "Connect" => conns[s].state = "Closed"
    BY <1>2 DEF Dispatch, Dispatching, kernelVars, idVars, ringVars
  <2>2. s \in LiveIds /\ conns[s] \in Conn /\ Head(buf) \in CqeType /\ CqeOK(Head(buf))
    BY <2>1, TakenHead
  <2>3. PICK r \in HandleCompletion(conns[s], Head(buf)) : FinishConnResult(s, conns[s], r)
    BY <1>2 DEF Dispatch
  <2>4. r \in Result /\ Same(conns[s], r.conn) BY <2>2, <2>3, HandleCompletionSame
  <2>5. After(conns[s], Head(buf), r.conn)
    BY <2>1, <2>2, <2>3, HandleCompletionAfter DEF CqeOK
  <2>6. RingMoved(conns[s], r.conn) /\ conns[s].state \in State
    BY <2>1, <2>2, <2>5 DEF After, Conn, RingMoved
  <2>7. ~Active(conns[s]) => ~r.err
    BY <2>2, <2>3 DEF Active, HandleCompletion, Discard, Ok, Res
  <2> QED BY <2>2, <2>3, <2>4, <2>6, <2>7, FinishMoved
<1>3. CASE DispatchBatch(s)
  <2>1. UNCHANGED ringVars BY <1>3 DEF DispatchBatch, kernelVars, idVars, ringVars
  <2>2. PICK n \in 2 .. Len(buf) :
          /\ BatchOf(s, n)
          /\ \E r \in RecvDrain([conns[s] EXCEPT !.armed =
                                    @ /\ \A i \in 1 .. n : buf[i].more]) :
                FinishConnResult(s, conns[s], r)
    BY <1>3 DEF DispatchBatch
  <2>3. 1 \in 1 .. n BY OpsInvFacts
  <2>4. Routes(buf[1], s) /\ conns[s].state = "Open" BY <2>2, <2>3 DEF BatchOf, CanBatch
  <2>5. s \in LiveIds /\ conns[s] \in Conn BY <2>4, LiveConn DEF Routes, LiveIds
  <2>6. PICK more \in BOOLEAN : more = (conns[s].armed /\ \A i \in 1 .. n : buf[i].more)
    OBVIOUS
  <2>7. PICK seen : seen = [conns[s] EXCEPT !.armed = more] OBVIOUS
  <2>8. PICK r \in RecvDrain(seen) : FinishConnResult(s, conns[s], r)
    BY <2>2, <2>6, <2>7
  <2>9. seen \in Conn /\ Same(conns[s], seen) /\ seen.ring = conns[s].ring
    BY <2>5, <2>6, <2>7 DEF Same, Conn
  <2>10. r \in Result /\ Same(conns[s], r.conn)
    BY <2>8, <2>9, RecvDrainSame, SameTrans
  <2>11. r.conn.ring = conns[s].ring BY <2>8, <2>9, RecvDrainKeeps DEF Keeps
  <2>12. RingMoved(conns[s], r.conn) BY <2>1, <2>11 DEF RingMoved
  <2>13. conns[s].state \in State /\ Active(conns[s]) BY <2>4, <2>5 DEF Conn, Active
  <2> QED BY <2>5, <2>8, <2>10, <2>12, <2>13, FinishMoved
<1> QED BY <1>1, <1>2, <1>3

\* A connection that has not failed is not Closed by synchronising its state.
LEMMA SyncActive ==
    ASSUME NEW k \in Conn, Active(k)
    PROVE  Active(SyncClose(SyncOpen(k)))
  BY DEF Active, SyncClose, SyncOpen, Conn

\* Polling a client leaves slots alone or moves its connection.
LEMMA PollConnMoves ==
    ASSUME Inv, OpsInv, PollConn
    PROVE  \/ UNCHANGED <<conns, active_count, reopened, ringVars>>
           \/ \E s \in LiveIds : \E k2 : Moved(s, k2)
<1>1. cur \in ConnIds BY CurConnId DEF PollConn
<1>2. UNCHANGED ringVars BY DEF PollConn, kernelVars, idVars, ringVars
<1>3. CASE UNCHANGED <<conns, active_count, reopened>> BY <1>2, <1>3
<1>4. CASE ~UNCHANGED <<conns, active_count, reopened>>
  <2>1. cur \in LiveIds /\ conns[cur] \in Conn /\ Active(conns[cur])
    BY <1>1, <1>4 DEF PollConn, Inv, SlotType, IsLive, LiveIds
  <2>2. PICK o \in WsResult :
          LET k == Drained(conns[cur], o.ws)
          IN  IF o.err
              THEN FinishConnResult(cur, conns[cur], Err(k))
              ELSE /\ conns' = [conns EXCEPT ![cur] = SyncClose(SyncOpen(k))]
                   /\ UNCHANGED <<active_count, reopened, first_err>>
    BY <1>4, <2>1 DEF PollConn, WsOutcomes, WsResult, Conn
  <2>3. PICK k : k = Drained(conns[cur], o.ws) OBVIOUS
  <2>4. k \in Conn /\ Same(conns[cur], k) /\ Keeps(conns[cur], k)
    BY <2>1, <2>2, <2>3, DrainedSame, StepsKeep DEF Same, WsResult
  <2>5. k.ring = conns[cur].ring BY <2>4 DEF Keeps
  <2>6. CASE o.err
    <3>1. FinishConnResult(cur, conns[cur], Err(k)) BY <2>2, <2>3, <2>6
    <3>2. Err(k) \in Result /\ Err(k).conn = k BY <2>4 DEF Err, Res, Result
    <3>3. conns[cur].state \in State BY <2>1 DEF Conn
    <3>4. RingMoved(conns[cur], k) BY <1>2, <2>5 DEF RingMoved
    <3> QED BY <2>1, <2>4, <3>1, <3>2, <3>3, <3>4, FinishMoved
  <2>7. CASE ~o.err
    <3>1. PICK done : done = SyncClose(SyncOpen(k)) OBVIOUS
    <3>2. conns' = [conns EXCEPT ![cur] = done] /\ UNCHANGED <<active_count, reopened>>
      BY <2>2, <2>3, <2>7, <3>1
    <3>3. Same(k, done) /\ Keeps(k, done) BY <2>4, <3>1, FinishedKeeps
    <3>4. Same(conns[cur], done) BY <2>4, <3>3, SameTrans
    <3>5. done.ring = conns[cur].ring BY <2>5, <3>3 DEF Keeps
    <3>6. Active(k) BY <2>1, <2>3 DEF Active, Drained, Conn
    <3>7. Active(done) BY <2>4, <3>1, <3>6, SyncActive
    <3>8. Moved(cur, done)
      BY <1>2, <2>1, <3>2, <3>4, <3>5, <3>7 DEF Moved, CountMoved, RingMoved
    <3> QED BY <2>1, <3>8
  <2> QED BY <2>6, <2>7
<1> QED BY <1>3, <1>4

\* drive_target_handshake_event moves the connection it drives.
LEMMA DriveTargetMoves ==
    ASSUME Inv, OpsInv, DriveTarget
    PROVE  \E s \in LiveIds : \E k2 : Moved(s, k2)
<1>1. PICK k : k = conns[target] OBVIOUS
<1>2. phase = "target" /\ target \in LiveIds /\ k \in Conn /\ UNCHANGED ringVars
  BY <1>1 DEF DriveTarget, Inv, TargetLive, PumpType, SlotType, IsLive, LiveIds, kernelVars,
              idVars, ringVars
<1>3. CASE k.state \in {"Open", "Closed"}
  <2>1. /\ conns' = [conns EXCEPT ![target] = SyncOpen(k)] /\ active_count' = active_count
        /\ reopened' = (reopened \/ (~Active(k) /\ Active(SyncOpen(k))))
    BY <1>1, <1>3 DEF DriveTarget
  <2>2. Same(k, SyncOpen(k)) BY <1>2 DEF SyncOpen, Same, Conn, State
  <2>3. SyncOpen(k).ring = k.ring /\ (Active(k) => Active(SyncOpen(k)))
    BY <1>2 DEF SyncOpen, Active, Conn
  <2>4. Moved(target, SyncOpen(k))
    BY <1>1, <1>2, <2>1, <2>2, <2>3 DEF Moved, CountMoved, RingMoved
  <2> QED BY <1>2, <2>4
<1>4. CASE k.state \notin {"Open", "Closed"}
  <2>1. PICK o \in WsResult, more \in BOOLEAN :
          LET polled == [k EXCEPT !.ws = o.ws, !.rx = more]
              done == IF o.err THEN Failed(polled) ELSE SyncClose(SyncOpen(polled))
          IN  /\ conns' = [conns EXCEPT ![target] = done]
              /\ active_count' = IF Active(done) THEN active_count ELSE Dec(active_count)
              /\ UNCHANGED reopened
    <3>1. [ws |-> k.ws, err |-> FALSE] \in WsResult BY <1>2 DEF WsResult, Conn
    <3>2. WsOneEvent(k.ws) \subseteq WsResult BY DEF WsOneEvent, WsOutcomes
    <3> QED BY <1>1, <1>4, <3>1, <3>2 DEF DriveTarget
  <2>2. PICK polled : polled = [k EXCEPT !.ws = o.ws, !.rx = more] OBVIOUS
  <2>3. PICK done : done = IF o.err THEN Failed(polled) ELSE SyncClose(SyncOpen(polled)) OBVIOUS
  <2>4. /\ conns' = [conns EXCEPT ![target] = done]
        /\ active_count' = IF Active(done) THEN active_count ELSE Dec(active_count)
        /\ UNCHANGED reopened
    BY <2>1, <2>2, <2>3
  <2>5. polled \in Conn /\ Same(k, polled) /\ polled.ring = k.ring
    BY <1>2, <2>2 DEF Same, Conn, WsResult
  <2>6. done \in {Failed(polled), SyncClose(SyncOpen(polled))} BY <2>3
  <2>7. Same(polled, done) /\ Keeps(polled, done) BY <2>5, <2>6, FinishedKeeps
  <2>8. Same(k, done) BY <2>5, <2>7, SameTrans
  <2>9. done.ring = k.ring BY <2>5, <2>7 DEF Keeps
  <2>10. Active(k) BY <1>4 DEF Active
  <2>11. Moved(target, done)
    BY <1>1, <1>2, <2>4, <2>8, <2>9, <2>10 DEF Moved, CountMoved, RingMoved
  <2> QED BY <1>2, <2>11
<1> QED BY <1>3, <1>4

\* initiate_close moves the connection it closes.
LEMMA InitiateCloseMoves ==
    ASSUME Inv, NEW s \in ConnIds, InitiateClose(s)
    PROVE  s \in LiveIds /\ \E k2 : Moved(s, k2)
<1> DEFINE k == [conns[s] EXCEPT !.ws = IF @ = "Open" THEN "Closing" ELSE @,
                                 !.state = IF @ = "Open" THEN "Closing" ELSE @]
<1>1. s \in LiveIds /\ conns[s] \in Conn BY DEF InitiateClose, LiveIds, Inv, SlotType, IsLive
<1>2. Same(conns[s], k) BY <1>1 DEF Same, Conn, State, WsState
<1>3. k.ring = conns[s].ring /\ Active(conns[s]) /\ Active(k)
  BY <1>1 DEF Active, Conn, InitiateClose
<1>4. conns' = [conns EXCEPT ![s] = k] BY DEF InitiateClose
<1>5. UNCHANGED <<active_count, reopened, ringVars>> BY DEF InitiateClose, kernelVars, ringVars
<1> HIDE DEF k
<1>6. Moved(s, k) BY <1>2, <1>3, <1>4, <1>5 DEF Moved, CountMoved, RingMoved
<1> QED BY <1>1, <1>6

\* submit_connect_to fills a free slot with a connection that is active and has
\* no ring.
Filled(s) ==
    \E k2 : /\ k2 \in Conn /\ Active(k2) /\ ~k2.ring
            /\ conns' = [conns EXCEPT ![s] = k2]
            /\ active_count' = active_count + 1
            /\ UNCHANGED <<reopened, ringVars>>

\* Every step is one of these.
StepKinds ==
    \/ /\ UNCHANGED <<conns, active_count, reopened, ringVars>>
       /\ phase' = "dropped" <=> phase = "dropped"
    \/ Alive /\ \E s \in LiveIds : \E k2 : Moved(s, k2)
    \/ Alive /\ \E s \in LiveIds : RetireSlot(s)
    \/ Alive /\ \E s \in ConnIds \ LiveIds : Filled(s)
    \/ DropPool

\* There is no other step.
LEMMA NextKinds ==
    ASSUME Inv, OpsInv, [Next]_vars
    PROVE  StepKinds
<1>1. CASE SubmitConnOps
  BY <1>1, SubmitConnOpsMoves DEF StepKinds, Alive, SubmitConnOps
<1>2. ASSUME NEW s \in ConnIds, OnConnectCqe(s) \/ Dispatch(s) \/ DispatchBatch(s)
      PROVE  StepKinds
  <2>1. Alive BY <1>2 DEF Alive, OnConnectCqe, Dispatch, DispatchBatch, Dispatching
  <2> QED BY <1>2, <2>1, DispatchMoves DEF StepKinds
<1>3. CASE PollConn
  BY <1>3, PollConnMoves DEF StepKinds, Alive, PollConn
<1>4. CASE DriveTarget
  <2>1. Alive BY <1>4 DEF Alive, DriveTarget, Return, StartRound
  <2> QED BY <1>4, <2>1, DriveTargetMoves DEF StepKinds
<1>5. ASSUME NEW s \in ConnIds, InitiateClose(s) PROVE StepKinds
  <2>1. Alive BY <1>5 DEF Alive, InitiateClose, pumpVars
  <2> QED BY <1>5, <2>1, InitiateCloseMoves DEF StepKinds
<1>6. CASE \/ \E s \in ConnIds : RemoveConn(s)
           \/ \E s \in ConnIds, blocking \in Blocking : Reconnect(s, blocking)
           \/ OpenFailed
  <2>1. \E s \in LiveIds : RetireSlot(s)
    BY <1>6 DEF RemoveConn, Reconnect, OpenFailed, LiveIds, Inv, TargetLive, PumpType
  <2>2. Alive BY <1>6 DEF Alive, RemoveConn, Reconnect, OpenFailed, Return, pumpVars
  <2> QED BY <2>1, <2>2 DEF StepKinds
<1>7. ASSUME NEW tls \in UseTls, NEW blocking \in Blocking, SubmitConnectTo(tls, blocking)
      PROVE  StepKinds
  <2>1. phase # "dropped" /\ UNCHANGED <<reopened, ringVars>>
    BY <1>7 DEF SubmitConnectTo, ringVars
  <2>2. CASE SubmitFailed /\ Return
    BY <2>1, <2>2 DEF SubmitFailed, Return, StepKinds
  <2>3. CASE /\ BgidAvailable /\ ConnIdAvailable
             /\ Submitted(ReservedConnId, NewConn(ReservedConnId, tls))
             /\ IF blocking THEN StartRound("open") /\ target' = ReservedConnId ELSE Return
    <3>1. Alive BY <2>1, <2>3 DEF Alive, StartRound, Return
    <3>2. PICK s : s = ReservedConnId OBVIOUS
    <3>3. PICK k2 : k2 = NewConn(s, tls) OBVIOUS
    <3>4. s \in ConnIds \ LiveIds /\ ReservedBgid \in Bgids
      BY <2>3, <3>2, ReservedFresh DEF LiveIds
    <3>5. k2 \in Conn /\ Active(k2) /\ ~k2.ring
      <4>1. generations[s] \in Generations /\ born[s] \in Nat BY <3>4 DEF Inv, SlotType
      <4>2. tls \in BOOLEAN BY PoolAssumption
      <4> QED BY <3>3, <3>4, <4>1, <4>2 DEF NewConn, Conn, State, WsState, Active
    <3>6. Filled(s) BY <2>1, <2>3, <3>2, <3>3, <3>5 DEF Filled, Submitted
    <3> QED BY <3>1, <3>4, <3>6 DEF StepKinds
  <2> QED BY <1>7, <2>2, <2>3 DEF SubmitConnectTo
<1>8. CASE DropPool BY <1>8 DEF StepKinds
<1>9. CASE \/ \E m \in PumpModes : PumpBegin(m)
           \/ Submit \/ SubmitError \/ Drain \/ DropStale \/ EndDispatch \/ PollEnd
           \/ Kernel \/ UNCHANGED vars
  <2>1. UNCHANGED <<conns, active_count, reopened, ringVars>>
    BY <1>9 DEF PumpBegin, Submit, SubmitError, Drain, DropStale, EndDispatch, PollEnd,
                Kernel, KernelComplete, KernelRecv, vars, slotVars, kernelVars, ringVars
  <2>2. phase' = "dropped" <=> phase = "dropped"
    BY <1>9 DEF PumpBegin, StartRound, Submit, SubmitError, Drain, DropStale, Dispatching,
                EndDispatch, PollEnd, Return, Kernel, KernelComplete, KernelRecv, vars, pumpVars
  <2> QED BY <2>1, <2>2 DEF StepKinds
<1> QED BY <1>1, <1>2, <1>3, <1>4, <1>5, <1>6, <1>7, <1>8, <1>9 DEF Next, Api, Pump

ActiveIds == {s \in LiveIds : Active(conns[s])}

\* There are finitely many slots.
LEMMA SlotsFinite ==
    ASSUME NEW T \in SUBSET ConnIds
    PROVE  IsFiniteSet(T)
<1>1. IsFiniteSet(ConnIds) BY PoolAssumption, FS_Interval DEF ConnIds
<1> QED BY <1>1, FS_Subset

\* So the active connections are finitely many.
LEMMA ActiveFinite == IsFiniteSet(ActiveIds)
<1>1. ActiveIds \in SUBSET ConnIds BY DEF ActiveIds, LiveIds
<1> QED BY <1>1, SlotsFinite

\* What the count is compared with.
LEMMA ActiveCard ==
    /\ IsFiniteSet(ActiveIds) /\ IsFiniteSet(ActiveIds')
    /\ Cardinality(ActiveIds) \in Nat /\ Cardinality(ActiveIds') \in Nat
<1>1. ActiveIds' \in SUBSET ConnIds BY DEF ActiveIds, LiveIds
<1>2. IsFiniteSet(ActiveIds') BY <1>1, SlotsFinite
<1> QED BY <1>2, ActiveFinite, FS_CardinalityType

\* The active connections stay: so does the count.
LEMMA CountStays ==
    ASSUME ActiveCountAgrees, active_count' = active_count, reopened => reopened',
           ActiveIds' = ActiveIds
    PROVE  ActiveCountAgrees'
  BY DEF ActiveCountAgrees, ActiveIds

\* One connection leaves the active ones and is taken off the count.
LEMMA CountDown ==
    ASSUME ActiveCountAgrees, active_count \in Nat, active_count' = Dec(active_count),
           reopened => reopened', NEW s \in ActiveIds, ActiveIds' = ActiveIds \ {s}
    PROVE  ActiveCountAgrees'
<1>1. Cardinality(ActiveIds') = Cardinality(ActiveIds) - 1 BY ActiveFinite, FS_RemoveElement
<1>2. Cardinality(ActiveIds) \in Nat /\ Cardinality(ActiveIds') \in Nat BY ActiveCard
<1>3. /\ active_count <= Cardinality(ActiveIds)
      /\ ~reopened => active_count = Cardinality(ActiveIds)
  BY DEF ActiveCountAgrees, ActiveIds
<1>4. /\ active_count' <= Cardinality(ActiveIds')
      /\ active_count = Cardinality(ActiveIds) => active_count' = Cardinality(ActiveIds')
  BY <1>1, <1>2, <1>3 DEF Dec
<1> QED BY <1>3, <1>4 DEF ActiveCountAgrees, ActiveIds

\* A Closed connection becomes active again: it is not counted, and noted.
LEMMA CountReopened ==
    ASSUME ActiveCountAgrees, active_count \in Nat, active_count' = active_count, reopened',
           ActiveIds \subseteq ActiveIds'
    PROVE  ActiveCountAgrees'
<1>1. Cardinality(ActiveIds) <= Cardinality(ActiveIds') BY ActiveCard, FS_Subset
<1>2. Cardinality(ActiveIds) \in Nat /\ Cardinality(ActiveIds') \in Nat BY ActiveCard
<1>3. active_count <= Cardinality(ActiveIds) BY DEF ActiveCountAgrees, ActiveIds
<1>4. active_count' <= Cardinality(ActiveIds') BY <1>1, <1>2, <1>3
<1> QED BY <1>4 DEF ActiveCountAgrees, ActiveIds

\* Every step keeps the count right.
LEMMA CountStep ==
    ASSUME Inv, ActiveCountAgrees, StepKinds
    PROVE  ActiveCountAgrees'
<1>0. active_count \in Nat /\ conns \in [ConnIds -> Conn \cup {None}] BY DEF Inv, SlotType
<1>1. CASE UNCHANGED <<conns, active_count, reopened>>
  BY <1>1 DEF ActiveCountAgrees, LiveIds, IsLive
<1>2. ASSUME NEW s \in LiveIds, NEW k2, Moved(s, k2) PROVE ActiveCountAgrees'
  <2>1. /\ conns' = [conns EXCEPT ![s] = k2] /\ k2 \in Conn /\ s \in ConnIds
        /\ CountMoved(conns[s], k2)
    BY <1>2 DEF Moved, Same, LiveIds
  <2>2. k2 # None BY <2>1, PoolAssumption
  <2>3. CASE Active(k2) <=> Active(conns[s])
    <3>1. ActiveIds' = ActiveIds BY <1>0, <2>1, <2>2, <2>3 DEF ActiveIds, LiveIds, IsLive
    <3>2. active_count' = active_count /\ (reopened => reopened')
      BY <2>1, <2>3 DEF CountMoved
    <3> QED BY <3>1, <3>2, CountStays
  <2>4. CASE ~Active(k2) /\ Active(conns[s])
    <3>1. s \in ActiveIds BY <2>4 DEF ActiveIds
    <3>2. ActiveIds' = ActiveIds \ {s} BY <1>0, <2>1, <2>2, <2>4 DEF ActiveIds, LiveIds, IsLive
    <3>3. active_count' = Dec(active_count) /\ (reopened => reopened')
      BY <2>1, <2>4 DEF CountMoved
    <3> QED BY <1>0, <3>1, <3>2, <3>3, CountDown
  <2>5. CASE Active(k2) /\ ~Active(conns[s])
    <3>1. ActiveIds \subseteq ActiveIds' BY <1>0, <2>1, <2>2, <2>5 DEF ActiveIds, LiveIds, IsLive
    <3>2. active_count' = active_count /\ reopened' BY <2>1, <2>5 DEF CountMoved
    <3> QED BY <1>0, <3>1, <3>2, CountReopened
  <2> QED BY <2>3, <2>4, <2>5
<1>3. ASSUME NEW s \in LiveIds, RetireSlot(s) PROVE ActiveCountAgrees'
  <2>1. /\ conns' = [conns EXCEPT ![s] = None] /\ s \in ConnIds /\ reopened' = reopened
        /\ active_count' = IF Active(conns[s]) THEN Dec(active_count) ELSE active_count
    BY <1>3 DEF RetireSlot, LiveIds
  <2>2. ActiveIds' = ActiveIds \ {s} BY <1>0, <2>1 DEF ActiveIds, LiveIds, IsLive
  <2>3. CASE Active(conns[s])
    <3>1. s \in ActiveIds BY <2>3 DEF ActiveIds
    <3> QED BY <1>0, <2>1, <2>2, <2>3, <3>1, CountDown
  <2>4. CASE ~Active(conns[s])
    <3>1. ActiveIds' = ActiveIds BY <2>2, <2>4 DEF ActiveIds
    <3> QED BY <2>1, <2>4, <3>1, CountStays
  <2> QED BY <2>3, <2>4
<1>4. ASSUME NEW s \in ConnIds \ LiveIds, Filled(s) PROVE ActiveCountAgrees'
  <2>1. PICK k2 : /\ k2 \in Conn /\ Active(k2)
                  /\ conns' = [conns EXCEPT ![s] = k2]
                  /\ active_count' = active_count + 1
                  /\ reopened' = reopened
    BY <1>4 DEF Filled
  <2>2. k2 # None BY <2>1, PoolAssumption
  <2>3. s \notin ActiveIds BY DEF ActiveIds
  <2>4. ActiveIds' = ActiveIds \cup {s}
    BY <1>0, <2>1, <2>2 DEF ActiveIds, LiveIds, IsLive
  <2>5. Cardinality(ActiveIds') = Cardinality(ActiveIds) + 1
    BY <2>3, <2>4, ActiveFinite, FS_AddElement
  <2>6. Cardinality(ActiveIds) \in Nat BY ActiveCard
  <2>7. /\ active_count <= Cardinality(ActiveIds)
        /\ ~reopened => active_count = Cardinality(ActiveIds)
    BY DEF ActiveCountAgrees, ActiveIds
  <2>8. /\ active_count' <= Cardinality(ActiveIds')
        /\ active_count = Cardinality(ActiveIds) => active_count' = Cardinality(ActiveIds')
    BY <1>0, <2>1, <2>5, <2>6, <2>7
  <2> QED BY <2>1, <2>7, <2>8 DEF ActiveCountAgrees, ActiveIds
<1>5. CASE DropPool
  BY <1>1, <1>5 DEF DropPool, slotVars
<1> QED BY <1>1, <1>2, <1>3, <1>4, <1>5 DEF StepKinds

\* conn_count is the number of active connections through every path on which
\* one can fail, for every number of slots, and never more than that once a
\* Closed connection was opened again.
THEOREM PoolActiveCountAgrees == Spec => []ActiveCountAgrees
<1>1. Init => ActiveCountAgrees
  <2> SUFFICES ASSUME Init PROVE ActiveCountAgrees OBVIOUS
  <2>1. active_count = 0 BY DEF Init
  <2>2. ActiveIds = {} BY DEF Init, ActiveIds, LiveIds, IsLive
  <2>3. Cardinality(ActiveIds) = 0 BY <2>2, FS_EmptySet
  <2> QED BY <2>1, <2>3 DEF ActiveCountAgrees, ActiveIds
<1>2. ActiveCountAgrees /\ (Inv /\ OpsInv) /\ [Next]_vars => ActiveCountAgrees'
  BY NextKinds, CountStep
<1> QED BY <1>1, <1>2, PoolOpsInvariant, PTL DEF Spec

\* The groups of the rings that are owned, and the inductive form of RingsOwned:
\* a group that was left behind by a failed connect has no other ring.
Owned == {conns[s].bgid : s \in RingOwners}

RingsInv ==
    /\ RingsOwned
    /\ phase # "dropped" => \A s \in RingOwners : conns[s].bgid \notin leaked

\* Every step registers and unregisters rings with their connections, or notes
\* that the kernel refused.
LEMMA RingsStep ==
    ASSUME Inv, RingsInv, StepKinds
    PROVE  RingsInv'
<1>0. /\ conns \in [ConnIds -> Conn \cup {None}]
      /\ RingOwners = {t \in LiveIds : conns[t].ring}
      /\ RingOwners' = {t \in LiveIds' : conns'[t].ring}
  BY DEF Inv, SlotType, RingOwners, LiveIds
<1>1. CASE UNCHANGED <<conns, ringVars>> /\ (phase' = "dropped" <=> phase = "dropped")
  BY <1>1 DEF RingsInv, RingsOwned, RingOwners, IsLive, ringVars
<1>2. SUFFICES ASSUME phase # "dropped", registered = Owned \cup refused \cup leaked,
                      \A s \in RingOwners : conns[s].bgid \notin leaked, Alive \/ DropPool
               PROVE  RingsInv'
  BY <1>1 DEF RingsInv, RingsOwned, Owned, StepKinds, Alive, DropPool
<1>3. ASSUME Alive, registered' = Owned' \cup refused' \cup leaked',
             \A s \in RingOwners' : conns'[s].bgid \notin leaked'
      PROVE  RingsInv'
  BY <1>3 DEF RingsInv, RingsOwned, Owned, Alive
<1>4. \A t, u \in LiveIds : conns[t].bgid = conns[u].bgid => t = u
  BY DEF Inv, BgidInv, BgidExclusive
<1>5. ASSUME Alive, NEW s \in LiveIds, NEW k2, Moved(s, k2) PROVE RingsInv'
  <2>1. /\ conns' = [conns EXCEPT ![s] = k2] /\ k2 \in Conn /\ s \in ConnIds
        /\ k2.bgid = conns[s].bgid /\ RingMoved(conns[s], k2)
    BY <1>5 DEF Moved, Same, LiveIds
  <2>2. k2 # None BY <2>1, PoolAssumption
  <2>3. LiveIds' = LiveIds BY <1>0, <2>1, <2>2 DEF LiveIds, IsLive
  <2>4. conns'[s] = k2 /\ \A t \in LiveIds : t # s => conns'[t] = conns[t]
    BY <1>0, <2>1 DEF LiveIds
  <2>5. CASE k2.ring = conns[s].ring
    <3>1. RingOwners' = RingOwners /\ \A t \in RingOwners : conns'[t].bgid = conns[t].bgid
      BY <1>0, <2>1, <2>3, <2>4, <2>5
    <3>2. Owned' = Owned BY <3>1 DEF Owned
    <3>3. conns[s].bgid \notin registered => \A t \in RingOwners : conns[t].bgid # conns[s].bgid
      BY <1>2 DEF Owned
    <3>4. UNCHANGED ringVars \/ /\ conns[s].bgid \notin registered
                                /\ registered' = registered \cup {conns[s].bgid}
                                /\ refused' = refused
                                /\ leaked' = leaked \cup {conns[s].bgid} \/ k2.ring
      BY <2>1 DEF RingMoved
    <3>5. CASE UNCHANGED ringVars
      BY <1>2, <1>3, <1>5, <3>1, <3>2, <3>5 DEF ringVars
    <3>6. CASE ~UNCHANGED ringVars
      <4>1. leaked' = leaked \cup {conns[s].bgid} BY <1>0, <2>5, <3>3, <3>4, <3>6
      <4> QED BY <1>2, <1>3, <1>5, <3>1, <3>2, <3>3, <3>4, <3>6, <4>1
    <3> QED BY <3>5, <3>6
  <2>6. CASE k2.ring # conns[s].ring
    <3>1. /\ k2.ring /\ conns[s].bgid \notin registered
          /\ registered' = registered \cup {conns[s].bgid}
          /\ refused' = refused /\ leaked' = leaked
      BY <2>1, <2>6 DEF RingMoved
    <3>2. /\ RingOwners' = RingOwners \cup {s}
          /\ \A t \in RingOwners' : conns'[t].bgid = conns[t].bgid
      BY <1>0, <2>1, <2>3, <2>4, <3>1
    <3>3. Owned' = Owned \cup {conns[s].bgid} BY <3>2 DEF Owned
    <3> QED BY <1>2, <1>3, <1>5, <3>1, <3>2, <3>3
  <2> QED BY <2>5, <2>6
<1>6. ASSUME Alive, NEW s \in LiveIds, RetireSlot(s) PROVE RingsInv'
  <2>1. conns' = [conns EXCEPT ![s] = None] /\ s \in ConnIds /\ leaked' = leaked
    BY <1>6 DEF RetireSlot, LiveIds
  <2>2. LiveIds' = LiveIds \ {s} /\ \A t \in LiveIds' : conns'[t] = conns[t]
    BY <1>0, <2>1 DEF LiveIds, IsLive
  <2>3. RingOwners' = RingOwners \ {s} /\ \A t \in RingOwners' : conns'[t].bgid = conns[t].bgid
    BY <1>0, <2>2
  <2>4. CASE ~conns[s].ring
    <3>1. registered' = registered /\ refused' = refused BY <1>6, <2>4 DEF RetireSlot
    <3>2. Owned' = Owned BY <1>0, <2>3, <2>4 DEF Owned
    <3> QED BY <1>2, <1>3, <1>6, <2>1, <2>3, <3>1, <3>2
  <2>5. CASE conns[s].ring
    <3>1. Owned' = Owned \ {conns[s].bgid} /\ conns[s].bgid \in Owned
      BY <1>0, <1>4, <2>3, <2>5 DEF Owned
    <3>2. conns[s].bgid \notin leaked /\ conns[s].bgid \notin refused
      BY <1>0, <1>2, <2>5 DEF Inv, BgidInv, BgidExclusive
    <3>3. \/ registered' = registered \ {conns[s].bgid} /\ refused' = refused
          \/ registered' = registered /\ refused' = refused \cup {conns[s].bgid}
      BY <1>6, <2>5 DEF RetireSlot
    <3>4. registered' = Owned' \cup refused' \cup leaked'
      BY <1>2, <2>1, <3>1, <3>2, <3>3
    <3> QED BY <1>2, <1>3, <1>6, <2>1, <2>3, <3>4
  <2> QED BY <2>4, <2>5
<1>7. ASSUME Alive, NEW s \in ConnIds \ LiveIds, Filled(s) PROVE RingsInv'
  <2>1. PICK k2 : /\ k2 \in Conn /\ ~k2.ring
                  /\ conns' = [conns EXCEPT ![s] = k2]
                  /\ UNCHANGED ringVars
    BY <1>7 DEF Filled
  <2>2. k2 # None BY <2>1, PoolAssumption
  <2>3. LiveIds' = LiveIds \cup {s} BY <1>0, <2>1, <2>2 DEF LiveIds, IsLive
  <2>4. conns'[s] = k2 /\ \A t \in LiveIds : conns'[t] = conns[t]
    BY <1>0, <2>1 DEF LiveIds
  <2>5. RingOwners' = RingOwners /\ \A t \in RingOwners : conns'[t].bgid = conns[t].bgid
    BY <1>0, <2>1, <2>3, <2>4
  <2>6. Owned' = Owned BY <2>5 DEF Owned
  <2> QED BY <1>2, <1>3, <1>7, <2>1, <2>5, <2>6 DEF ringVars
<1>8. CASE DropPool
  <2>1. PICK kept \in SUBSET {b \in Owned : UnregisterMayFail} :
          /\ registered' = registered \ (Owned \ kept)
          /\ leaked' = leaked \cup kept
    BY <1>8 DEF DropPool, Owned
  <2>2. phase' = "dropped" /\ refused' = refused BY <1>8 DEF DropPool, slotVars
  <2>3. Owned \cap refused = {} /\ Owned \cap leaked = {}
    BY <1>0, <1>2 DEF Owned, Inv, BgidInv, BgidExclusive
  <2>4. registered' = refused' \cup leaked' BY <1>2, <2>1, <2>2, <2>3
  <2> QED BY <2>2, <2>4 DEF RingsInv, RingsOwned
<1> QED BY <1>1, <1>2, <1>5, <1>6, <1>7, <1>8 DEF StepKinds

\* The registered buffer groups are exactly those of the live connections that
\* own a ring and those the kernel refused to unregister; no other is left when a
\* connection is removed or the pool dropped, for every number of slots and groups.
THEOREM PoolRingsOwned == Spec => []RingsOwned
<1>1. Init => RingsInv BY DEF Init, RingsInv, RingsOwned, RingOwners, IsLive
<1>2. RingsInv /\ (Inv /\ OpsInv) /\ [Next]_vars => RingsInv' BY NextKinds, RingsStep
<1>3. RingsInv => RingsOwned BY DEF RingsInv
<1> QED BY <1>1, <1>2, <1>3, PoolOpsInvariant, PTL DEF Spec

=============================================================================
