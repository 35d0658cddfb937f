--------------------------- MODULE IngressProofs ----------------------------
(***************************************************************************)
(* What a connection tells of the data it receives is true, for every       *)
(* content of the chunks, every batch capacity, sampling rate and number of *)
(* completions: marked messages are numbered without a gap and in order,    *)
(* their times decompose, the histograms agree with each other, every       *)
(* sample is in one interval, and the counters say what the sinks got.      *)
(***************************************************************************)
EXTENDS Ingress, BasicLemmas, FiniteSetTheorems

-----------------------------------------------------------------------------
(* Types.                                                                   *)

Configs == [tls : BOOLEAN, bundle : BOOLEAN, copy : Nat]
Cqes == [kind : {"data", "exhausted", "eof"}, slices : Seq(Nat)]
Events == [op : Frames, meta : Meta]
Locals == [single : BOOLEAN, ws_error : BOOLEAN, chunks : Nat, bytes : Nat, text : Nat,
           binary : Nat, chunk_index : 0 .. IndexMax]
Chunks == [base : Meta, items : Seq(Items), batch : Seq(Events), message_index : 0 .. IndexMax,
           prior : Nat, started : Nat, events : Nat, spent : Nat]
Truths == [text : Nat, binary : Nat, bytes : Nat, general : Nat, bad : BOOLEAN]
Histograms == [Stages -> [len : Nat, total : Nat]]

\* The connection and the pump in progress.
ConnType ==
    /\ cfg \in Configs
    /\ closed \in BOOLEAN /\ ws_open \in BOOLEAN /\ tls_failed \in BOOLEAN
    /\ tls_failed => cfg.tls
    /\ clock \in 0 .. MaxClock
    /\ flavour \in Flavours
    /\ pc \in {"ready", "dispatch", "handler", "chunk", "call", "sink"}
    /\ marked_recv_sequence \in Nat /\ marked_message_sequence \in Nat
    /\ buf \in Seq(Cqes) /\ run \in Seq(Cqes) /\ slices \in Seq(Nat)

\* The counters, those of the handler in progress, and what they are about.
CountType ==
    /\ ingress_stats \in IngressStats
    /\ local \in Locals
    /\ truth \in Truths

\* The metadata, the chunk in progress and the last marked message.
MetaType ==
    /\ recv_meta \in Meta
    /\ chunk \in Chunks
    /\ delivered \in Seq(Meta) /\ Len(delivered) <= 1

HistType == cumulative \in Histograms /\ interval \in Histograms /\ exported \in Histograms

\* Where a handler and its drain are; a call of the sink began in the past.
PhaseInv ==
    /\ Len(chunk.batch) <= BatchCapacity
    /\ chunk.started <= clock
    /\ pc = "sink" => chunk.batch = <<>>
    /\ pc = "call" => Len(chunk.batch) = 1
    /\ pc \notin {"chunk", "call", "sink"} => chunk = NoChunk
    /\ pc \in {"ready", "dispatch"} => run = <<>> /\ slices = <<>>

LEMMA Bounds ==
    /\ BatchCapacity \in Nat \ {0} /\ IndexMax \in Nat \ {0} /\ MaxClock \in Nat
    /\ CopyMaxBytes \in Nat /\ MaxCqes \in Nat /\ MaxRun \in Nat
    /\ 0 \in 0 .. IndexMax
BY IngressAssumption

LEMMA ItemsRange == \A s \in Contents : s \in Seq(Items)
BY IngressAssumption

\* One counter at a time.
LEMMA StatsExcept ==
    ASSUME NEW s \in IngressStats, NEW n \in Nat
    PROVE  /\ [s EXCEPT !.recv_data_cqes = n] \in IngressStats
           /\ [s EXCEPT !.recv_bytes = n] \in IngressStats
           /\ [s EXCEPT !.recv_ring_exhaustions = n] \in IngressStats
           /\ [s EXCEPT !.plain_recv_batches = n] \in IngressStats
           /\ [s EXCEPT !.plain_recv_batch_cqes = n] \in IngressStats
           /\ [s EXCEPT !.plain_recv_copied_batches = n] \in IngressStats
           /\ [s EXCEPT !.plain_recv_copied_bytes = n] \in IngressStats
           /\ [s EXCEPT !.plaintext_source_chunks = n] \in IngressStats
           /\ [s EXCEPT !.plaintext_bytes = n] \in IngressStats
           /\ [s EXCEPT !.ws_data_drains = n] \in IngressStats
           /\ [s EXCEPT !.ws_data_drain_skips = n] \in IngressStats
           /\ [s EXCEPT !.ws_data_events = n] \in IngressStats
           /\ [s EXCEPT !.ws_text_events = n] \in IngressStats
           /\ [s EXCEPT !.ws_binary_events = n] \in IngressStats
BY DEF IngressStats

LEMMA StatsFields ==
    ASSUME NEW s \in IngressStats
    PROVE  /\ s.recv_data_cqes \in Nat /\ s.recv_bytes \in Nat /\ s.recv_ring_exhaustions \in Nat
           /\ s.plain_recv_batches \in Nat /\ s.plain_recv_batch_cqes \in Nat
           /\ s.plain_recv_copied_batches \in Nat /\ s.plain_recv_copied_bytes \in Nat
           /\ s.plaintext_source_chunks \in Nat /\ s.plaintext_bytes \in Nat
           /\ s.ws_data_drains \in Nat /\ s.ws_data_drain_skips \in Nat
           /\ s.ws_data_events \in Nat /\ s.ws_text_events \in Nat /\ s.ws_binary_events \in Nat
BY DEF IngressStats

LEMMA LocalExcept ==
    ASSUME NEW s \in Locals, NEW n \in Nat, NEW b \in BOOLEAN, NEW i \in 0 .. IndexMax
    PROVE  /\ [s EXCEPT !.single = b] \in Locals
           /\ [s EXCEPT !.ws_error = b] \in Locals
           /\ [s EXCEPT !.chunks = n] \in Locals
           /\ [s EXCEPT !.bytes = n] \in Locals
           /\ [s EXCEPT !.text = n] \in Locals
           /\ [s EXCEPT !.binary = n] \in Locals
           /\ [s EXCEPT !.chunk_index = i] \in Locals
BY DEF Locals

LEMMA LocalFields ==
    ASSUME NEW s \in Locals
    PROVE  /\ s.single \in BOOLEAN /\ s.ws_error \in BOOLEAN /\ s.chunks \in Nat /\ s.bytes \in Nat
           /\ s.text \in Nat /\ s.binary \in Nat /\ s.chunk_index \in 0 .. IndexMax
BY DEF Locals

LEMMA TruthExcept ==
    ASSUME NEW s \in Truths, NEW n \in Nat, NEW b \in BOOLEAN
    PROVE  /\ [s EXCEPT !.text = n] \in Truths
           /\ [s EXCEPT !.binary = n] \in Truths
           /\ [s EXCEPT !.bytes = n] \in Truths
           /\ [s EXCEPT !.general = n] \in Truths
           /\ [s EXCEPT !.bad = b] \in Truths
BY DEF Truths

LEMMA TruthFields ==
    ASSUME NEW s \in Truths
    PROVE  /\ s.text \in Nat /\ s.binary \in Nat /\ s.bytes \in Nat /\ s.general \in Nat
           /\ s.bad \in BOOLEAN
BY DEF Truths

LEMMA ChunkExcept ==
    ASSUME NEW s \in Chunks, NEW m \in Meta, NEW items \in Seq(Items), NEW batch \in Seq(Events),
           NEW i \in 0 .. IndexMax, NEW n \in Nat
    PROVE  /\ [s EXCEPT !.base = m] \in Chunks
           /\ [s EXCEPT !.items = items] \in Chunks
           /\ [s EXCEPT !.batch = batch] \in Chunks
           /\ [s EXCEPT !.message_index = i] \in Chunks
           /\ [s EXCEPT !.prior = n] \in Chunks
           /\ [s EXCEPT !.started = n] \in Chunks
           /\ [s EXCEPT !.events = n] \in Chunks
           /\ [s EXCEPT !.spent = n] \in Chunks
BY DEF Chunks

LEMMA ChunkFields ==
    ASSUME NEW s \in Chunks
    PROVE  /\ s.base \in Meta /\ s.items \in Seq(Items) /\ s.batch \in Seq(Events)
           /\ s.message_index \in 0 .. IndexMax /\ s.prior \in Nat /\ s.started \in Nat
           /\ s.events \in Nat /\ s.spent \in Nat
BY DEF Chunks

LEMMA MetaExcept ==
    ASSUME NEW s \in Meta, NEW b \in BOOLEAN, NEW n \in Nat, NEW i \in 0 .. IndexMax
    PROVE  /\ [s EXCEPT !.sampled = b] \in Meta
           /\ [s EXCEPT !.recv_sequence = n] \in Meta
           /\ [s EXCEPT !.recv = n] \in Meta
           /\ [s EXCEPT !.plaintext = n] \in Meta
           /\ [s EXCEPT !.ws = n] \in Meta
           /\ [s EXCEPT !.message_sequence = n] \in Meta
           /\ [s EXCEPT !.chunk_index = i] \in Meta
           /\ [s EXCEPT !.message_index = i] \in Meta
           /\ [s EXCEPT !.prior = n] \in Meta
BY DEF Meta

LEMMA MetaFields ==
    ASSUME NEW s \in Meta
    PROVE  /\ s.sampled \in BOOLEAN /\ s.recv_sequence \in Nat /\ s.recv \in Nat
           /\ s.plaintext \in Nat /\ s.ws \in Nat /\ s.message_sequence \in Nat
           /\ s.chunk_index \in 0 .. IndexMax /\ s.message_index \in 0 .. IndexMax
           /\ s.prior \in Nat
BY DEF Meta

LEMMA UnmarkedType ==
    /\ Unmarked \in Meta
    /\ Unmarked.recv = 0 /\ Unmarked.plaintext = 0 /\ Unmarked.ws = 0 /\ Unmarked.prior = 0
    /\ ~Unmarked.sampled
BY Bounds DEF Unmarked, Meta

LEMMA NoChunkType ==
    /\ NoChunk \in Chunks
    /\ NoChunk.base = Unmarked /\ NoChunk.items = <<>> /\ NoChunk.batch = <<>>
    /\ NoChunk.message_index = 0 /\ NoChunk.prior = 0 /\ NoChunk.started = 0
    /\ NoChunk.events = 0 /\ NoChunk.spent = 0
BY Bounds, UnmarkedType, EmptySeq DEF NoChunk, Chunks

LEMMA NoLocalType ==
    /\ NoLocal \in Locals
    /\ NoLocal.chunks = 0 /\ NoLocal.bytes = 0 /\ NoLocal.text = 0 /\ NoLocal.binary = 0
    /\ NoLocal.chunk_index = 0 /\ ~NoLocal.ws_error
BY Bounds DEF NoLocal, Locals

LEMMA NextIndexType == \A i \in 0 .. IndexMax : NextIndex(i) \in 0 .. IndexMax
BY Bounds DEF NextIndex

-----------------------------------------------------------------------------
(* Sums.                                                                    *)

\* f adds up the elements of s.
Sums(f, s) ==
    /\ f \in [0 .. Len(s) -> Nat]
    /\ f[0] = 0
    /\ \A i \in 1 .. Len(s) : f[i] = f[i - 1] + s[i]

\* The recursive definition of Total has a solution.
LEMMA TotalSums ==
    ASSUME NEW s \in Seq(Nat)
    PROVE  \E f : Sums(f, s) /\ Total(s) = f[Len(s)]
<1>1. Len(s) \in Nat /\ \A i \in 1 .. Len(s) : s[i] \in Nat
  BY LenProperties, ElementOfSeq
<1> DEFINE step == [x \in Nat \X Nat |-> x[1] + IF x[2] \in 1 .. Len(s) THEN s[x[2]] ELSE 0]
           body(f) == [i \in 0 .. Len(s) |-> IF i = 0 THEN 0 ELSE f[i - 1] + s[i]]
<1>2. step \in [Nat \X Nat -> Nat]
  BY <1>1
<1>3. PICK f \in [0 .. Len(s) -> Nat] :
         f[0] = 0 /\ \A i \in 1 .. Len(s) : f[i] = step[<<f[i - 1], i>>]
  <2> DEFINE N == Len(s)
  <2>1. N \in Nat /\ 0 \in Nat
    BY <1>1
  <2> HIDE DEF step, N
  <2>2. \E f : Recursion(f, Nat, 0, N, step)
    BY <1>2, <2>1, RecursiveFunction
  <2> QED  BY <2>2 DEF N, Recursion
<1>4. ASSUME NEW i \in 1 .. Len(s) PROVE f[i] = f[i - 1] + s[i]
  <2>1. f[i - 1] \in Nat /\ i \in Nat
    BY <1>1, <1>3
  <2>2. step[<<f[i - 1], i>>] = f[i - 1] + s[i]
    BY <1>1, <2>1
  <2> QED  BY <1>3, <2>2
<1>5. f = body(f)
  <2>1. f = [i \in 0 .. Len(s) |-> f[i]]
    BY <1>3
  <2>2. ASSUME NEW i \in 0 .. Len(s) PROVE f[i] = body(f)[i]
    <3>1. CASE i = 0
      BY <1>3, <3>1
    <3>2. CASE i # 0
      <4>1. i \in 1 .. Len(s)
        BY <1>1, <3>2
      <4> HIDE DEF step
      <4> QED  BY <1>4, <3>2, <4>1
    <3> QED  BY <3>1, <3>2
  <2> QED  BY <2>1, <2>2
<1> DEFINE c == CHOOSE g : g = body(g)
<1>6. c = body(c)
  <2> HIDE DEF body
  <2> QED  BY <1>5
<1>7. Total(s) = c[Len(s)]
  BY DEF Total
<1> HIDE DEF c
<1>8. c[0] = 0
  <2>1. body(c)[0] = 0
    BY <1>1
  <2> QED  BY <1>6, <2>1
<1>9. ASSUME NEW i \in 1 .. Len(s) PROVE c[i] = c[i - 1] + s[i]
  <2>1. body(c)[i] = c[i - 1] + s[i]
    BY <1>1
  <2> HIDE DEF body
  <2> QED  BY <1>6, <2>1
<1>10. c = [i \in 0 .. Len(s) |-> c[i]]
  <2>1. DOMAIN c = 0 .. Len(s)
    BY <1>6
  <2> QED  BY <1>6, <2>1
<1>11. \A i \in Nat : i <= Len(s) => c[i] \in Nat
  <2> DEFINE T == {i \in Nat : i <= Len(s) => c[i] \in Nat}
  <2>1. 0 \in T
    BY <1>8
  <2>2. ASSUME NEW n \in Nat, n \in T PROVE n + 1 \in T
    <3> SUFFICES ASSUME n + 1 <= Len(s) PROVE c[n + 1] \in Nat
      OBVIOUS
    <3>1. c[n] \in Nat /\ n + 1 \in 1 .. Len(s) /\ (n + 1) - 1 = n
      BY <1>1, <2>2
    <3>2. c[n + 1] = c[n] + s[n + 1] /\ s[n + 1] \in Nat
      BY <1>1, <1>9, <3>1
    <3> QED  BY <3>1, <3>2
  <2> HIDE DEF T
  <2>3. Nat \subseteq T
    BY <2>1, <2>2, Induct
  <2> QED  BY <2>3 DEF T
<1>12. Sums(c, s)
  <2>1. \A i \in 0 .. Len(s) : c[i] \in Nat
    BY <1>1, <1>11
  <2>2. c \in [0 .. Len(s) -> Nat]
    BY <1>10, <2>1
  <2> QED  BY <1>8, <1>9, <2>2 DEF Sums
<1> QED  BY <1>7, <1>12

LEMMA TotalType ==
    ASSUME NEW s \in Seq(Nat)
    PROVE  Total(s) \in Nat
<1>1. PICK f : Sums(f, s) /\ Total(s) = f[Len(s)]
  BY TotalSums
<1>2. Len(s) \in 0 .. Len(s)
  BY LenProperties
<1> QED  BY <1>1, <1>2 DEF Sums

LEMMA TotalEmpty == Total(<<>>) = 0
<1>1. <<>> \in Seq(Nat) /\ Len(<<>>) = 0
  BY EmptySeq
<1>2. PICK f : Sums(f, <<>>) /\ Total(<<>>) = f[Len(<<>>)]
  BY <1>1, TotalSums
<1> QED  BY <1>1, <1>2 DEF Sums

LEMMA TotalSingle ==
    ASSUME NEW n \in Nat
    PROVE  Total(<<n>>) = n
<1> DEFINE s == <<n>>
<1>1. s \in Seq(Nat) /\ Len(s) = 1 /\ s[1] = n
  BY Single
<1> HIDE DEF s
<1>2. PICK f : Sums(f, s) /\ Total(s) = f[Len(s)]
  BY <1>1, TotalSums
<1>3. f[0] = 0 /\ f[1] = f[0] + s[1]
  BY <1>1, <1>2 DEF Sums
<1> QED  BY <1>1, <1>2, <1>3 DEF s

\* The first element and the sum of the others.
LEMMA TotalTail ==
    ASSUME NEW s \in Seq(Nat), s # <<>>
    PROVE  /\ Tail(s) \in Seq(Nat) /\ Head(s) \in Nat
           /\ Total(s) = Head(s) + Total(Tail(s))
<1> DEFINE t == Tail(s)
<1>1. /\ t \in Seq(Nat) /\ Len(t) \in Nat /\ Len(s) \in Nat /\ Len(s) = Len(t) + 1
      /\ \A i \in 1 .. Len(t) : t[i] = s[i + 1]
      /\ Head(s) = s[1] /\ Head(s) \in Nat
  BY HeadTailProperties, LenProperties
<1> HIDE DEF t
<1>2. PICK f : Sums(f, s) /\ Total(s) = f[Len(s)]
  BY TotalSums
<1>3. PICK g : Sums(g, t) /\ Total(t) = g[Len(t)]
  BY <1>1, TotalSums
<1> DEFINE T == {n \in Nat : n <= Len(t) => f[n + 1] = s[1] + g[n]}
<1>4. 0 \in T
  <2>1. 1 \in 1 .. Len(s) /\ 1 - 1 = 0
    BY <1>1
  <2>2. f[0] = 0 /\ f[1] = f[0] + s[1] /\ g[0] = 0
    BY <1>2, <1>3, <2>1 DEF Sums
  <2> QED  BY <1>1, <2>2
<1>5. ASSUME NEW n \in Nat, n \in T PROVE n + 1 \in T
  <2> SUFFICES ASSUME n + 1 <= Len(t) PROVE f[(n + 1) + 1] = s[1] + g[n + 1]
    OBVIOUS
  <2>1. /\ n + 2 \in 1 .. Len(s) /\ n + 1 \in 1 .. Len(t) /\ (n + 2) - 1 = n + 1
        /\ (n + 1) - 1 = n /\ (n + 1) + 1 = n + 2 /\ f[n + 1] = s[1] + g[n]
        /\ n \in 0 .. Len(t)
    BY <1>1, <1>5
  <2>2. f[n + 2] = f[n + 1] + s[n + 2]
    BY <1>2, <2>1 DEF Sums
  <2>3. g[n + 1] = g[n] + t[n + 1] /\ t[n + 1] = s[n + 2] /\ g[n] \in Nat
    BY <1>1, <1>3, <2>1 DEF Sums
  <2>4. s[n + 2] \in Nat
    BY <2>1, ElementOfSeq
  <2> QED  BY <1>1, <2>1, <2>2, <2>3, <2>4, SMTT(40)
<1> HIDE DEF T
<1>6. Nat \subseteq T
  BY <1>4, <1>5, Induct
<1>7. f[Len(t) + 1] = s[1] + g[Len(t)]
  BY <1>1, <1>6 DEF T
<1> QED  BY <1>1, <1>2, <1>3, <1>7 DEF t


-----------------------------------------------------------------------------
(* The counters.                                                            *)

\* The bytes of the completions.
Bytes(c) == Total([i \in 1 .. Len(c) |-> Total(c[i].slices)])

LEMMA BytesType ==
    ASSUME NEW c \in Seq(Cqes)
    PROVE  Bytes(c) \in Nat /\ Len(c) \in Nat
<1>1. Len(c) \in Nat
  BY LenProperties
<1>2. ASSUME NEW i \in 1 .. Len(c) PROVE Total(c[i].slices) \in Nat
  <2>1. c[i] \in Cqes
    BY ElementOfSeq
  <2>2. c[i].slices \in Seq(Nat)
    BY <2>1 DEF Cqes
  <2> QED  BY <2>2, TotalType
<1> DEFINE b == [i \in 1 .. Len(c) |-> Total(c[i].slices)]
<1>3. b \in Seq(Nat)
  BY <1>1, <1>2
<1> HIDE DEF b
<1>4. Total(b) \in Nat
  BY <1>3, TotalType
<1> QED  BY <1>1, <1>4 DEF Bytes, b

LEMMA BytesSingle ==
    ASSUME NEW c \in Cqes
    PROVE  /\ <<c>> \in Seq(Cqes) /\ Len(<<c>>) = 1
           /\ c.slices \in Seq(Nat) /\ Total(c.slices) \in Nat
           /\ Bytes(<<c>>) = Total(c.slices)
<1>1. <<c>> \in Seq(Cqes) /\ Len(<<c>>) = 1 /\ <<c>>[1] = c
  BY Single
<1>2. c.slices \in Seq(Nat)
  BY DEF Cqes
<1>3. Total(c.slices) \in Nat
  BY <1>2, TotalType
<1> DEFINE b == [i \in 1 .. Len(<<c>>) |-> Total(<<c>>[i].slices)]
<1>4. b = <<Total(c.slices)>>
  <2>1. b = [i \in 1 .. 1 |-> Total(c.slices)]
    BY <1>1
  <2> QED  BY <2>1
<1>5. Total(<<Total(c.slices)>>) = Total(c.slices)
  BY <1>3, TotalSingle
<1>6. Total(b) = Total(c.slices)
  <2> HIDE DEF b
  <2> QED  BY <1>4, <1>5
<1> QED  BY <1>1, <1>2, <1>3, <1>6 DEF Bytes

LEMMA RecvDataStep ==
    ASSUME NEW s \in IngressStats, NEW c \in Seq(Cqes), NEW t, t = RecvData(s, c)
    PROVE  /\ t \in IngressStats
           /\ t.recv_data_cqes = s.recv_data_cqes + Len(c)
           /\ t.recv_bytes = s.recv_bytes + Bytes(c)
           /\ t.plain_recv_batch_cqes = s.plain_recv_batch_cqes
           /\ t.plain_recv_copied_bytes = s.plain_recv_copied_bytes
           /\ t.plaintext_source_chunks = s.plaintext_source_chunks
           /\ t.plaintext_bytes = s.plaintext_bytes
           /\ t.ws_data_drains = s.ws_data_drains
           /\ t.ws_data_events = s.ws_data_events
           /\ t.ws_text_events = s.ws_text_events
           /\ t.ws_binary_events = s.ws_binary_events
<1>1. PICK n : n = s.recv_data_cqes + Len(c)
  OBVIOUS
<1>2. PICK b : b = s.recv_bytes + Bytes(c)
  OBVIOUS
<1>3. n \in Nat /\ b \in Nat
  BY <1>1, <1>2, BytesType, StatsFields
<1>4. t = [s EXCEPT !.recv_data_cqes = n, !.recv_bytes = b]
  BY <1>1, <1>2 DEF RecvData, Bytes
<1>5. PICK u : u = [s EXCEPT !.recv_data_cqes = n]
  OBVIOUS
<1>6. u \in IngressStats
  BY <1>3, <1>5, StatsExcept
<1>7. t = [u EXCEPT !.recv_bytes = b]
  BY <1>4, <1>5
<1>8. t \in IngressStats
  BY <1>3, <1>6, <1>7, StatsExcept
<1> QED  BY <1>1, <1>2, <1>4, <1>8 DEF IngressStats

LEMMA ExhaustionStep ==
    ASSUME NEW s \in IngressStats, NEW t, t = RecvRingExhaustion(s)
    PROVE  /\ t \in IngressStats
           /\ t.recv_data_cqes = s.recv_data_cqes
           /\ t.recv_bytes = s.recv_bytes
           /\ t.plain_recv_batch_cqes = s.plain_recv_batch_cqes
           /\ t.plain_recv_copied_bytes = s.plain_recv_copied_bytes
           /\ t.plaintext_source_chunks = s.plaintext_source_chunks
           /\ t.plaintext_bytes = s.plaintext_bytes
           /\ t.ws_data_drains = s.ws_data_drains
           /\ t.ws_data_events = s.ws_data_events
           /\ t.ws_text_events = s.ws_text_events
           /\ t.ws_binary_events = s.ws_binary_events
BY DEF IngressStats, RecvRingExhaustion

LEMMA PlainRecvBatchStep ==
    ASSUME NEW s \in IngressStats, NEW n \in Nat, NEW b \in Nat, NEW t,
           t = PlainRecvBatch(s, n, b)
    PROVE  /\ t \in IngressStats
           /\ t.recv_data_cqes = s.recv_data_cqes
           /\ t.recv_bytes = s.recv_bytes
           /\ t.plain_recv_batch_cqes = s.plain_recv_batch_cqes + n
           /\ t.plain_recv_copied_bytes = s.plain_recv_copied_bytes + b
           /\ t.plaintext_source_chunks = s.plaintext_source_chunks
           /\ t.plaintext_bytes = s.plaintext_bytes
           /\ t.ws_data_drains = s.ws_data_drains
           /\ t.ws_data_events = s.ws_data_events
           /\ t.ws_text_events = s.ws_text_events
           /\ t.ws_binary_events = s.ws_binary_events
<1>1. PICK n1 : n1 = s.plain_recv_batches + 1
  OBVIOUS
<1>2. PICK n2 : n2 = s.plain_recv_batch_cqes + n
  OBVIOUS
<1>3. PICK n3 : n3 = IF b > 0 THEN s.plain_recv_copied_batches + 1
                     ELSE s.plain_recv_copied_batches
  OBVIOUS
<1>4. PICK n4 : n4 = s.plain_recv_copied_bytes + b
  OBVIOUS
<1>5. n1 \in Nat /\ n2 \in Nat /\ n3 \in Nat /\ n4 \in Nat
  BY <1>1, <1>2, <1>3, <1>4, StatsFields
<1>6. t = [s EXCEPT !.plain_recv_batches = n1, !.plain_recv_batch_cqes = n2,
                    !.plain_recv_copied_batches = n3, !.plain_recv_copied_bytes = n4]
  BY <1>1, <1>2, <1>3, <1>4 DEF PlainRecvBatch
<1>7. PICK u1 : u1 = [s EXCEPT !.plain_recv_batches = n1]
  OBVIOUS
<1>8. PICK u2 : u2 = [u1 EXCEPT !.plain_recv_batch_cqes = n2]
  OBVIOUS
<1>9. PICK u3 : u3 = [u2 EXCEPT !.plain_recv_copied_batches = n3]
  OBVIOUS
<1>10. u1 \in IngressStats
  BY <1>5, <1>7, StatsExcept
<1>11. u2 \in IngressStats
  BY <1>5, <1>8, <1>10, StatsExcept
<1>12. u3 \in IngressStats
  BY <1>5, <1>9, <1>11, StatsExcept
<1>13. t = [u3 EXCEPT !.plain_recv_copied_bytes = n4]
  BY <1>6, <1>7, <1>8, <1>9
<1>14. t \in IngressStats
  BY <1>5, <1>12, <1>13, StatsExcept
<1> QED  BY <1>2, <1>4, <1>6, <1>14 DEF IngressStats

LEMMA DrainedStep ==
    ASSUME NEW s \in IngressStats, local \in Locals, NEW t, t = Drained(s)
    PROVE  /\ t \in IngressStats
           /\ t.recv_data_cqes = s.recv_data_cqes
           /\ t.recv_bytes = s.recv_bytes
           /\ t.plain_recv_batch_cqes = s.plain_recv_batch_cqes
           /\ t.plain_recv_copied_bytes = s.plain_recv_copied_bytes
           /\ t.plaintext_source_chunks = s.plaintext_source_chunks + local.chunks
           /\ t.plaintext_bytes = s.plaintext_bytes + local.bytes
           /\ t.ws_data_drains = s.ws_data_drains + local.chunks
           /\ t.ws_text_events = s.ws_text_events + local.text
           /\ t.ws_binary_events = s.ws_binary_events + local.binary
           /\ t.ws_data_events = s.ws_data_events + local.text + local.binary
<1>0. local.chunks \in Nat /\ local.bytes \in Nat /\ local.text \in Nat /\ local.binary \in Nat
  BY LocalFields
<1>1. PICK n1 : n1 = s.plaintext_source_chunks + local.chunks
  OBVIOUS
<1>2. PICK n2 : n2 = s.plaintext_bytes + local.bytes
  OBVIOUS
<1>3. PICK n3 : n3 = s.ws_data_drains + local.chunks
  OBVIOUS
<1>4. PICK n4 : n4 = IF cfg.tls /\ local.chunks = 0 THEN s.ws_data_drain_skips + 1
                     ELSE s.ws_data_drain_skips
  OBVIOUS
<1>5. PICK n5 : n5 = s.ws_text_events + local.text
  OBVIOUS
<1>6. PICK n6 : n6 = s.ws_binary_events + local.binary
  OBVIOUS
<1>7. PICK n7 : n7 = s.ws_data_events + local.text + local.binary
  OBVIOUS
<1>8. /\ n1 \in Nat /\ n2 \in Nat /\ n3 \in Nat /\ n4 \in Nat /\ n5 \in Nat /\ n6 \in Nat
      /\ n7 \in Nat
  BY <1>0, <1>1, <1>2, <1>3, <1>4, <1>5, <1>6, <1>7, StatsFields
<1>9. t = [s EXCEPT !.plaintext_source_chunks = n1, !.plaintext_bytes = n2, !.ws_data_drains = n3,
                    !.ws_data_drain_skips = n4, !.ws_text_events = n5, !.ws_binary_events = n6,
                    !.ws_data_events = n7]
  BY <1>1, <1>2, <1>3, <1>4, <1>5, <1>6, <1>7 DEF Drained
<1>10. PICK u1 : u1 = [s EXCEPT !.plaintext_source_chunks = n1]
  OBVIOUS
<1>11. PICK u2 : u2 = [u1 EXCEPT !.plaintext_bytes = n2]
  OBVIOUS
<1>12. PICK u3 : u3 = [u2 EXCEPT !.ws_data_drains = n3]
  OBVIOUS
<1>13. PICK u4 : u4 = [u3 EXCEPT !.ws_data_drain_skips = n4]
  OBVIOUS
<1>14. PICK u5 : u5 = [u4 EXCEPT !.ws_text_events = n5]
  OBVIOUS
<1>15. PICK u6 : u6 = [u5 EXCEPT !.ws_binary_events = n6]
  OBVIOUS
<1>16. u1 \in IngressStats
  BY <1>8, <1>10, StatsExcept
<1>17. u2 \in IngressStats
  BY <1>8, <1>11, <1>16, StatsExcept
<1>18. u3 \in IngressStats
  BY <1>8, <1>12, <1>17, StatsExcept
<1>19. u4 \in IngressStats
  BY <1>8, <1>13, <1>18, StatsExcept
<1>20. u5 \in IngressStats
  BY <1>8, <1>14, <1>19, StatsExcept
<1>21. u6 \in IngressStats
  BY <1>8, <1>15, <1>20, StatsExcept
<1>22. t = [u6 EXCEPT !.ws_data_events = n7]
  BY <1>9, <1>10, <1>11, <1>12, <1>13, <1>14, <1>15
<1>23. t \in IngressStats
  BY <1>8, <1>21, <1>22, StatsExcept
<1> QED  BY <1>1, <1>2, <1>3, <1>5, <1>6, <1>7, <1>9, <1>23 DEF IngressStats


-----------------------------------------------------------------------------
(* Metadata.                                                                *)

LEMMA SampleType == \A n : ShouldSample(n) \in BOOLEAN
BY DEF ShouldSample

\* recv_observed_now measures if the CQE is sampled, and numbers it.
LEMMA RecvObservedStep ==
    ASSUME clock \in Nat, marked_recv_sequence \in Nat, NEW m, m = RecvObserved
    PROVE  /\ m \in Meta
           /\ m.recv_sequence = marked_recv_sequence
           /\ m.sampled => m.recv = clock
           /\ ~m.sampled => m.recv = 0
           /\ m.plaintext = 0 /\ m.ws = 0 /\ m.prior = 0
<1>1. PICK b \in BOOLEAN : b = ShouldSample(marked_recv_sequence)
  BY SampleType
<1>2. PICK n : n = IF b THEN clock ELSE 0
  OBVIOUS
<1>3. n \in Nat
  BY <1>2
<1>4. m = [Unmarked EXCEPT !.sampled = b, !.recv_sequence = marked_recv_sequence, !.recv = n]
  BY <1>1, <1>2 DEF RecvObserved
<1>5. PICK u1 : u1 = [Unmarked EXCEPT !.sampled = b]
  OBVIOUS
<1>6. PICK u2 : u2 = [u1 EXCEPT !.recv_sequence = marked_recv_sequence]
  OBVIOUS
<1>7. u1 \in Meta
  BY <1>5, Bounds, MetaExcept, UnmarkedType
<1>8. u2 \in Meta
  BY <1>6, <1>7, Bounds, MetaExcept
<1>9. m = [u2 EXCEPT !.recv = n]
  BY <1>4, <1>5, <1>6
<1>10. m \in Meta
  BY <1>3, <1>8, <1>9, Bounds, MetaExcept
<1>11. /\ m.recv_sequence = marked_recv_sequence /\ m.recv = n
       /\ m.plaintext = Unmarked.plaintext /\ m.ws = Unmarked.ws /\ m.prior = Unmarked.prior
  BY <1>4, UnmarkedType DEF Meta
<1>12. m.sampled = b
  BY <1>4, UnmarkedType DEF Meta
<1> QED  BY <1>1, <1>2, <1>10, <1>11, <1>12, UnmarkedType

\* plaintext_ready_at, plaintext_ready_now: nothing but the time and the index.
LEMMA PlaintextReadyStep ==
    ASSUME clock \in Nat, recv_meta \in Meta, NEW i \in 0 .. IndexMax, NEW m,
           m = PlaintextReady(i)
    PROVE  /\ m \in Meta
           /\ m.sampled = recv_meta.sampled
           /\ m.recv_sequence = recv_meta.recv_sequence
           /\ m.recv = recv_meta.recv
           /\ m.chunk_index = i
           /\ m.sampled => m.plaintext \in {clock, m.recv}
           /\ ~m.sampled => m.plaintext = 0
           /\ m.ws = recv_meta.ws /\ m.prior = recv_meta.prior
<1>1. PICK n : n = IF ~recv_meta.sampled THEN 0 ELSE IF cfg.tls THEN clock ELSE recv_meta.recv
  OBVIOUS
<1>2. n \in Nat
  BY <1>1, MetaFields
<1>3. m = [recv_meta EXCEPT !.plaintext = n, !.chunk_index = i]
  BY <1>1 DEF PlaintextReady
<1>4. PICK u : u = [recv_meta EXCEPT !.plaintext = n]
  OBVIOUS
<1>5. u \in Meta
  BY <1>2, <1>4, Bounds, MetaExcept
<1>6. m = [u EXCEPT !.chunk_index = i]
  BY <1>3, <1>4
<1>7. m \in Meta
  BY <1>5, <1>6, <1>2, MetaExcept
<1>8. /\ m.recv_sequence = recv_meta.recv_sequence /\ m.recv = recv_meta.recv
      /\ m.plaintext = n /\ m.ws = recv_meta.ws /\ m.prior = recv_meta.prior /\ m.chunk_index = i
  BY <1>3 DEF Meta
<1>9. m.sampled = recv_meta.sampled
  BY <1>3 DEF Meta
<1> QED  BY <1>1, <1>7, <1>8, <1>9

\* next_marked_meta: the metadata of a message is that of its chunk, and its own number,
\* place and times.
LEMMA NextMetaStep ==
    ASSUME clock \in Nat, chunk \in Chunks, marked_message_sequence \in Nat, NEW m,
           m = NextMeta
    PROVE  /\ m \in Meta
           /\ m.sampled = chunk.base.sampled
           /\ m.recv_sequence = chunk.base.recv_sequence
           /\ m.chunk_index = chunk.base.chunk_index
           /\ m.recv = chunk.base.recv /\ m.plaintext = chunk.base.plaintext
           /\ m.message_sequence = marked_message_sequence
           /\ m.message_index = chunk.message_index
           /\ m.sampled => m.ws = clock /\ m.prior = chunk.prior
           /\ ~m.sampled => m.ws = 0 /\ m.prior = 0
<1>1. /\ chunk.base \in Meta /\ chunk.message_index \in 0 .. IndexMax /\ chunk.prior \in Nat
  BY ChunkFields
<1>2. PICK b : b = chunk.base
  OBVIOUS
<1>3. b \in Meta
  BY <1>1, <1>2
<1>4. PICK n1 : n1 = IF b.sampled THEN clock ELSE 0
  OBVIOUS
<1>5. PICK n2 : n2 = IF b.sampled THEN chunk.prior ELSE 0
  OBVIOUS
<1>6. n1 \in Nat /\ n2 \in Nat
  BY <1>1, <1>4, <1>5
<1>7. m = [b EXCEPT !.ws = n1, !.message_sequence = marked_message_sequence,
                    !.message_index = chunk.message_index, !.prior = n2]
  BY <1>2, <1>4, <1>5 DEF NextMeta
<1>8. PICK u1 : u1 = [b EXCEPT !.ws = n1]
  OBVIOUS
<1>9. PICK u2 : u2 = [u1 EXCEPT !.message_sequence = marked_message_sequence]
  OBVIOUS
<1>10. PICK u3 : u3 = [u2 EXCEPT !.message_index = chunk.message_index]
  OBVIOUS
<1>11. u1 \in Meta
  BY <1>3, <1>6, <1>8, Bounds, MetaExcept
<1>12. u2 \in Meta
  BY <1>9, <1>11, Bounds, MetaExcept
<1>13. u3 \in Meta
  BY <1>1, <1>6, <1>10, <1>12, MetaExcept
<1>14. m = [u3 EXCEPT !.prior = n2]
  BY <1>7, <1>8, <1>9, <1>10
<1>15. m \in Meta
  BY <1>1, <1>6, <1>13, <1>14, MetaExcept
<1>16. /\ m.recv_sequence = b.recv_sequence /\ m.chunk_index = b.chunk_index /\ m.recv = b.recv
       /\ m.plaintext = b.plaintext /\ m.message_sequence = marked_message_sequence
       /\ m.message_index = chunk.message_index /\ m.ws = n1 /\ m.prior = n2
  BY <1>3, <1>7 DEF Meta
<1>17. m.sampled = b.sampled
  BY <1>3, <1>7 DEF Meta
<1> QED  BY <1>2, <1>4, <1>5, <1>15, <1>16, <1>17

LEMMA EventType ==
    ASSUME NEW item \in Frames \cup {"Rest"}, NEW m \in Meta
    PROVE  Event(item, m) \in Events /\ Event(item, m).meta = m
BY DEF Event, Events, Frames


-----------------------------------------------------------------------------
(* Histograms.                                                              *)

LEMMA HistogramFields ==
    ASSUME NEW h \in Histograms, NEW s \in Stages
    PROVE  h[s].len \in Nat /\ h[s].total \in Nat /\ h[s] = [len |-> h[s].len, total |-> h[s].total]
<1>1. h[s] \in [len : Nat, total : Nat]
  BY DEF Histograms
<1> QED  BY <1>1

LEMMA NoSamplesType == NoSamples \in Histograms
BY DEF NoSamples, Histograms

LEMMA PlusType ==
    ASSUME NEW a \in Histograms, NEW b \in Histograms
    PROVE  Plus(a, b) \in Histograms
<1>1. ASSUME NEW s \in Stages
      PROVE  [len |-> a[s].len + b[s].len, total |-> a[s].total + b[s].total]
                \in [len : Nat, total : Nat]
  <2>1. a[s].len \in Nat /\ a[s].total \in Nat /\ b[s].len \in Nat /\ b[s].total \in Nat
    BY HistogramFields
  <2> QED  BY <2>1
<1> QED  BY <1>1 DEF Plus, Histograms

\* Histogram sets are equal if their stages are.
LEMMA SameStages ==
    ASSUME NEW a \in Histograms, NEW b \in Histograms,
           \A s \in Stages : a[s].len = b[s].len /\ a[s].total = b[s].total
    PROVE  a = b
<1>1. ASSUME NEW s \in Stages PROVE a[s] = b[s]
  <2>1. /\ a[s] = [len |-> a[s].len, total |-> a[s].total]
        /\ b[s] = [len |-> b[s].len, total |-> b[s].total]
        /\ a[s].len = b[s].len /\ a[s].total = b[s].total
    BY HistogramFields
  <2> QED  BY <2>1
<1> QED  BY <1>1 DEF Histograms

LEMMA PlusAt ==
    ASSUME NEW a \in Histograms, NEW b \in Histograms, NEW s \in Stages
    PROVE  /\ Plus(a, b)[s].len = a[s].len + b[s].len
           /\ Plus(a, b)[s].total = a[s].total + b[s].total
BY DEF Plus

LEMMA PlusAssoc ==
    ASSUME NEW a \in Histograms, NEW b \in Histograms, NEW c \in Histograms
    PROVE  Plus(Plus(a, b), c) = Plus(a, Plus(b, c))
<1>1. Plus(a, b) \in Histograms /\ Plus(b, c) \in Histograms
  BY PlusType
<1>2. Plus(Plus(a, b), c) \in Histograms /\ Plus(a, Plus(b, c)) \in Histograms
  BY <1>1, PlusType
<1>3. ASSUME NEW s \in Stages
      PROVE  /\ Plus(Plus(a, b), c)[s].len = Plus(a, Plus(b, c))[s].len
             /\ Plus(Plus(a, b), c)[s].total = Plus(a, Plus(b, c))[s].total
  <2>1. /\ Plus(Plus(a, b), c)[s].len = (a[s].len + b[s].len) + c[s].len
        /\ Plus(Plus(a, b), c)[s].total = (a[s].total + b[s].total) + c[s].total
    BY <1>1, PlusAt
  <2>2. /\ Plus(a, Plus(b, c))[s].len = a[s].len + (b[s].len + c[s].len)
        /\ Plus(a, Plus(b, c))[s].total = a[s].total + (b[s].total + c[s].total)
    BY <1>1, PlusAt
  <2>3. /\ a[s].len \in Nat /\ a[s].total \in Nat /\ b[s].len \in Nat /\ b[s].total \in Nat
        /\ c[s].len \in Nat /\ c[s].total \in Nat
    BY HistogramFields
  <2> QED  BY <2>1, <2>2, <2>3
<1> QED  BY <1>2, <1>3, SameStages

LEMMA PlusNothing ==
    ASSUME NEW a \in Histograms
    PROVE  Plus(a, NoSamples) = a
<1>1. Plus(a, NoSamples) \in Histograms
  BY PlusType, NoSamplesType
<1>2. ASSUME NEW s \in Stages
      PROVE  Plus(a, NoSamples)[s].len = a[s].len /\ Plus(a, NoSamples)[s].total = a[s].total
  <2>1. NoSamples[s].len = 0 /\ NoSamples[s].total = 0
    BY DEF NoSamples
  <2>2. a[s].len \in Nat /\ a[s].total \in Nat
    BY HistogramFields
  <2> QED  BY <2>1, <2>2, PlusAt, NoSamplesType
<1> QED  BY <1>1, <1>2, SameStages

LEMMA LatencyIs ==
    ASSUME NEW m \in Meta
    PROVE  /\ Latency(m)["plaintext_to_ws"] = m.ws - m.plaintext
           /\ Latency(m)["plaintext_to_ws_excluding_prior_sink"] = m.ws - m.plaintext - m.prior
           /\ Latency(m)["recv_to_ws"] = m.ws - m.recv
           /\ Latency(m)["recv_to_ws_excluding_prior_sink"] = m.ws - m.recv - m.prior
           /\ \A s \in MessageStages : Latency(m)[s] \in Int
<1>1. /\ Latency(m)["plaintext_to_ws"] = m.ws - m.plaintext
      /\ Latency(m)["plaintext_to_ws_excluding_prior_sink"] = m.ws - m.plaintext - m.prior
      /\ Latency(m)["recv_to_ws"] = m.ws - m.recv
      /\ Latency(m)["recv_to_ws_excluding_prior_sink"] = m.ws - m.recv - m.prior
  BY DEF Latency, MessageStages
<1>2. m.ws \in Nat /\ m.plaintext \in Nat /\ m.recv \in Nat /\ m.prior \in Nat
  BY MetaFields
<1> QED  BY <1>1, <1>2 DEF MessageStages

\* The samples that record_message takes of a message.
One(n) == [len |-> 1, total |-> n]
Zero == [len |-> 0, total |-> 0]
Samples(m) ==
    [s \in Stages |->
        IF ~m.sampled \/ s = ChunkStage THEN Zero
        ELSE IF s = SinkStage THEN IF Position(m) = "queued" THEN One(m.prior) ELSE Zero
        ELSE IF s[2] \in {"all", Position(m)} /\ Latency(m)[s[1]] >= 0
        THEN One(Latency(m)[s[1]]) ELSE Zero]

LEMMA StageKinds ==
    /\ \A s \in Stages : s # ChunkStage /\ s # SinkStage =>
          /\ s[1] \in MessageStages /\ s[2] \in {"all", "first", "queued"} /\ s = <<s[1], s[2]>>
    /\ \A k \in MessageStages : \A p \in {"all", "first", "queued"} :
          <<k, p>> \in Stages /\ <<k, p>> # ChunkStage /\ <<k, p>> # SinkStage
    /\ ChunkStage \in Stages /\ SinkStage \in Stages /\ ChunkStage # SinkStage
BY DEF Stages, ChunkStage, SinkStage, MessageStages

LEMMA SamplesType ==
    ASSUME NEW m \in Meta
    PROVE  Samples(m) \in Histograms
<1>1. ASSUME NEW s \in Stages PROVE Samples(m)[s] \in [len : Nat, total : Nat]
  <2>1. m.prior \in Nat
    BY MetaFields
  <2>2. \A n \in Nat : One(n) \in [len : Nat, total : Nat]
    BY DEF One
  <2>3. Zero \in [len : Nat, total : Nat]
    BY DEF Zero
  <2>4. CASE s = ChunkStage \/ s = SinkStage
    BY <2>1, <2>2, <2>3, <2>4 DEF Samples
  <2>5. CASE s # ChunkStage /\ s # SinkStage
    <3>1. Latency(m)[s[1]] \in Int
      BY <2>5, LatencyIs, StageKinds
    <3>2. Latency(m)[s[1]] >= 0 => Latency(m)[s[1]] \in Nat
      BY <3>1
    <3> QED  BY <2>2, <2>3, <2>5, <3>2 DEF Samples
  <2> QED  BY <2>4, <2>5
<1> QED  BY <1>1 DEF Samples, Histograms

\* record_message adds the samples of its message, whatever the set held.
LEMMA RecordMessageIs ==
    ASSUME NEW a \in Histograms, NEW m \in Meta
    PROVE  RecordMessage(a, m) = Plus(a, Samples(m)) /\ RecordMessage(a, m) \in Histograms
<1>0. Samples(m) \in Histograms /\ Plus(a, Samples(m)) \in Histograms
  BY SamplesType, PlusType
<1>1. ASSUME NEW h \in [len : Nat, total : Nat]
      PROVE  /\ h = [len |-> h.len + Zero.len, total |-> h.total + Zero.total]
             /\ \A n : Recorded(h, n) = [len |-> h.len + One(n).len, total |-> h.total + One(n).total]
  BY DEF Zero, One, Recorded
<1>2. \A s \in Stages : a[s] \in [len : Nat, total : Nat]
  BY DEF Histograms
<1>3. CASE ~m.sampled
  <2>1. RecordMessage(a, m) = a
    BY <1>3 DEF RecordMessage
  <2>2. ASSUME NEW s \in Stages
        PROVE  Plus(a, Samples(m))[s].len = a[s].len /\ Plus(a, Samples(m))[s].total = a[s].total
    <3>1. Samples(m)[s] = Zero
      BY <1>3 DEF Samples
    <3>2. Zero.len = 0 /\ Zero.total = 0
      BY DEF Zero
    <3>3. a[s].len \in Nat /\ a[s].total \in Nat
      BY HistogramFields
    <3> QED  BY <1>0, <3>1, <3>2, <3>3, PlusAt
  <2> QED  BY <1>0, <2>1, <2>2, SameStages
<1>4. CASE m.sampled
  <2> DEFINE r == [s \in Stages |->
            IF s = ChunkStage THEN a[s]
            ELSE IF s = SinkStage
            THEN IF Position(m) = "queued" THEN Recorded(a[s], m.prior) ELSE a[s]
            ELSE IF s[2] \in {"all", Position(m)} /\ Latency(m)[s[1]] >= 0
            THEN Recorded(a[s], Latency(m)[s[1]]) ELSE a[s]]
  <2>1. RecordMessage(a, m) = r
    BY <1>4 DEF RecordMessage
  <2>2. ASSUME NEW s \in Stages
        PROVE  r[s] = [len |-> a[s].len + Samples(m)[s].len, total |-> a[s].total + Samples(m)[s].total]
    <3>1. /\ a[s] = [len |-> a[s].len + Zero.len, total |-> a[s].total + Zero.total]
          /\ \A n : Recorded(a[s], n) =
                       [len |-> a[s].len + One(n).len, total |-> a[s].total + One(n).total]
      BY <1>1, <1>2
    <3>2. CASE s = ChunkStage
      BY <1>4, <3>1, <3>2 DEF Samples
    <3>3. CASE s = SinkStage
      BY <1>4, <3>1, <3>3, StageKinds DEF Samples
    <3>4. CASE s # ChunkStage /\ s # SinkStage
      BY <1>4, <3>1, <3>4 DEF Samples
    <3> QED  BY <3>2, <3>3, <3>4
  <2>3. r = Plus(a, Samples(m))
    BY <2>2 DEF Plus
  <2> QED  BY <1>0, <2>1, <2>3
<1> QED  BY <1>3, <1>4


\* f records one event after the other.
Records(f, a, ev) ==
    /\ f \in [0 .. Len(ev) -> Histograms]
    /\ f[0] = a
    /\ \A i \in 1 .. Len(ev) : f[i] = RecordMessage(f[i - 1], ev[i].meta)

\* The recursive definition of RecordMessages has a solution.
LEMMA RecordMessagesRecords ==
    ASSUME NEW a \in Histograms, NEW ev \in Seq(Events)
    PROVE  \E f : Records(f, a, ev) /\ RecordMessages(a, ev) = f[Len(ev)]
<1>1. Len(ev) \in Nat /\ \A i \in 1 .. Len(ev) : ev[i].meta \in Meta
  <2>1. ASSUME NEW i \in 1 .. Len(ev) PROVE ev[i].meta \in Meta
    <3>1. ev[i] \in Events
      BY ElementOfSeq
    <3> QED  BY <3>1 DEF Events
  <2> QED  BY <2>1, LenProperties
<1> DEFINE step == [x \in Histograms \X Nat |->
                       IF x[2] \in 1 .. Len(ev) THEN RecordMessage(x[1], ev[x[2]].meta) ELSE x[1]]
           body(f) == [i \in 0 .. Len(ev) |->
                         IF i = 0 THEN a ELSE RecordMessage(f[i - 1], ev[i].meta)]
<1>2. step \in [Histograms \X Nat -> Histograms]
  <2>1. ASSUME NEW h \in Histograms, NEW k \in Nat, k \in 1 .. Len(ev)
        PROVE  RecordMessage(h, ev[k].meta) \in Histograms
    BY <1>1, <2>1, RecordMessageIs
  <2> QED  BY <2>1
<1>3. PICK f \in [0 .. Len(ev) -> Histograms] :
         f[0] = a /\ \A i \in 1 .. Len(ev) : f[i] = step[<<f[i - 1], i>>]
  <2> DEFINE N == Len(ev)
  <2>1. N \in Nat
    BY <1>1
  <2> HIDE DEF step, N
  <2>2. \E f : Recursion(f, Histograms, a, N, step)
    BY <1>2, <2>1, RecursiveFunction
  <2> QED  BY <2>2 DEF N, Recursion
<1>4. ASSUME NEW i \in 1 .. Len(ev) PROVE f[i] = RecordMessage(f[i - 1], ev[i].meta)
  <2>1. f[i - 1] \in Histograms /\ i \in Nat
    BY <1>1, <1>3
  <2>2. step[<<f[i - 1], i>>] = RecordMessage(f[i - 1], ev[i].meta)
    BY <1>1, <2>1
  <2> QED  BY <1>3, <2>2
<1>5. f = body(f)
  <2>1. f = [i \in 0 .. Len(ev) |-> f[i]]
    BY <1>3
  <2>2. ASSUME NEW i \in 0 .. Len(ev) PROVE f[i] = body(f)[i]
    <3>1. CASE i = 0
      BY <1>3, <3>1
    <3>2. CASE i # 0
      <4>1. i \in 1 .. Len(ev)
        BY <1>1, <3>2
      <4> HIDE DEF step
      <4> QED  BY <1>4, <3>2, <4>1
    <3> QED  BY <3>1, <3>2
  <2> QED  BY <2>1, <2>2
<1> DEFINE c == CHOOSE g : g = body(g)
<1>6. c = body(c)
  <2> HIDE DEF body
  <2> QED  BY <1>5
<1>7. RecordMessages(a, ev) = c[Len(ev)]
  BY DEF RecordMessages
<1> HIDE DEF c
<1>8. c[0] = a
  <2>1. body(c)[0] = a
    BY <1>1
  <2> QED  BY <1>6, <2>1
<1>9. ASSUME NEW i \in 1 .. Len(ev) PROVE c[i] = RecordMessage(c[i - 1], ev[i].meta)
  <2>1. body(c)[i] = RecordMessage(c[i - 1], ev[i].meta)
    BY <1>1
  <2> HIDE DEF body
  <2> QED  BY <1>6, <2>1
<1>10. c = [i \in 0 .. Len(ev) |-> c[i]]
  <2>1. DOMAIN c = 0 .. Len(ev)
    BY <1>6
  <2> QED  BY <1>6, <2>1
<1>11. \A i \in Nat : i <= Len(ev) => c[i] \in Histograms
  <2> DEFINE T == {i \in Nat : i <= Len(ev) => c[i] \in Histograms}
  <2>1. 0 \in T
    BY <1>8
  <2>2. ASSUME NEW n \in Nat, n \in T PROVE n + 1 \in T
    <3> SUFFICES ASSUME n + 1 <= Len(ev) PROVE c[n + 1] \in Histograms
      OBVIOUS
    <3>1. c[n] \in Histograms /\ n + 1 \in 1 .. Len(ev) /\ (n + 1) - 1 = n
      BY <1>1, <2>2
    <3>2. c[n + 1] = RecordMessage(c[n], ev[n + 1].meta) /\ ev[n + 1].meta \in Meta
      BY <1>1, <1>9, <3>1
    <3> QED  BY <3>1, <3>2, RecordMessageIs
  <2> HIDE DEF T
  <2>3. Nat \subseteq T
    BY <2>1, <2>2, Induct
  <2> QED  BY <2>3 DEF T
<1>12. Records(c, a, ev)
  <2>1. \A i \in 0 .. Len(ev) : c[i] \in Histograms
    BY <1>1, <1>11
  <2>2. c \in [0 .. Len(ev) -> Histograms]
    BY <1>10, <2>1
  <2> QED  BY <1>8, <1>9, <2>2 DEF Records
<1> QED  BY <1>7, <1>12

LEMMA RecordMessagesType ==
    ASSUME NEW a \in Histograms, NEW ev \in Seq(Events)
    PROVE  RecordMessages(a, ev) \in Histograms
<1>1. PICK f : Records(f, a, ev) /\ RecordMessages(a, ev) = f[Len(ev)]
  BY RecordMessagesRecords
<1>2. Len(ev) \in 0 .. Len(ev)
  BY LenProperties
<1> QED  BY <1>1, <1>2 DEF Records

\* What is recorded in two sets that differ by e makes the same difference.
LEMMA RecordMessagesPlus ==
    ASSUME NEW e \in Histograms, NEW a \in Histograms, NEW ev \in Seq(Events)
    PROVE  RecordMessages(Plus(e, a), ev) = Plus(e, RecordMessages(a, ev))
<1>1. PICK b : b = Plus(e, a)
  OBVIOUS
<1>2. b \in Histograms
  BY <1>1, PlusType
<1>3. PICK f : Records(f, a, ev) /\ RecordMessages(a, ev) = f[Len(ev)]
  BY RecordMessagesRecords
<1>4. PICK g : Records(g, b, ev) /\ RecordMessages(b, ev) = g[Len(ev)]
  BY <1>2, RecordMessagesRecords
<1>5. Len(ev) \in Nat
  BY LenProperties
<1> DEFINE T == {n \in Nat : n <= Len(ev) => g[n] = Plus(e, f[n])}
<1>6. 0 \in T
  BY <1>1, <1>3, <1>4 DEF Records
<1>7. ASSUME NEW n \in Nat, n \in T PROVE n + 1 \in T
  <2> SUFFICES ASSUME n + 1 <= Len(ev) PROVE g[n + 1] = Plus(e, f[n + 1])
    OBVIOUS
  <2>1. /\ n + 1 \in 1 .. Len(ev) /\ (n + 1) - 1 = n /\ n \in 0 .. Len(ev)
        /\ g[n] = Plus(e, f[n])
    BY <1>5, <1>7
  <2>2. PICK m : m = ev[n + 1].meta
    OBVIOUS
  <2>3. m \in Meta
    <3>1. ev[n + 1] \in Events
      BY <2>1, ElementOfSeq
    <3> QED  BY <2>2, <3>1 DEF Events
  <2>4. f[n] \in Histograms /\ g[n] \in Histograms
    BY <1>3, <1>4, <2>1 DEF Records
  <2>5. f[n + 1] = RecordMessage(f[n], m) /\ g[n + 1] = RecordMessage(g[n], m)
    BY <1>3, <1>4, <2>1, <2>2 DEF Records
  <2>6. f[n + 1] = Plus(f[n], Samples(m)) /\ g[n + 1] = Plus(g[n], Samples(m))
    BY <2>3, <2>4, <2>5, RecordMessageIs
  <2> QED  BY <2>1, <2>3, <2>4, <2>6, PlusAssoc, SamplesType
<1> HIDE DEF T
<1>8. Nat \subseteq T
  BY <1>6, <1>7, Induct
<1>9. g[Len(ev)] = Plus(e, f[Len(ev)])
  BY <1>5, <1>8 DEF T
<1> QED  BY <1>1, <1>3, <1>4, <1>9

\* The sample that record_plaintext_chunk takes of a chunk.
ChunkSample(m) ==
    [s \in Stages |-> IF ~m.sampled \/ m.plaintext < m.recv \/ s # ChunkStage THEN Zero
                      ELSE One(m.plaintext - m.recv)]

LEMMA RecordChunkIs ==
    ASSUME NEW a \in Histograms, NEW m \in Meta
    PROVE  /\ ChunkSample(m) \in Histograms
           /\ RecordChunk(a, m) = Plus(a, ChunkSample(m)) /\ RecordChunk(a, m) \in Histograms
<1>0. m.plaintext \in Nat /\ m.recv \in Nat
  BY MetaFields
<1>1. /\ Zero \in [len : Nat, total : Nat]
      /\ \A n \in Nat : One(n) \in [len : Nat, total : Nat]
  BY DEF Zero, One
<1>2. ChunkSample(m) \in Histograms
  <2>1. ASSUME NEW s \in Stages PROVE ChunkSample(m)[s] \in [len : Nat, total : Nat]
    <3>1. ~(m.plaintext < m.recv) => m.plaintext - m.recv \in Nat
      BY <1>0
    <3> QED  BY <1>1, <3>1 DEF ChunkSample
  <2> QED  BY <2>1 DEF ChunkSample, Histograms
<1>3. Plus(a, ChunkSample(m)) \in Histograms
  BY <1>2, PlusType
<1>4. /\ Zero.len = 0 /\ Zero.total = 0 /\ \A n : One(n).len = 1 /\ One(n).total = n
  BY DEF Zero, One
<1>5. CASE ~m.sampled \/ m.plaintext < m.recv
  <2>1. RecordChunk(a, m) = a
    BY <1>5 DEF RecordChunk
  <2>2. ASSUME NEW s \in Stages
        PROVE  Plus(a, ChunkSample(m))[s].len = a[s].len /\ Plus(a, ChunkSample(m))[s].total = a[s].total
    <3>1. ChunkSample(m)[s] = Zero
      BY <1>5 DEF ChunkSample
    <3>2. a[s].len \in Nat /\ a[s].total \in Nat
      BY HistogramFields
    <3> QED  BY <1>2, <1>4, <3>1, <3>2, PlusAt
  <2> QED  BY <1>2, <1>3, <2>1, <2>2, SameStages
<1>6. CASE m.sampled /\ ~(m.plaintext < m.recv)
  <2>1. PICK d : d = m.plaintext - m.recv
    OBVIOUS
  <2>2. d \in Nat
    BY <1>0, <1>6, <2>1
  <2>3. RecordChunk(a, m) = [a EXCEPT ![ChunkStage] = Recorded(a[ChunkStage], d)]
    BY <1>6, <2>1 DEF RecordChunk
  <2>4. Recorded(a[ChunkStage], d) \in [len : Nat, total : Nat]
    <3>1. a[ChunkStage].len \in Nat /\ a[ChunkStage].total \in Nat
      BY HistogramFields, StageKinds
    <3> QED  BY <2>2, <3>1 DEF Recorded
  <2>5. RecordChunk(a, m) \in Histograms
    BY <2>3, <2>4 DEF Histograms
  <2>6. ASSUME NEW s \in Stages
        PROVE  /\ Plus(a, ChunkSample(m))[s].len = RecordChunk(a, m)[s].len
               /\ Plus(a, ChunkSample(m))[s].total = RecordChunk(a, m)[s].total
    <3>1. /\ Plus(a, ChunkSample(m))[s].len = a[s].len + ChunkSample(m)[s].len
          /\ Plus(a, ChunkSample(m))[s].total = a[s].total + ChunkSample(m)[s].total
      BY <1>2, PlusAt
    <3>2. a[s].len \in Nat /\ a[s].total \in Nat
      BY HistogramFields
    <3>3. CASE s = ChunkStage
      <4>1. ChunkSample(m)[s] = One(d)
        BY <1>6, <2>1, <3>3 DEF ChunkSample
      <4>2. RecordChunk(a, m)[s] = Recorded(a[s], d)
        BY <2>3, <3>3, StageKinds DEF Histograms
      <4> QED  BY <1>4, <3>1, <3>2, <4>1, <4>2 DEF Recorded
    <3>4. CASE s # ChunkStage
      <4>1. ChunkSample(m)[s] = Zero
        BY <3>4 DEF ChunkSample
      <4>2. RecordChunk(a, m)[s] = a[s]
        BY <2>3, <3>4, StageKinds DEF Histograms
      <4> QED  BY <1>4, <3>1, <3>2, <4>1, <4>2
    <3> QED  BY <3>3, <3>4
  <2> QED  BY <1>2, <1>3, <2>5, <2>6, SameStages
<1> QED  BY <1>2, <1>5, <1>6


-----------------------------------------------------------------------------
(* Helpers of the actions.                                                  *)

TypeInv == ConnType /\ CountType /\ MetaType /\ HistType /\ PhaseInv

LEMMA CountNat ==
    ASSUME chunk \in Chunks, NEW op
    PROVE  Count(op) \in Nat
<1> DEFINE S == {i \in 1 .. Len(chunk.batch) : chunk.batch[i].op = op}
<1>1. chunk.batch \in Seq(Events)
  BY ChunkFields
<1>2. Len(chunk.batch) \in Nat
  BY <1>1, LenProperties
<1>3. IsFiniteSet(1 .. Len(chunk.batch))
  BY <1>2, FS_Interval
<1>4. S \in SUBSET (1 .. Len(chunk.batch))
  OBVIOUS
<1>5. IsFiniteSet(S)
  BY <1>3, <1>4, FS_Subset
<1> HIDE DEF S
<1>6. Cardinality(S) \in Nat
  BY <1>5, FS_CardinalityType
<1> QED  BY <1>6 DEF Count, S

\* A dispatcher finds the run of completions with data that it hands over.
LEMMA RunLenExists ==
    ASSUME buf \in Seq(Cqes), buf # <<>>, Head(buf).kind = "data"
    PROVE  /\ Len(buf) \in Nat
           /\ RunLen \in 1 .. Len(buf)
           /\ \A i \in 1 .. RunLen : buf[i].kind = "data"
           /\ RunLen < Len(buf) => buf[RunLen + 1].kind # "data"
<1>1. Len(buf) \in Nat \ {0} /\ Head(buf) = buf[1]
  BY LenProperties, EmptySeq, HeadTailProperties
<1> DEFINE T == {n \in 1 .. Len(buf) : n = Len(buf) \/ buf[n + 1].kind # "data"}
<1>2. T \subseteq Nat /\ T # {}
  BY <1>1
<1>3. PICK x \in T : \A y \in T : ~(y < x)
  BY <1>2, Least
<1>4. x \in 1 .. Len(buf) /\ (x < Len(buf) => buf[x + 1].kind # "data")
  BY <1>1, <1>3
<1>5. ASSUME NEW i \in 1 .. x PROVE buf[i].kind = "data"
  <2>1. CASE i = 1
    BY <1>1, <2>1
  <2>2. CASE i # 1
    <3>1. i - 1 \in 1 .. Len(buf) /\ i - 1 < x /\ i - 1 # Len(buf) /\ (i - 1) + 1 = i
      BY <1>1, <1>4, <2>2
    <3>2. i - 1 \notin T
      BY <1>3, <3>1
    <3> QED  BY <3>1, <3>2
  <2> QED  BY <2>1, <2>2
<1> DEFINE P(n) == /\ \A i \in 1 .. n : buf[i].kind = "data"
                   /\ n < Len(buf) => buf[n + 1].kind # "data"
<1>6. x \in 1 .. Len(buf) /\ P(x)
  BY <1>4, <1>5
<1>7. RunLen = CHOOSE n \in 1 .. Len(buf) : P(n)
  BY DEF RunLen
<1> HIDE DEF P
<1>8. RunLen \in 1 .. Len(buf) /\ P(RunLen)
  BY <1>6, <1>7
<1> QED  BY <1>1, <1>8 DEF P

\* The run handed over, its bytes and what is left.
LEMMA RunTaken ==
    ASSUME buf \in Seq(Cqes), buf # <<>>, Head(buf).kind = "data"
    PROVE  /\ RunLen \in Nat /\ RunLen > 0
           /\ Taken \in Seq(Cqes) /\ Len(Taken) = RunLen
           /\ SubSeq(buf, RunLen + 1, Len(buf)) \in Seq(Cqes)
           /\ RunBytes = Bytes(Taken) /\ RunBytes \in Nat
           /\ Taken # <<>>
<1>1. Len(buf) \in Nat /\ RunLen \in 1 .. Len(buf)
  BY RunLenExists
<1>2. PICK n \in 0 .. Len(buf) : n = RunLen
  BY <1>1
<1>3. /\ SubSeq(buf, 1, n) \in Seq(Cqes) /\ SubSeq(buf, n + 1, Len(buf)) \in Seq(Cqes)
      /\ Len(SubSeq(buf, 1, n)) = n /\ \A i \in 1 .. n : SubSeq(buf, 1, n)[i] = buf[i]
  BY Split
<1>4. /\ Taken \in Seq(Cqes) /\ Len(Taken) = RunLen
      /\ \A i \in 1 .. RunLen : Taken[i] = buf[i]
      /\ SubSeq(buf, RunLen + 1, Len(buf)) \in Seq(Cqes)
  BY <1>2, <1>3 DEF Taken
<1>5. [i \in 1 .. RunLen |-> Total(buf[i].slices)] = [i \in 1 .. Len(Taken) |-> Total(Taken[i].slices)]
  BY <1>4
<1>6. RunBytes = Bytes(Taken)
  BY <1>5 DEF RunBytes, Bytes
<1>7. Bytes(Taken) \in Nat
  BY <1>4, BytesType
<1> QED  BY <1>1, <1>4, <1>6, <1>7, EmptySeq

LEMMA HeadCqe ==
    ASSUME NEW q \in Seq(Cqes), q # <<>>
    PROVE  /\ Tail(q) \in Seq(Cqes) /\ Head(q) \in Cqes /\ <<Head(q)>> \in Seq(Cqes)
           /\ Len(<<Head(q)>>) = 1
           /\ Head(q).slices \in Seq(Nat) /\ Total(Head(q).slices) \in Nat
           /\ Bytes(<<Head(q)>>) = Total(Head(q).slices)
           /\ Len(q) \in Nat /\ Len(q) > 0 /\ Len(Tail(q)) = Len(q) - 1
<1>1. Tail(q) \in Seq(Cqes) /\ Head(q) \in Cqes
  BY HeadTailProperties
<1>2. Len(q) \in Nat /\ Len(q) > 0 /\ Len(Tail(q)) = Len(q) - 1
  BY HeadTailProperties, EmptySeq, LenProperties
<1> QED  BY <1>1, <1>2, BytesSingle

LEMMA HeadItem ==
    ASSUME chunk \in Chunks, chunk.items # <<>>
    PROVE  /\ Tail(chunk.items) \in Seq(Items) /\ NextItem = Head(chunk.items) /\ NextItem \in Items
<1>1. chunk.items \in Seq(Items)
  BY ChunkFields
<1>2. Tail(chunk.items) \in Seq(Items) /\ Head(chunk.items) \in Items
  BY <1>1, HeadTailProperties
<1> QED  BY <1>2 DEF NextItem

LEMMA MeaningType == \A items \in Meaning : items \in Seq(Items)
BY ItemsRange, EmptySeq DEF Meaning

LEMMA CompletionType ==
    ASSUME NEW n \in Nat, NEW q \in [1 .. n -> Completion]
    PROVE  q \in Seq(Cqes)
<1>1. Completion \subseteq Cqes
  <2>1. \A s \in Sizes : s \in Seq(Nat)
    <3>1. \A s \in Sizes : s \in Seq(Nat \ {0})
      BY IngressAssumption
    <3>2. ASSUME NEW s \in Seq(Nat \ {0}) PROVE s \in Seq(Nat)
      OBVIOUS
    <3> QED  BY <3>1, <3>2
  <2>2. <<>> \in Seq(Nat)
    BY EmptySeq
  <2> QED  BY <2>1, <2>2 DEF Completion, Cqes
<1> QED  BY <1>1


-----------------------------------------------------------------------------
(* The types are kept.                                                      *)

LEMMA FinishType ==
    ASSUME NEW ok, Finish(ok, ws_open), closed \in BOOLEAN
    PROVE  closed' \in BOOLEAN
BY DEF Finish

LEMMA ConnTypeNext ==
    ASSUME TypeInv, Next
    PROVE  ConnType'
<1> USE DEF connVars, seqVars, histVars, handlerVars
<1>0. ConnType
  BY DEF TypeInv
<1>1. CASE Pump
  <2>1. buf' \in Seq(Cqes)
    <3>1. PICK n \in 1 .. MaxRun : buf' \in [1 .. n -> Completion]
      BY <1>1 DEF Pump
    <3>2. n \in Nat
      BY <3>1, Bounds
    <3> QED  BY <3>1, <3>2, CompletionType
  <2> QED  BY <1>0, <1>1, <2>1 DEF Pump, ConnType
<1>2. CASE Discard
  <2>1. Tail(buf) \in Seq(Cqes)
    BY <1>0, <1>2, HeadCqe DEF Discard, Dispatching, ConnType
  <2>2. closed' \in BOOLEAN
    BY <1>0, <1>2, FinishType DEF Discard, ConnType
  <2> QED  BY <1>0, <1>2, <2>1, <2>2 DEF Discard, ConnType
<1>3. CASE NoData
  <2>1. Tail(buf) \in Seq(Cqes)
    BY <1>0, <1>3, HeadCqe DEF NoData, Dispatching, ConnType
  <2>2. closed' \in BOOLEAN
    BY <1>0, <1>3, FinishType DEF NoData, ConnType
  <2> QED  BY <1>0, <1>3, <2>1, <2>2 DEF NoData, ConnType
<1>4. CASE General
  <2>1. Tail(buf) \in Seq(Cqes)
    BY <1>0, <1>4, HeadCqe DEF General, DataHead, Dispatching, ConnType
  <2>2. closed' \in BOOLEAN
    BY <1>0, <1>4, FinishType DEF General, ConnType
  <2>3. tls_failed' \in BOOLEAN /\ (tls_failed' => cfg.tls) /\ cfg' = cfg
    BY <1>0, <1>4 DEF General, ConnType, Configs
  <2> QED  BY <1>0, <1>4, <2>1, <2>2, <2>3 DEF General, ConnType
<1>5. CASE BeginSingle
  <2>1. Tail(buf) \in Seq(Cqes) /\ <<Head(buf)>> \in Seq(Cqes)
    BY <1>0, <1>5, HeadCqe DEF BeginSingle, DataHead, Dispatching, ConnType
  <2> QED  BY <1>0, <1>5, <2>1 DEF BeginSingle, ConnType
<1>6. CASE BeginRun
  <2>1. Taken \in Seq(Cqes) /\ SubSeq(buf, RunLen + 1, Len(buf)) \in Seq(Cqes)
    BY <1>0, <1>6, RunTaken DEF BeginRun, BeginsRun, DataHead, Dispatching, ConnType
  <2> QED  BY <1>0, <1>6, <2>1 DEF BeginRun, ConnType
<1>7. CASE BeginCopied
  <2>1. SubSeq(buf, RunLen + 1, Len(buf)) \in Seq(Cqes)
    BY <1>0, <1>7, RunTaken DEF BeginCopied, BeginsRun, DataHead, Dispatching, ConnType
  <2> QED  BY <1>0, <1>7, <2>1 DEF BeginCopied, ConnType
<1>8. CASE EndPump
  <2>1. closed' \in BOOLEAN /\ ws_open' \in BOOLEAN
    BY <1>0, <1>8 DEF EndPump, ConnType
  <2> QED  BY <1>0, <1>8, <2>1 DEF EndPump, ConnType
<1>9. CASE ObserveCqe
  <2>1. Tail(run) \in Seq(Cqes) /\ Head(run).slices \in Seq(Nat) /\ <<>> \in Seq(Nat)
    BY <1>0, <1>9, HeadCqe, EmptySeq DEF ObserveCqe, ConnType
  <2>2. marked_recv_sequence' \in Nat /\ slices' \in Seq(Nat) /\ run' \in Seq(Cqes)
    BY <1>0, <1>9, <2>1 DEF ObserveCqe, ConnType
  <2> QED  BY <1>0, <1>9, <2>2 DEF ObserveCqe, ConnType
<1>10. CASE BeginChunk
  <2>1. slices' \in Seq(Nat)
    BY <1>0, <1>10, TotalTail DEF BeginChunk, InSlice, ConnType
  <2> QED  BY <1>0, <1>10, <2>1 DEF BeginChunk, ConnType
<1>11. CASE SkipSlice
  <2>1. slices' \in Seq(Nat)
    BY <1>0, <1>11, TotalTail DEF SkipSlice, InSlice, ConnType
  <2> QED  BY <1>0, <1>11, <2>1 DEF SkipSlice, ConnType
<1>12. CASE EndSlice
  <2>1. slices' \in Seq(Nat)
    BY <1>0, <1>12, TotalTail DEF EndSlice, InSlice, ConnType
  <2> QED  BY <1>0, <1>12, <2>1 DEF EndSlice, ConnType
<1>13. CASE TlsFails
  <2>1. slices' \in Seq(Nat) /\ run' \in Seq(Cqes)
    BY <1>13, EmptySeq DEF TlsFails
  <2>2. closed' \in BOOLEAN
    BY <1>0, <1>13, FinishType DEF TlsFails, ConnType
  <2> QED  BY <1>0, <1>13, <2>1, <2>2 DEF TlsFails, ConnType
<1>14. CASE EndHandler
  <2>1. closed' \in BOOLEAN
    BY <1>0, <1>14, FinishType DEF EndHandler, ConnType
  <2> QED  BY <1>0, <1>14, <2>1 DEF EndHandler, ConnType
<1>15. CASE PushEvent
  <2>1. marked_message_sequence' \in Nat
    BY <1>0, <1>15 DEF PushEvent, ConnType
  <2> QED  BY <1>0, <1>15, <2>1 DEF PushEvent, ConnType
<1>16. CASE BeginSink
  BY <1>0, <1>16 DEF BeginSink, ConnType
<1>17. CASE EndSink
  BY <1>0, <1>17 DEF EndSink, ConnType
<1>18. CASE DropControl
  BY <1>0, <1>18 DEF DropControl, ConnType
<1>19. CASE EndChunk
  <2>1. ws_open' \in BOOLEAN
    BY <1>0, <1>19 DEF EndChunk, ConnType
  <2> QED  BY <1>0, <1>19, <2>1 DEF EndChunk, ConnType
<1>20. CASE Tick
  BY <1>0, <1>20, Bounds DEF Tick, ConnType
<1>21. CASE ExportInterval
  BY <1>0, <1>21 DEF ExportInterval, ConnType
<1> QED  BY <1>1, <1>2, <1>3, <1>4, <1>5, <1>6, <1>7, <1>8, <1>9, <1>10, <1>11, <1>12, <1>13, <1>14,
            <1>15, <1>16, <1>17, <1>18, <1>19, <1>20, <1>21 DEF Next

LEMMA HistTypeNext ==
    ASSUME TypeInv, Next
    PROVE  HistType'
<1> USE DEF connVars, seqVars, histVars, handlerVars
<1>0. HistType /\ chunk \in Chunks
  BY DEF TypeInv, MetaType
<1>1. CASE BeginSink
  <2>1. chunk.batch \in Seq(Events)
    BY <1>0, ChunkFields
  <2>2. /\ RecordMessages(cumulative, chunk.batch) \in Histograms
        /\ RecordMessages(interval, chunk.batch) \in Histograms
    BY <1>0, <2>1, RecordMessagesType DEF HistType
  <2> QED  BY <1>0, <1>1, <2>2 DEF BeginSink, HistType
<1>2. CASE EndChunk
  <2>1. chunk.base \in Meta
    BY <1>0, ChunkFields
  <2>2. /\ RecordChunk(cumulative, chunk.base) \in Histograms
        /\ RecordChunk(interval, chunk.base) \in Histograms
    BY <1>0, <2>1, RecordChunkIs DEF HistType
  <2> QED  BY <1>0, <1>2, <2>2 DEF EndChunk, HistType
<1>3. CASE ExportInterval
  <2>1. Plus(exported, interval) \in Histograms
    BY <1>0, PlusType DEF HistType
  <2> QED  BY <1>0, <1>3, <2>1, NoSamplesType DEF ExportInterval, HistType
<1>4. CASE ~(BeginSink \/ EndChunk \/ ExportInterval)
  <2>1. UNCHANGED <<histVars, exported>>
    BY <1>4 DEF Next, Pump, Discard, NoData, General, BeginSingle, BeginRun, BeginCopied, EndPump,
                ObserveCqe, BeginChunk, SkipSlice, EndSlice, TlsFails, EndHandler, PushEvent,
                EndSink, DropControl, Tick
  <2> QED  BY <1>0, <2>1 DEF HistType
<1> QED  BY <1>1, <1>2, <1>3, <1>4


LEMMA CountTypeNext ==
    ASSUME TypeInv, Next
    PROVE  CountType'
<1> USE DEF connVars, seqVars, histVars, handlerVars
<1>0. CountType /\ ConnType /\ chunk \in Chunks
  BY DEF TypeInv, MetaType
<1>1. CASE Discard \/ NoData
  <2>1. ingress_stats' = Exhaustion
    BY <1>1 DEF Discard, NoData
  <2>2. RecvRingExhaustion(ingress_stats) \in IngressStats
    BY <1>0, ExhaustionStep DEF CountType
  <2>3. ingress_stats' \in IngressStats
    BY <1>0, <2>1, <2>2 DEF Exhaustion, CountType
  <2> QED  BY <1>0, <1>1, <2>3 DEF Discard, NoData, CountType
<1>2. CASE General
  <2>1. buf \in Seq(Cqes) /\ buf # <<>>
    BY <1>0, <1>2 DEF General, DataHead, Dispatching, ConnType
  <2>2. <<Head(buf)>> \in Seq(Cqes) /\ Total(Head(buf).slices) \in Nat
    BY <2>1, HeadCqe
  <2>3. ingress_stats' \in IngressStats
    BY <1>0, <1>2, <2>2, RecvDataStep DEF General, CountType
  <2>4. PICK n : n = truth.general + Total(Head(buf).slices)
    OBVIOUS
  <2>5. n \in Nat
    BY <1>0, <2>2, <2>4, TruthFields DEF CountType
  <2>6. truth' = [truth EXCEPT !.general = n]
    BY <1>2, <2>4 DEF General
  <2>7. truth' \in Truths
    BY <1>0, <2>5, <2>6, TruthExcept DEF CountType
  <2> QED  BY <1>0, <1>2, <2>3, <2>7 DEF General, CountType
<1>3. CASE BeginSingle
  <2>1. PICK b \in BOOLEAN : b = TRUE
    OBVIOUS
  <2>2. local' = [NoLocal EXCEPT !.single = b]
    BY <1>3, <2>1 DEF BeginSingle
  <2>3. local' \in Locals
    BY <2>2, NoLocalType, LocalExcept, Bounds
  <2> QED  BY <1>0, <1>3, <2>3 DEF BeginSingle, CountType
<1>4. CASE BeginRun
  <2>1. buf \in Seq(Cqes) /\ buf # <<>> /\ Head(buf).kind = "data"
    BY <1>0, <1>4 DEF BeginRun, BeginsRun, DataHead, Dispatching, ConnType
  <2>2. RunLen \in Nat /\ 0 \in Nat
    BY <2>1, RunTaken
  <2>3. ingress_stats' \in IngressStats
    BY <1>0, <1>4, <2>2, PlainRecvBatchStep DEF BeginRun, CountType
  <2> QED  BY <1>0, <1>4, <2>3, NoLocalType DEF BeginRun, CountType
<1>5. CASE BeginCopied
  <2>1. buf \in Seq(Cqes) /\ buf # <<>> /\ Head(buf).kind = "data"
    BY <1>0, <1>5 DEF BeginCopied, BeginsRun, DataHead, Dispatching, ConnType
  <2>2. RunLen \in Nat /\ RunBytes \in Nat /\ Taken \in Seq(Cqes)
    BY <2>1, RunTaken
  <2>3. PICK s : s = PlainRecvBatch(ingress_stats, RunLen, RunBytes)
    OBVIOUS
  <2>4. s \in IngressStats
    BY <1>0, <2>2, <2>3, PlainRecvBatchStep DEF CountType
  <2>5. ingress_stats' = RecvData(s, Taken)
    BY <1>5, <2>3 DEF BeginCopied
  <2>6. ingress_stats' \in IngressStats
    BY <2>2, <2>4, <2>5, RecvDataStep
  <2>7. PICK u : u = [NoLocal EXCEPT !.chunks = RunLen]
    OBVIOUS
  <2>8. u \in Locals
    BY <2>2, <2>7, NoLocalType, LocalExcept, Bounds
  <2>9. local' = [u EXCEPT !.bytes = RunBytes]
    BY <1>5, <2>7 DEF BeginCopied
  <2>10. local' \in Locals
    BY <2>2, <2>8, <2>9, LocalExcept, Bounds
  <2>11. PICK n : n = truth.bytes + RunBytes
    OBVIOUS
  <2>12. n \in Nat
    BY <1>0, <2>2, <2>11, TruthFields DEF CountType
  <2>13. truth' = [truth EXCEPT !.bytes = n]
    BY <1>5, <2>11 DEF BeginCopied
  <2>14. truth' \in Truths
    BY <1>0, <2>12, <2>13, TruthExcept DEF CountType
  <2> QED  BY <2>6, <2>10, <2>14 DEF CountType
<1>6. CASE ObserveCqe
  <2>1. run \in Seq(Cqes) /\ run # <<>>
    BY <1>0, <1>6 DEF ObserveCqe, ConnType
  <2>2. <<Head(run)>> \in Seq(Cqes)
    BY <2>1, HeadCqe
  <2>3. ingress_stats' \in IngressStats
    BY <1>0, <1>6, <2>2, RecvDataStep DEF ObserveCqe, CountType
  <2>4. local' \in Locals
    BY <1>0, <1>6, LocalExcept, Bounds DEF ObserveCqe, CountType
  <2> QED  BY <1>0, <1>6, <2>3, <2>4 DEF ObserveCqe, CountType
<1>7. CASE BeginChunk
  <2>1. PICK b : b = IF cfg.tls THEN 1 ELSE Head(slices)
    OBVIOUS
  <2>2. b \in Nat
    BY <1>0, <1>7, <2>1, TotalTail DEF BeginChunk, InSlice, ConnType
  <2>3. /\ local.chunks + 1 \in Nat /\ local.bytes + b \in Nat /\ truth.bytes + b \in Nat
        /\ NextIndex(local.chunk_index) \in 0 .. IndexMax
    BY <1>0, <2>2, LocalFields, TruthFields, NextIndexType DEF CountType
  <2>4. PICK u1 : u1 = [local EXCEPT !.chunks = local.chunks + 1]
    OBVIOUS
  <2>5. PICK u2 : u2 = [u1 EXCEPT !.bytes = local.bytes + b]
    OBVIOUS
  <2>6. u1 \in Locals
    BY <1>0, <2>3, <2>4, LocalExcept DEF CountType
  <2>7. u2 \in Locals
    BY <2>3, <2>5, <2>6, LocalExcept
  <2>8. local' = [u2 EXCEPT !.chunk_index = NextIndex(local.chunk_index)]
    BY <1>7, <2>1, <2>4, <2>5 DEF BeginChunk
  <2>9. local' \in Locals
    BY <2>3, <2>7, <2>8, LocalExcept
  <2>10. truth' = [truth EXCEPT !.bytes = truth.bytes + b]
    BY <1>7, <2>1 DEF BeginChunk
  <2>11. truth' \in Truths
    BY <1>0, <2>3, <2>10, TruthExcept DEF CountType
  <2> QED  BY <1>0, <1>7, <2>9, <2>11 DEF BeginChunk, CountType
<1>8. CASE SkipSlice
  <2>1. Head(slices) \in Nat
    BY <1>0, <1>8, TotalTail DEF SkipSlice, InSlice, ConnType
  <2>2. local.chunks + 1 \in Nat /\ local.bytes + Head(slices) \in Nat
    BY <1>0, <2>1, LocalFields DEF CountType
  <2>3. PICK u : u = [local EXCEPT !.chunks = local.chunks + 1]
    OBVIOUS
  <2>4. u \in Locals
    BY <1>0, <2>2, <2>3, LocalExcept, Bounds DEF CountType
  <2>5. local' = [u EXCEPT !.bytes = local.bytes + Head(slices)]
    BY <1>8, <2>3 DEF SkipSlice
  <2>6. local' \in Locals
    BY <2>2, <2>4, <2>5, LocalExcept, Bounds
  <2> QED  BY <1>0, <1>8, <2>6 DEF SkipSlice, CountType
<1>9. CASE EndHandler
  <2>1. ingress_stats' \in IngressStats
    BY <1>0, <1>9, DrainedStep DEF EndHandler, CountType
  <2> QED  BY <1>0, <1>9, <2>1, NoLocalType DEF EndHandler, CountType
<1>10. CASE BeginSink
  <2>1. PICK t : t = Count("Text")
    OBVIOUS
  <2>2. PICK b : b = Count("Binary")
    OBVIOUS
  <2>3. t \in Nat /\ b \in Nat
    BY <1>0, <2>1, <2>2, CountNat
  <2>4. /\ local.text + t \in Nat /\ local.binary + b \in Nat
        /\ truth.text + t \in Nat /\ truth.binary + b \in Nat
    BY <1>0, <2>3, LocalFields, TruthFields DEF CountType
  <2>5. PICK u : u = [local EXCEPT !.text = local.text + t]
    OBVIOUS
  <2>6. u \in Locals
    BY <1>0, <2>4, <2>5, LocalExcept, Bounds DEF CountType
  <2>7. local' = [u EXCEPT !.binary = local.binary + b]
    BY <1>10, <2>1, <2>2, <2>5 DEF BeginSink
  <2>8. local' \in Locals
    BY <2>4, <2>6, <2>7, LocalExcept, Bounds
  <2>9. PICK v : v = [truth EXCEPT !.text = truth.text + t]
    OBVIOUS
  <2>10. v \in Truths
    BY <1>0, <2>4, <2>9, TruthExcept DEF CountType
  <2>11. truth' = [v EXCEPT !.binary = truth.binary + b]
    BY <1>10, <2>1, <2>2, <2>9 DEF BeginSink
  <2>12. truth' \in Truths
    BY <2>4, <2>10, <2>11, TruthExcept
  <2> QED  BY <1>0, <1>10, <2>8, <2>12 DEF BeginSink, CountType
<1>11. CASE EndChunk
  <2>1. PICK e : e = (local.ws_error \/ NextItem = "Bad")
    OBVIOUS
  <2>2. PICK d : d = (truth.bad \/ NextItem = "Bad")
    OBVIOUS
  <2>3. e \in BOOLEAN /\ d \in BOOLEAN
    BY <2>1, <2>2
  <2>4. local' = [local EXCEPT !.ws_error = e] /\ truth' = [truth EXCEPT !.bad = d]
    BY <1>11, <2>1, <2>2 DEF EndChunk
  <2>5. local' \in Locals
    BY <1>0, <2>3, <2>4, LocalExcept, Bounds DEF CountType
  <2>6. truth' \in Truths
    BY <1>0, <2>3, <2>4, TruthExcept DEF CountType
  <2> QED  BY <1>0, <1>11, <2>5, <2>6 DEF EndChunk, CountType
<1>12. CASE Pump \/ EndPump \/ EndSlice \/ TlsFails \/ PushEvent \/ EndSink \/ DropControl \/ Tick
            \/ ExportInterval
  <2>1. UNCHANGED <<ingress_stats, local, truth>>
    BY <1>12 DEF Pump, EndPump, EndSlice, TlsFails, PushEvent, EndSink, DropControl, Tick,
                 ExportInterval
  <2> QED  BY <1>0, <2>1 DEF CountType
<1> QED  BY <1>1, <1>2, <1>3, <1>4, <1>5, <1>6, <1>7, <1>8, <1>9, <1>10, <1>11, <1>12 DEF Next


-----------------------------------------------------------------------------
(* How each action changes the chunk in progress.                           *)

\* A new chunk.
NewChunk(m) ==
    /\ chunk' \in Chunks
    /\ chunk'.base = m
    /\ chunk'.batch = <<>> /\ chunk'.message_index = 0 /\ chunk'.prior = 0
    /\ chunk'.started = 0 /\ chunk'.events = 0 /\ chunk'.spent = 0

LEMMA BeginCopiedChunk ==
    ASSUME BeginCopied
    PROVE  NewChunk(Unmarked)
<1>1. PICK items \in Meaning : chunk' = [NoChunk EXCEPT !.items = items]
  BY DEF BeginCopied
<1>2. items \in Seq(Items)
  BY <1>1, MeaningType
<1>3. chunk' \in Chunks
  BY <1>1, <1>2, NoChunkType DEF Chunks
<1>4. /\ chunk'.base = NoChunk.base /\ chunk'.batch = NoChunk.batch
      /\ chunk'.message_index = NoChunk.message_index /\ chunk'.prior = NoChunk.prior
      /\ chunk'.started = NoChunk.started /\ chunk'.events = NoChunk.events
      /\ chunk'.spent = NoChunk.spent
  BY <1>1, NoChunkType DEF Chunks
<1> QED  BY <1>3, <1>4, NoChunkType DEF NewChunk

LEMMA BeginChunkChunk ==
    ASSUME TypeInv, BeginChunk
    PROVE  /\ local.chunk_index \in 0 .. IndexMax
           /\ NewChunk(IF Marked THEN PlaintextReady(local.chunk_index) ELSE Unmarked)
<1>0. local.chunk_index \in 0 .. IndexMax /\ recv_meta \in Meta /\ clock \in Nat
  BY LocalFields, Bounds DEF TypeInv, CountType, MetaType, ConnType
<1>1. PICK m : m = IF Marked THEN PlaintextReady(local.chunk_index) ELSE Unmarked
  OBVIOUS
<1>2. PICK items \in Meaning : chunk' = [NoChunk EXCEPT !.items = items, !.base = m]
  BY <1>1 DEF BeginChunk
<1>3. items \in Seq(Items) /\ m \in Meta
  BY <1>0, <1>1, <1>2, MeaningType, UnmarkedType, PlaintextReadyStep
<1>4. PICK u : u = [NoChunk EXCEPT !.items = items]
  OBVIOUS
<1>5. u \in Chunks
  BY <1>3, <1>4, NoChunkType DEF Chunks
<1>6. chunk' = [u EXCEPT !.base = m]
  BY <1>2, <1>4
<1>7. chunk' \in Chunks
  BY <1>3, <1>5, <1>6 DEF Chunks
<1>8. /\ chunk'.base = m /\ chunk'.batch = NoChunk.batch
      /\ chunk'.message_index = NoChunk.message_index /\ chunk'.prior = NoChunk.prior
      /\ chunk'.started = NoChunk.started /\ chunk'.events = NoChunk.events
      /\ chunk'.spent = NoChunk.spent
  BY <1>2, NoChunkType DEF Chunks
<1> QED  BY <1>0, <1>1, <1>7, <1>8, NoChunkType DEF NewChunk

LEMMA PushEventChunk ==
    ASSUME TypeInv, PushEvent
    PROVE  /\ chunk' \in Chunks
           /\ NextMeta \in Meta
           /\ Event(NextItem, NextMeta) \in Events /\ Event(NextItem, NextMeta).meta = NextMeta
           /\ chunk'.batch = Append(chunk.batch, Event(NextItem, NextMeta))
           /\ chunk'.message_index = NextIndex(chunk.message_index)
           /\ chunk'.base = chunk.base /\ chunk'.prior = chunk.prior
           /\ chunk'.started = chunk.started /\ chunk'.events = chunk.events
           /\ chunk'.spent = chunk.spent
           /\ Len(chunk'.batch) = Len(chunk.batch) + 1
           /\ Len(chunk'.batch) <= BatchCapacity
           /\ pc' = "call" => Len(chunk'.batch) = 1
           /\ \A i \in 1 .. Len(chunk.batch) : chunk'.batch[i] = chunk.batch[i]
           /\ chunk'.batch[Len(chunk.batch) + 1] = Event(NextItem, NextMeta)
<1>0. /\ chunk \in Chunks /\ clock \in Nat /\ marked_message_sequence \in Nat
      /\ chunk.batch \in Seq(Events) /\ Len(chunk.batch) \in Nat
      /\ chunk.message_index \in 0 .. IndexMax
  BY Bounds, ChunkFields, LenProperties DEF TypeInv, MetaType, ConnType
<1>1. NextItem \in Frames \cup {"Rest"}
  BY DEF PushEvent
<1>2. chunk.items # <<>>
  BY <1>1 DEF NextItem, Frames
<1>3. NextMeta \in Meta
  BY <1>0, NextMetaStep
<1>4. PICK ev : ev = Event(NextItem, NextMeta)
  OBVIOUS
<1>5. ev \in Events /\ ev.meta = NextMeta
  BY <1>1, <1>3, <1>4, EventType
<1>6. PICK t : t = Tail(chunk.items)
  OBVIOUS
<1>7. PICK q : q = Append(chunk.batch, ev)
  OBVIOUS
<1>8. PICK i : i = NextIndex(chunk.message_index)
  OBVIOUS
<1>9. t \in Seq(Items) /\ i \in 0 .. IndexMax
  BY <1>0, <1>2, <1>6, <1>8, HeadItem, NextIndexType
<1>10. /\ q \in Seq(Events) /\ Len(q) = Len(chunk.batch) + 1
       /\ \A j \in 1 .. Len(chunk.batch) : q[j] = chunk.batch[j]
       /\ q[Len(chunk.batch) + 1] = ev
  BY <1>0, <1>5, <1>7, AppendProperties
<1>11. chunk' = [chunk EXCEPT !.items = t, !.batch = q, !.message_index = i]
  BY <1>4, <1>6, <1>7, <1>8 DEF PushEvent
<1>12. PICK u1 : u1 = [chunk EXCEPT !.items = t]
  OBVIOUS
<1>13. PICK u2 : u2 = [u1 EXCEPT !.batch = q]
  OBVIOUS
<1>14. u1 \in Chunks
  BY <1>0, <1>9, <1>12 DEF Chunks
<1>15. u2 \in Chunks
  BY <1>10, <1>13, <1>14 DEF Chunks
<1>16. chunk' = [u2 EXCEPT !.message_index = i]
  BY <1>11, <1>12, <1>13
<1>17. chunk' \in Chunks
  BY <1>9, <1>15, <1>16 DEF Chunks
<1>18. /\ chunk'.batch = q /\ chunk'.message_index = i
       /\ chunk'.base = chunk.base /\ chunk'.prior = chunk.prior
       /\ chunk'.started = chunk.started /\ chunk'.events = chunk.events
       /\ chunk'.spent = chunk.spent
  BY <1>0, <1>11 DEF Chunks
<1>19. Len(q) <= BatchCapacity /\ (pc' = "call" => Len(q) = 1)
  <2>1. CASE NextItem = "Rest"
    <3>1. chunk.batch = <<>>
      BY <2>1 DEF PushEvent
    <3>2. Len(chunk.batch) = 0
      BY <3>1, EmptySeq
    <3> QED  BY <1>10, <3>2, Bounds
  <2>2. CASE NextItem # "Rest"
    <3>1. Room /\ pc' = "chunk"
      BY <2>2 DEF PushEvent
    <3>2. Len(chunk.batch) < BatchCapacity
      BY <1>0, <3>1, Bounds DEF Room
    <3> QED  BY <1>0, <1>10, <3>1, <3>2, Bounds
  <2> QED  BY <2>1, <2>2
<1> QED  BY <1>3, <1>4, <1>5, <1>7, <1>8, <1>10, <1>17, <1>18, <1>19

LEMMA BeginSinkChunk ==
    ASSUME TypeInv, BeginSink
    PROVE  /\ chunk' \in Chunks
           /\ chunk.batch \in Seq(Events) /\ chunk.batch # <<>> /\ Len(chunk.batch) \in Nat \ {0}
           /\ chunk'.batch = <<>> /\ chunk'.events = chunk.events + Len(chunk.batch)
           /\ chunk'.started = IF chunk.base.sampled THEN clock ELSE 0
           /\ chunk'.base = chunk.base /\ chunk'.prior = chunk.prior
           /\ chunk'.message_index = chunk.message_index /\ chunk'.spent = chunk.spent
<1>0. /\ chunk \in Chunks /\ clock \in Nat /\ chunk.batch \in Seq(Events)
      /\ Len(chunk.batch) \in Nat /\ chunk.events \in Nat
  BY Bounds, ChunkFields, LenProperties DEF TypeInv, MetaType, ConnType
<1>1. chunk.batch # <<>>
  <2>1. CASE pc = "call"
    <3>1. Len(chunk.batch) = 1
      BY <2>1 DEF TypeInv, PhaseInv
    <3>2. Len(<<>>) = 0
      BY EmptySeq
    <3> QED  BY <3>1, <3>2
  <2>2. CASE pc # "call"
    BY <2>2 DEF BeginSink, FlushDue
  <2> QED  BY <2>1, <2>2
<1>2. PICK n : n = chunk.events + Len(chunk.batch)
  OBVIOUS
<1>3. PICK s : s = IF chunk.base.sampled THEN clock ELSE 0
  OBVIOUS
<1>4. n \in Nat /\ s \in Nat /\ <<>> \in Seq(Events)
  BY <1>0, <1>2, <1>3, EmptySeq
<1>5. chunk' = [chunk EXCEPT !.batch = <<>>, !.events = n, !.started = s]
  BY <1>2, <1>3 DEF BeginSink
<1>6. PICK u1 : u1 = [chunk EXCEPT !.batch = <<>>]
  OBVIOUS
<1>7. PICK u2 : u2 = [u1 EXCEPT !.events = n]
  OBVIOUS
<1>8. u1 \in Chunks
  BY <1>0, <1>4, <1>6 DEF Chunks
<1>9. u2 \in Chunks
  BY <1>4, <1>7, <1>8 DEF Chunks
<1>10. chunk' = [u2 EXCEPT !.started = s]
  BY <1>5, <1>6, <1>7
<1>11. chunk' \in Chunks
  BY <1>4, <1>9, <1>10 DEF Chunks
<1>12. /\ chunk'.batch = <<>> /\ chunk'.events = n /\ chunk'.started = s
       /\ chunk'.base = chunk.base /\ chunk'.prior = chunk.prior
       /\ chunk'.message_index = chunk.message_index /\ chunk'.spent = chunk.spent
  BY <1>0, <1>5 DEF Chunks
<1>13. Len(chunk.batch) \in Nat \ {0}
  BY <1>0, <1>1, EmptySeq
<1> QED  BY <1>0, <1>1, <1>2, <1>3, <1>11, <1>12, <1>13

LEMMA EndSinkChunk ==
    ASSUME TypeInv, EndSink
    PROVE  /\ chunk' \in Chunks
           /\ chunk'.prior = IF chunk.base.sampled THEN chunk.prior + clock - chunk.started
                             ELSE chunk.prior
           /\ chunk'.started = 0
           /\ chunk'.base = chunk.base /\ chunk'.batch = chunk.batch
           /\ chunk'.message_index = chunk.message_index /\ chunk'.events = chunk.events
           /\ chunk'.spent = chunk.spent
<1>0. /\ chunk \in Chunks /\ clock \in Nat /\ chunk.prior \in Nat /\ chunk.started \in Nat
      /\ chunk.started <= clock
  BY Bounds, ChunkFields DEF TypeInv, MetaType, ConnType, PhaseInv
<1>1. PICK n : n = IF chunk.base.sampled THEN chunk.prior + clock - chunk.started ELSE chunk.prior
  OBVIOUS
<1>2. n \in Nat /\ 0 \in Nat
  BY <1>0, <1>1
<1>3. chunk' = [chunk EXCEPT !.prior = n, !.started = 0]
  BY <1>1 DEF EndSink
<1>4. PICK u : u = [chunk EXCEPT !.prior = n]
  OBVIOUS
<1>5. u \in Chunks
  BY <1>0, <1>2, <1>4 DEF Chunks
<1>6. chunk' = [u EXCEPT !.started = 0]
  BY <1>3, <1>4
<1>7. chunk' \in Chunks
  BY <1>5, <1>6 DEF Chunks
<1>8. /\ chunk'.prior = n /\ chunk'.started = 0
      /\ chunk'.base = chunk.base /\ chunk'.batch = chunk.batch
      /\ chunk'.message_index = chunk.message_index /\ chunk'.events = chunk.events
      /\ chunk'.spent = chunk.spent
  BY <1>0, <1>3 DEF Chunks
<1> QED  BY <1>1, <1>7, <1>8

LEMMA DropControlChunk ==
    ASSUME TypeInv, DropControl
    PROVE  /\ chunk' \in Chunks
           /\ chunk'.base = chunk.base /\ chunk'.batch = chunk.batch /\ chunk'.batch = <<>>
           /\ chunk'.message_index = chunk.message_index /\ chunk'.events = chunk.events
           /\ chunk'.spent = chunk.spent /\ chunk'.prior = chunk.prior
           /\ chunk'.started = chunk.started
<1>0. chunk \in Chunks
  BY DEF TypeInv, MetaType
<1>1. chunk.items # <<>> /\ chunk.batch = <<>>
  BY DEF DropControl, NextItem
<1>2. PICK t : t = IF ws_open' THEN Tail(chunk.items) ELSE <<>>
  OBVIOUS
<1>3. t \in Seq(Items)
  BY <1>0, <1>1, <1>2, HeadItem, EmptySeq
<1>4. chunk' = [chunk EXCEPT !.items = t]
  BY <1>2 DEF DropControl
<1> QED  BY <1>0, <1>1, <1>3, <1>4 DEF Chunks

LEMMA TickChunk ==
    ASSUME TypeInv, Tick
    PROVE  /\ chunk' \in Chunks
           /\ chunk'.spent = IF pc = "sink" THEN chunk.spent + 1 ELSE chunk.spent
           /\ chunk'.base = chunk.base /\ chunk'.batch = chunk.batch
           /\ chunk'.message_index = chunk.message_index /\ chunk'.events = chunk.events
           /\ chunk'.prior = chunk.prior /\ chunk'.started = chunk.started
           /\ chunk'.items = chunk.items
           /\ pc = "handler" => chunk' = chunk
<1>0. chunk \in Chunks /\ chunk.spent \in Nat
  BY ChunkFields DEF TypeInv, MetaType
<1>1. PICK n : n = IF pc = "sink" THEN chunk.spent + 1 ELSE chunk.spent
  OBVIOUS
<1>2. n \in Nat
  BY <1>0, <1>1
<1>3. chunk' = [chunk EXCEPT !.spent = n]
  BY <1>1 DEF Tick
<1>4. pc = "handler" => n = chunk.spent
  BY <1>1
<1> QED  BY <1>0, <1>1, <1>2, <1>3, <1>4 DEF Chunks


\* The last message of a batch that the sink is given.
LEMMA LastMeta ==
    ASSUME TypeInv, BeginSink
    PROVE  /\ chunk.batch[Len(chunk.batch)].meta \in Meta
           /\ <<chunk.batch[Len(chunk.batch)].meta>> \in Seq(Meta)
           /\ Len(<<chunk.batch[Len(chunk.batch)].meta>>) = 1
<1>1. chunk.batch \in Seq(Events) /\ Len(chunk.batch) \in Nat \ {0}
  BY BeginSinkChunk
<1>2. Len(chunk.batch) \in 1 .. Len(chunk.batch)
  BY <1>1
<1>3. chunk.batch[Len(chunk.batch)] \in Events
  BY <1>1, <1>2, ElementOfSeq
<1>4. chunk.batch[Len(chunk.batch)].meta \in Meta
  BY <1>3 DEF Events
<1> QED  BY <1>4, Single

LEMMA MetaTypeNext ==
    ASSUME TypeInv, Next
    PROVE  MetaType'
<1> USE DEF connVars, seqVars, histVars, handlerVars
<1>0. MetaType /\ clock \in Nat /\ marked_recv_sequence \in Nat
  BY Bounds DEF TypeInv, ConnType
<1>1. CASE BeginCopied
  BY <1>0, <1>1, BeginCopiedChunk DEF BeginCopied, MetaType, NewChunk
<1>2. CASE ObserveCqe
  <2>1. RecvObserved \in Meta
    BY <1>0, RecvObservedStep
  <2> QED  BY <1>0, <1>2, <2>1 DEF ObserveCqe, MetaType
<1>3. CASE BeginChunk
  BY <1>0, <1>3, BeginChunkChunk DEF BeginChunk, MetaType, NewChunk
<1>4. CASE PushEvent
  BY <1>0, <1>4, PushEventChunk DEF PushEvent, MetaType
<1>5. CASE BeginSink
  <2>1. delivered' \in Seq(Meta) /\ Len(delivered') <= 1
    <3>1. PICK d : d = <<chunk.batch[Len(chunk.batch)].meta>>
      OBVIOUS
    <3>2. d \in Seq(Meta) /\ Len(d) = 1
      BY <1>5, <3>1, LastMeta
    <3>3. delivered' = delivered \/ delivered' = d
      BY <1>5, <3>1 DEF BeginSink
    <3>4. delivered \in Seq(Meta) /\ Len(delivered) <= 1
      BY <1>0 DEF MetaType
    <3>5. CASE delivered' = delivered
      BY <3>4, <3>5
    <3>6. CASE delivered' = d
      <4>1. 1 <= 1
        OBVIOUS
      <4> QED  BY <3>2, <3>6, <4>1
    <3> QED  BY <3>3, <3>5, <3>6
  <2> QED  BY <1>0, <1>5, <2>1, BeginSinkChunk DEF BeginSink, MetaType
<1>6. CASE EndSink
  BY <1>0, <1>6, EndSinkChunk DEF EndSink, MetaType
<1>7. CASE DropControl
  BY <1>0, <1>7, DropControlChunk DEF DropControl, MetaType
<1>8. CASE EndChunk
  BY <1>0, <1>8, NoChunkType DEF EndChunk, MetaType
<1>9. CASE Tick
  BY <1>0, <1>9, TickChunk DEF Tick, MetaType
<1>10. CASE Pump \/ Discard \/ NoData \/ General \/ BeginSingle \/ BeginRun \/ EndPump \/ SkipSlice
            \/ EndSlice \/ TlsFails \/ EndHandler \/ ExportInterval
  <2>1. UNCHANGED <<recv_meta, chunk, delivered>>
    BY <1>10 DEF Pump, Discard, NoData, General, BeginSingle, BeginRun, EndPump, SkipSlice,
                 EndSlice, TlsFails, EndHandler, ExportInterval
  <2> QED  BY <1>0, <2>1 DEF MetaType
<1> QED  BY <1>1, <1>2, <1>3, <1>4, <1>5, <1>6, <1>7, <1>8, <1>9, <1>10 DEF Next

LEMMA PhaseNext ==
    ASSUME TypeInv, Next
    PROVE  PhaseInv'
<1> USE DEF connVars, seqVars, histVars, handlerVars
<1>0. /\ PhaseInv /\ clock \in Nat /\ chunk \in Chunks /\ chunk.started \in Nat
      /\ BatchCapacity \in Nat /\ Len(<<>>) = 0
  BY Bounds, EmptySeq, ChunkFields DEF TypeInv, ConnType, MetaType
<1>1. CASE BeginCopied
  <2>1. chunk'.batch = <<>> /\ chunk'.started = 0
    BY <1>1, BeginCopiedChunk DEF NewChunk
  <2>2. pc' = "chunk" /\ clock' = clock
    BY <1>1 DEF BeginCopied
  <2> QED  BY <1>0, <2>1, <2>2 DEF PhaseInv
<1>2. CASE BeginChunk
  <2>1. chunk'.batch = <<>> /\ chunk'.started = 0
    BY <1>2, BeginChunkChunk DEF NewChunk
  <2>2. pc' = "chunk" /\ clock' = clock
    BY <1>2 DEF BeginChunk
  <2> QED  BY <1>0, <2>1, <2>2 DEF PhaseInv
<1>3. CASE PushEvent
  <2>1. /\ chunk'.started = chunk.started /\ Len(chunk'.batch) <= BatchCapacity
        /\ pc' = "call" => Len(chunk'.batch) = 1
    BY <1>3, PushEventChunk
  <2>2. pc' \in {"chunk", "call"} /\ clock' = clock
    BY <1>3 DEF PushEvent
  <2> QED  BY <1>0, <2>1, <2>2 DEF PhaseInv
<1>4. CASE BeginSink
  <2>1. chunk'.batch = <<>> /\ chunk'.started \in {0, clock}
    BY <1>4, BeginSinkChunk
  <2>2. pc' = "sink" /\ clock' = clock
    BY <1>4 DEF BeginSink
  <2> QED  BY <1>0, <2>1, <2>2 DEF PhaseInv
<1>5. CASE EndSink
  <2>1. chunk'.batch = chunk.batch /\ chunk'.started = 0
    BY <1>5, EndSinkChunk
  <2>2. pc' = "chunk" /\ clock' = clock
    BY <1>5 DEF EndSink
  <2> QED  BY <1>0, <2>1, <2>2 DEF PhaseInv
<1>6. CASE DropControl
  <2>1. chunk'.batch = chunk.batch /\ chunk'.started = chunk.started
    BY <1>6, DropControlChunk
  <2>2. pc' = "chunk" /\ clock' = clock
    BY <1>6 DEF DropControl
  <2> QED  BY <1>0, <2>1, <2>2 DEF PhaseInv
<1>7. CASE EndChunk
  <2>1. pc' = "handler" /\ clock' = clock /\ chunk' = NoChunk
    BY <1>7 DEF EndChunk
  <2> QED  BY <1>0, <2>1, NoChunkType DEF PhaseInv
<1>8. CASE Tick
  <2>1. chunk'.batch = chunk.batch /\ chunk'.started = chunk.started
    BY <1>8, TickChunk
  <2>2. pc' = pc /\ clock' = clock + 1 /\ UNCHANGED <<run, slices>>
    BY <1>8 DEF Tick
  <2>3. pc \notin {"chunk", "call", "sink"} => pc = "handler" /\ chunk' = chunk
    BY <1>8, TickChunk DEF Tick
  <2> QED  BY <1>0, <2>1, <2>2, <2>3 DEF PhaseInv
<1>9. CASE TlsFails \/ EndHandler
  <2>1. UNCHANGED <<chunk, clock>> /\ pc = "handler" /\ pc' = "dispatch"
    BY <1>9 DEF TlsFails, EndHandler, InSlice, Handling
  <2>2. run' = <<>> /\ slices' = <<>>
    BY <1>9 DEF TlsFails, EndHandler, Handling
  <2> QED  BY <1>0, <2>1, <2>2 DEF PhaseInv
<1>10. CASE BeginSingle \/ BeginRun
  <2>1. UNCHANGED <<chunk, clock>> /\ pc = "dispatch" /\ pc' = "handler"
    BY <1>10 DEF BeginSingle, BeginRun, BeginsRun, DataHead, Dispatching
  <2> QED  BY <1>0, <2>1 DEF PhaseInv
<1>11. CASE ObserveCqe \/ SkipSlice \/ EndSlice
  <2>1. UNCHANGED <<chunk, clock, pc>> /\ pc = "handler"
    BY <1>11 DEF ObserveCqe, SkipSlice, EndSlice, InSlice, Handling
  <2> QED  BY <1>0, <2>1 DEF PhaseInv
<1>12. CASE Pump \/ Discard \/ NoData \/ General \/ EndPump \/ ExportInterval
  <2>1. /\ UNCHANGED <<chunk, clock, run, slices>> /\ pc \in {"ready", "dispatch"}
        /\ pc' \in {"ready", "dispatch"}
    BY <1>12 DEF Pump, Discard, NoData, General, EndPump, ExportInterval, DataHead, Dispatching
  <2> QED  BY <1>0, <2>1 DEF PhaseInv
<1> QED  BY <1>1, <1>2, <1>3, <1>4, <1>5, <1>6, <1>7, <1>8, <1>9, <1>10, <1>11, <1>12 DEF Next

LEMMA TypeInit == Init => TypeInv
<1> SUFFICES ASSUME Init PROVE TypeInv
  OBVIOUS
<1> USE Bounds, EmptySeq
<1>1. cfg \in Configs
  <2>1. \E a \in BOOLEAN, b \in BOOLEAN, n \in Nat : cfg = [tls |-> a, bundle |-> b, copy |-> n]
    BY DEF Init
  <2> QED  BY <2>1 DEF Configs
<1>2. ConnType
  <2>1. /\ closed = FALSE /\ ws_open = TRUE /\ tls_failed = FALSE /\ clock = 0
        /\ flavour = "pump" /\ pc = "ready"
        /\ marked_recv_sequence = 0 /\ marked_message_sequence = 0
        /\ buf = <<>> /\ run = <<>> /\ slices = <<>>
    BY DEF Init
  <2>2. 0 \in 0 .. MaxClock /\ <<>> \in Seq(Cqes) /\ <<>> \in Seq(Nat)
    OBVIOUS
  <2>3. /\ closed \in BOOLEAN /\ ws_open \in BOOLEAN /\ tls_failed \in BOOLEAN
        /\ tls_failed => cfg.tls
    BY <2>1
  <2>4. /\ clock \in 0 .. MaxClock /\ flavour \in Flavours
        /\ marked_recv_sequence \in Nat /\ marked_message_sequence \in Nat
        /\ buf \in Seq(Cqes) /\ run \in Seq(Cqes) /\ slices \in Seq(Nat)
    BY <2>1, <2>2 DEF Flavours
  <2> QED  BY <1>1, <2>1, <2>3, <2>4 DEF ConnType
<1> USE DEF Init
<1>3. NoStats \in IngressStats
  BY DEF NoStats, IngressStats
<1>4. truth \in Truths
  BY DEF Truths
<1>5. CountType
  BY <1>3, <1>4, NoLocalType DEF CountType
<1>6. MetaType
  BY UnmarkedType, NoChunkType DEF MetaType
<1>7. HistType
  BY NoSamplesType DEF HistType
<1>8. PhaseInv
  BY NoChunkType DEF PhaseInv
<1> QED  BY <1>2, <1>5, <1>6, <1>7, <1>8 DEF TypeInv

LEMMA TypeNext == TypeInv /\ [Next]_vars => TypeInv'
<1> SUFFICES ASSUME TypeInv, [Next]_vars PROVE TypeInv'
  OBVIOUS
<1>1. CASE Next
  BY <1>1, ConnTypeNext, CountTypeNext, MetaTypeNext, HistTypeNext, PhaseNext DEF TypeInv
<1>2. CASE UNCHANGED vars
  BY <1>2 DEF vars, connVars, seqVars, histVars, handlerVars, TypeInv, ConnType, CountType, MetaType,
              HistType, PhaseInv
<1> QED  BY <1>1, <1>2

\* The state stays within its types, whatever a chunk holds: no batch is over its
\* capacity, no chunk is in progress outside a handler, and no histogram is given a
\* time below zero.
THEOREM IngressTypeOK == Spec => []TypeOK
<1>1. TypeInv => TypeOK
  <2> SUFFICES ASSUME TypeInv PROVE TypeOK
    OBVIOUS
  <2>1. ConnType /\ CountType /\ MetaType /\ HistType /\ PhaseInv
    BY DEF TypeInv
  <2>2. chunk.base \in Meta
    BY <2>1, ChunkFields DEF MetaType
  <2>3. \A i \in 1 .. Len(delivered) : delivered[i] \in Meta
    BY <2>1, ElementOfSeq DEF MetaType
  <2> QED  BY <2>1, <2>2, <2>3 DEF TypeOK, ConnType, CountType, MetaType, HistType, PhaseInv,
                                   Histograms
<1> QED  BY <1>1, TypeInit, TypeNext, PTL DEF Spec


LEMMA TypeAlways == Spec => []TypeInv
BY TypeInit, TypeNext, PTL DEF Spec

-----------------------------------------------------------------------------
(* Intervals.                                                               *)

LEMMA PartitionNext ==
    ASSUME TypeInv, IntervalsPartition, [Next]_vars
    PROVE  IntervalsPartition'
<1> USE DEF connVars, seqVars, histVars, handlerVars
<1>0. /\ cumulative \in Histograms /\ interval \in Histograms /\ exported \in Histograms
      /\ chunk \in Chunks /\ cumulative = Plus(exported, interval)
  BY DEF TypeInv, HistType, MetaType, IntervalsPartition
<1>1. CASE BeginSink
  <2>1. chunk.batch \in Seq(Events)
    BY <1>0, ChunkFields
  <2>2. RecordMessages(cumulative, chunk.batch) = Plus(exported, RecordMessages(interval, chunk.batch))
    BY <1>0, <2>1, RecordMessagesPlus
  <2> QED  BY <1>0, <1>1, <2>2 DEF BeginSink, IntervalsPartition
<1>2. CASE EndChunk
  <2>1. PICK m : m = chunk.base
    OBVIOUS
  <2>2. m \in Meta
    BY <1>0, <2>1, ChunkFields
  <2>3. /\ ChunkSample(m) \in Histograms
        /\ RecordChunk(cumulative, m) = Plus(cumulative, ChunkSample(m))
        /\ RecordChunk(interval, m) = Plus(interval, ChunkSample(m))
    BY <1>0, <2>2, RecordChunkIs
  <2>4. RecordChunk(cumulative, m) = Plus(exported, RecordChunk(interval, m))
    BY <1>0, <2>3, PlusAssoc
  <2> QED  BY <1>0, <1>2, <2>1, <2>4 DEF EndChunk, IntervalsPartition
<1>3. CASE ExportInterval
  <2>1. Plus(Plus(exported, interval), NoSamples) = Plus(exported, interval)
    BY <1>0, PlusType, PlusNothing
  <2> QED  BY <1>0, <1>3, <2>1 DEF ExportInterval, IntervalsPartition
<1>4. CASE ~(BeginSink \/ EndChunk \/ ExportInterval)
  <2>1. UNCHANGED <<cumulative, interval, exported>>
    BY <1>4 DEF Next, Pump, Discard, NoData, General, BeginSingle, BeginRun, BeginCopied, EndPump,
                ObserveCqe, BeginChunk, SkipSlice, EndSlice, TlsFails, EndHandler, PushEvent,
                EndSink, DropControl, Tick, vars
  <2> QED  BY <1>0, <2>1 DEF IntervalsPartition
<1> QED  BY <1>1, <1>2, <1>3, <1>4

\* Every sample is in the histograms of the lifetime and in exactly one interval, however
\* often an interval is written out and however often writing it fails.
THEOREM IngressIntervals == Spec => []IntervalsPartition
<1>1. Init => IntervalsPartition
  BY NoSamplesType, PlusNothing DEF Init, IntervalsPartition
<1> QED  BY <1>1, PartitionNext, TypeAlways, PTL DEF Spec

-----------------------------------------------------------------------------
(* Times.                                                                   *)

\* The times of a message of which the sink took spent of its chunk before it, now.
MetaOK(m, spent, now) ==
    IF m.sampled
    THEN /\ m.recv <= m.plaintext /\ m.plaintext + m.prior <= m.ws /\ m.ws <= now
         /\ m.prior = spent
         /\ m.message_index = 0 => m.prior = 0
    ELSE {m.recv, m.plaintext, m.ws, m.prior} = {0}

BatchTimes == \A i \in 1 .. Len(chunk.batch) : MetaOK(chunk.batch[i].meta, chunk.spent, clock)

\* A CQE was received before now.
RecvTimes ==
    /\ recv_meta.recv <= clock
    /\ ~recv_meta.sampled => recv_meta.recv = 0

\* A chunk was ready before the sink took its time of it.
ChunkTimes ==
    /\ ~chunk.base.sampled => chunk.base.recv = 0 /\ chunk.base.plaintext = 0
    /\ chunk.base.sampled =>
          /\ chunk.base.recv <= chunk.base.plaintext
          /\ pc # "sink" => /\ chunk.prior = chunk.spent
                            /\ chunk.base.plaintext + chunk.prior <= clock
          /\ pc = "sink" => /\ chunk.prior + (clock - chunk.started) = chunk.spent
                            /\ chunk.base.plaintext + chunk.prior <= chunk.started

\* The sink has taken nothing before the first message.
IndexTimes ==
    /\ chunk.message_index = 0 => chunk.spent = 0 /\ chunk.batch = <<>>
    /\ pc = "sink" => chunk.message_index # 0

TimeInv == RecvTimes /\ ChunkTimes /\ IndexTimes /\ BatchTimes

LEMMA RecvTimesNext ==
    ASSUME TypeInv, TimeInv, Next
    PROVE  RecvTimes'
<1> USE DEF connVars, seqVars, histVars, handlerVars
<1>0. RecvTimes /\ clock \in Nat /\ marked_recv_sequence \in Nat /\ recv_meta.recv \in Nat
  BY Bounds, MetaFields DEF TypeInv, ConnType, MetaType, TimeInv
<1>1. CASE ObserveCqe
  <2>1. clock' = clock /\ (recv_meta' = RecvObserved \/ recv_meta' = recv_meta)
    BY <1>1 DEF ObserveCqe
  <2>2. CASE recv_meta' = RecvObserved
    <3>1. /\ recv_meta'.sampled => recv_meta'.recv = clock
          /\ ~recv_meta'.sampled => recv_meta'.recv = 0
      BY <1>0, <2>2, RecvObservedStep
    <3> QED  BY <1>0, <2>1, <3>1 DEF RecvTimes
  <2>3. CASE recv_meta' = recv_meta
    BY <1>0, <2>1, <2>3 DEF RecvTimes
  <2> QED  BY <2>1, <2>2, <2>3
<1>2. CASE Tick
  <2>1. clock' = clock + 1 /\ recv_meta' = recv_meta
    BY <1>2 DEF Tick
  <2> QED  BY <1>0, <2>1 DEF RecvTimes
<1>3. CASE ~(ObserveCqe \/ Tick)
  <2>1. UNCHANGED <<recv_meta, clock>>
    BY <1>3 DEF Next, Pump, Discard, NoData, General, BeginSingle, BeginRun, BeginCopied, EndPump,
                BeginChunk, SkipSlice, EndSlice, TlsFails, EndHandler, PushEvent, BeginSink,
                EndSink, DropControl, EndChunk, ExportInterval
  <2> QED  BY <1>0, <2>1 DEF RecvTimes
<1> QED  BY <1>1, <1>2, <1>3

\* A chunk that is not one has no times.
LEMMA NoChunkTimes ==
    ASSUME chunk' = NoChunk
    PROVE  ChunkTimes' /\ (pc' # "sink" => IndexTimes') /\ BatchTimes'
<1>1. chunk'.batch = <<>> /\ Len(<<>>) = 0 /\ chunk'.base = Unmarked /\ chunk'.spent = 0
  BY EmptySeq, NoChunkType
<1>2. ~chunk'.base.sampled /\ chunk'.base.recv = 0 /\ chunk'.base.plaintext = 0
  BY <1>1, UnmarkedType
<1>3. ChunkTimes'
  BY <1>2 DEF ChunkTimes
<1>4. pc' # "sink" => IndexTimes'
  BY <1>1 DEF IndexTimes
<1>5. BatchTimes'
  BY <1>1 DEF BatchTimes
<1> QED  BY <1>3, <1>4, <1>5

\* A new chunk is ready now.
LEMMA NewChunkTimes ==
    ASSUME NEW m \in Meta, NewChunk(m), pc' = "chunk", clock' = clock, clock \in Nat,
           ~m.sampled => m.recv = 0 /\ m.plaintext = 0,
           m.sampled => m.recv <= m.plaintext /\ m.plaintext <= clock
    PROVE  ChunkTimes' /\ IndexTimes' /\ BatchTimes'
<1>1. /\ chunk'.base = m /\ chunk'.batch = <<>> /\ chunk'.prior = 0 /\ chunk'.spent = 0
      /\ Len(<<>>) = 0 /\ m.plaintext \in Nat
  BY EmptySeq, MetaFields DEF NewChunk
<1>2. ChunkTimes'
  BY <1>1 DEF ChunkTimes
<1>3. IndexTimes'
  BY <1>1 DEF IndexTimes
<1>4. BatchTimes'
  BY <1>1 DEF BatchTimes
<1> QED  BY <1>2, <1>3, <1>4

\* Time does not change what was measured.
LEMMA MetaOKLater ==
    ASSUME NEW m \in Meta, NEW spent \in Nat, NEW now \in Nat, MetaOK(m, spent, now)
    PROVE  MetaOK(m, spent, now + 1)
<1>1. m.ws \in Nat
  BY MetaFields
<1>2. CASE m.sampled
  BY <1>1, <1>2 DEF MetaOK
<1>3. CASE ~m.sampled
  BY <1>3 DEF MetaOK
<1> QED  BY <1>2, <1>3

LEMMA BatchMeta ==
    ASSUME chunk \in Chunks
    PROVE  /\ Len(chunk.batch) \in Nat
           /\ \A i \in 1 .. Len(chunk.batch) : chunk.batch[i] \in Events /\ chunk.batch[i].meta \in Meta
<1>1. chunk.batch \in Seq(Events)
  BY ChunkFields
<1>2. ASSUME NEW i \in 1 .. Len(chunk.batch)
      PROVE  chunk.batch[i] \in Events /\ chunk.batch[i].meta \in Meta
  <2>1. chunk.batch[i] \in Events
    BY <1>1, ElementOfSeq
  <2> QED  BY <2>1 DEF Events
<1> QED  BY <1>1, <1>2, LenProperties

\* The chunk in progress.
LEMMA ChunkTimesNext ==
    ASSUME TypeInv, TimeInv, Next
    PROVE  ChunkTimes' /\ IndexTimes' /\ BatchTimes'
<1> USE DEF connVars, seqVars, histVars, handlerVars
<1>0. /\ ChunkTimes /\ IndexTimes /\ BatchTimes /\ RecvTimes
      /\ clock \in Nat /\ chunk \in Chunks /\ recv_meta \in Meta
      /\ marked_message_sequence \in Nat /\ PhaseInv /\ Len(<<>>) = 0
  BY Bounds, EmptySeq DEF TypeInv, ConnType, MetaType, TimeInv
<1>00. /\ chunk.base \in Meta /\ chunk.base.recv \in Nat /\ chunk.base.plaintext \in Nat
       /\ chunk.prior \in Nat /\ chunk.spent \in Nat /\ chunk.started \in Nat
       /\ chunk.message_index \in 0 .. IndexMax /\ Len(chunk.batch) \in Nat
  BY <1>0, ChunkFields, MetaFields, BatchMeta
<1>1. CASE BeginCopied
  <2>1. NewChunk(Unmarked) /\ pc' = "chunk" /\ clock' = clock
    BY <1>1, BeginCopiedChunk DEF BeginCopied
  <2> QED  BY <1>0, <2>1, NewChunkTimes, UnmarkedType
<1>2. CASE BeginChunk
  <2>1. PICK m : m = IF Marked THEN PlaintextReady(local.chunk_index) ELSE Unmarked
    OBVIOUS
  <2>2. NewChunk(m) /\ local.chunk_index \in 0 .. IndexMax
    BY <1>2, <2>1, BeginChunkChunk
  <2>3. pc' = "chunk" /\ clock' = clock
    BY <1>2 DEF BeginChunk
  <2>4. CASE Marked
    <3>1. m = PlaintextReady(local.chunk_index)
      BY <2>1, <2>4
    <3>2. /\ m \in Meta /\ m.sampled = recv_meta.sampled /\ m.recv = recv_meta.recv
          /\ m.sampled => m.plaintext \in {clock, m.recv}
          /\ ~m.sampled => m.plaintext = 0
      BY <1>0, <2>2, <3>1, PlaintextReadyStep
    <3>3. m.recv <= clock /\ (~m.sampled => m.recv = 0) /\ m.recv \in Nat
      BY <1>0, <3>2, MetaFields DEF RecvTimes
    <3>4. m.sampled => m.recv <= m.plaintext /\ m.plaintext <= clock
      BY <1>0, <3>2, <3>3
    <3> QED  BY <1>0, <2>2, <2>3, <3>2, <3>3, <3>4, NewChunkTimes
  <2>5. CASE ~Marked
    BY <1>0, <2>1, <2>2, <2>3, <2>5, NewChunkTimes, UnmarkedType
  <2> QED  BY <2>4, <2>5
<1>3. CASE PushEvent
  <2>1. /\ chunk'.base = chunk.base /\ chunk'.prior = chunk.prior
        /\ chunk'.spent = chunk.spent /\ chunk'.started = chunk.started
        /\ chunk'.message_index = NextIndex(chunk.message_index)
        /\ Len(chunk'.batch) = Len(chunk.batch) + 1
        /\ \A i \in 1 .. Len(chunk.batch) : chunk'.batch[i] = chunk.batch[i]
        /\ chunk'.batch[Len(chunk.batch) + 1].meta = NextMeta
    BY <1>3, PushEventChunk
  <2>2. pc = "chunk" /\ pc' \in {"chunk", "call"} /\ clock' = clock
    BY <1>3 DEF PushEvent
  <2>3. ChunkTimes'
    BY <1>0, <2>1, <2>2 DEF ChunkTimes
  <2>4. IndexTimes'
    <3>1. NextIndex(chunk.message_index) # 0
      BY <1>00, Bounds DEF NextIndex
    <3> QED  BY <2>1, <3>1 DEF IndexTimes
  <2>5. PICK m : m = NextMeta
    OBVIOUS
  <2>6. MetaOK(m, chunk.spent, clock)
    <3>1. /\ m \in Meta
          /\ m.sampled = chunk.base.sampled /\ m.message_index = chunk.message_index
          /\ m.recv = chunk.base.recv /\ m.plaintext = chunk.base.plaintext
          /\ m.sampled => m.ws = clock /\ m.prior = chunk.prior
          /\ ~m.sampled => m.ws = 0 /\ m.prior = 0
      BY <1>0, <2>5, NextMetaStep
    <3>2. CASE m.sampled
      <4>1. /\ m.ws = clock /\ m.prior = chunk.prior /\ chunk.prior = chunk.spent
            /\ m.recv <= m.plaintext /\ m.plaintext + m.prior <= clock
        BY <1>0, <2>2, <3>1, <3>2 DEF ChunkTimes
      <4>2. m.message_index = 0 => m.prior = 0
        BY <1>0, <3>1, <4>1 DEF IndexTimes
      <4> QED  BY <1>0, <3>2, <4>1, <4>2 DEF MetaOK
    <3>3. CASE ~m.sampled
      <4>1. m.ws = 0 /\ m.prior = 0 /\ m.recv = 0 /\ m.plaintext = 0
        BY <1>0, <3>1, <3>3 DEF ChunkTimes
      <4> QED  BY <3>3, <4>1 DEF MetaOK
    <3> QED  BY <3>2, <3>3
  <2>7. BatchTimes'
    <3> SUFFICES ASSUME NEW i \in 1 .. Len(chunk'.batch)
                 PROVE  MetaOK(chunk'.batch[i].meta, chunk'.spent, clock')
      BY DEF BatchTimes
    <3>1. CASE i \in 1 .. Len(chunk.batch)
      BY <1>0, <2>1, <2>2, <3>1 DEF BatchTimes
    <3>2. CASE i \notin 1 .. Len(chunk.batch)
      <4>1. i = Len(chunk.batch) + 1
        BY <1>00, <2>1, <3>2
      <4> QED  BY <2>1, <2>2, <2>5, <2>6, <4>1
    <3> QED  BY <3>1, <3>2
  <2> QED  BY <2>3, <2>4, <2>7
<1>4. CASE BeginSink
  <2>1. /\ chunk'.base = chunk.base /\ chunk'.prior = chunk.prior
        /\ chunk'.spent = chunk.spent /\ chunk'.message_index = chunk.message_index
        /\ chunk'.batch = <<>> /\ chunk.batch # <<>>
        /\ chunk'.started = IF chunk.base.sampled THEN clock ELSE 0
    BY <1>4, BeginSinkChunk
  <2>2. pc \in {"chunk", "call"} /\ pc' = "sink" /\ clock' = clock
    BY <1>4 DEF BeginSink, FlushDue
  <2>3. ChunkTimes'
    <3>1. CASE chunk.base.sampled
      <4>1. chunk'.started = clock /\ clock - clock = 0
        BY <1>0, <2>1, <3>1
      <4>2. /\ chunk.base.recv <= chunk.base.plaintext /\ chunk.prior = chunk.spent
            /\ chunk.base.plaintext + chunk.prior <= clock
        BY <1>0, <2>2, <3>1 DEF ChunkTimes
      <4> QED  BY <1>0, <1>00, <2>1, <2>2, <3>1, <4>1, <4>2 DEF ChunkTimes
    <3>2. CASE ~chunk.base.sampled
      BY <1>0, <2>1, <3>2 DEF ChunkTimes
    <3> QED  BY <3>1, <3>2
  <2>4. IndexTimes'
    BY <1>0, <2>1 DEF IndexTimes
  <2>5. BatchTimes'
    BY <1>0, <2>1 DEF BatchTimes
  <2> QED  BY <2>3, <2>4, <2>5
<1>5. CASE EndSink
  <2>1. /\ chunk'.base = chunk.base /\ chunk'.batch = chunk.batch
        /\ chunk'.spent = chunk.spent /\ chunk'.message_index = chunk.message_index
        /\ chunk'.prior = IF chunk.base.sampled THEN chunk.prior + clock - chunk.started
                          ELSE chunk.prior
    BY <1>5, EndSinkChunk
  <2>2. pc = "sink" /\ pc' = "chunk" /\ clock' = clock
    BY <1>5 DEF EndSink
  <2>3. ChunkTimes'
    <3>1. CASE chunk.base.sampled
      <4>1. /\ chunk.base.recv <= chunk.base.plaintext
            /\ chunk.prior + (clock - chunk.started) = chunk.spent
            /\ chunk.base.plaintext + chunk.prior <= chunk.started
            /\ chunk'.prior = chunk.prior + clock - chunk.started
        BY <1>0, <2>1, <2>2, <3>1 DEF ChunkTimes
      <4>2. chunk'.prior = chunk.spent /\ chunk.base.plaintext + chunk'.prior <= clock
        BY <1>0, <1>00, <4>1
      <4> QED  BY <2>1, <2>2, <3>1, <4>1, <4>2 DEF ChunkTimes
    <3>2. CASE ~chunk.base.sampled
      BY <1>0, <2>1, <3>2 DEF ChunkTimes
    <3> QED  BY <3>1, <3>2
  <2>4. IndexTimes'
    BY <1>0, <2>1, <2>2 DEF IndexTimes
  <2>5. BatchTimes'
    BY <1>0, <2>1, <2>2 DEF BatchTimes
  <2> QED  BY <2>3, <2>4, <2>5
<1>6. CASE DropControl
  <2>1. /\ chunk'.base = chunk.base /\ chunk'.batch = chunk.batch /\ chunk'.prior = chunk.prior
        /\ chunk'.spent = chunk.spent /\ chunk'.message_index = chunk.message_index
        /\ chunk'.started = chunk.started
    BY <1>6, DropControlChunk
  <2>2. pc' = pc /\ clock' = clock
    BY <1>6 DEF DropControl
  <2> QED  BY <1>0, <2>1, <2>2 DEF ChunkTimes, IndexTimes, BatchTimes
<1>7. CASE EndChunk
  <2>1. chunk' = NoChunk /\ pc' # "sink"
    BY <1>7 DEF EndChunk
  <2> QED  BY <2>1, NoChunkTimes
<1>8. CASE Tick
  <2>1. /\ chunk'.base = chunk.base /\ chunk'.batch = chunk.batch /\ chunk'.prior = chunk.prior
        /\ chunk'.message_index = chunk.message_index /\ chunk'.started = chunk.started
        /\ chunk'.spent = IF pc = "sink" THEN chunk.spent + 1 ELSE chunk.spent
    BY <1>8, TickChunk
  <2>2. pc' = pc /\ clock' = clock + 1
    BY <1>8 DEF Tick
  <2>3. ChunkTimes'
    <3>1. CASE chunk.base.sampled /\ pc = "sink"
      <4>1. /\ chunk.base.recv <= chunk.base.plaintext
            /\ chunk.prior + (clock - chunk.started) = chunk.spent
            /\ chunk.base.plaintext + chunk.prior <= chunk.started
        BY <1>0, <3>1 DEF ChunkTimes
      <4>2. chunk.prior + ((clock + 1) - chunk.started) = chunk.spent + 1
        <5>1. \A p, c, s, t \in Nat : p + (c - s) = t => p + ((c + 1) - s) = t + 1
          OBVIOUS
        <5>2. chunk.prior \in Nat /\ clock \in Nat /\ chunk.started \in Nat /\ chunk.spent \in Nat
          BY <1>0, <1>00
        <5> QED  BY <4>1, <5>1, <5>2
      <4>3. chunk'.spent = chunk.spent + 1
        BY <2>1, <3>1
      <4> QED  BY <2>1, <2>2, <3>1, <4>1, <4>2, <4>3 DEF ChunkTimes
    <3>2. CASE chunk.base.sampled /\ pc # "sink"
      BY <1>0, <1>00, <2>1, <2>2, <3>2 DEF ChunkTimes
    <3>3. CASE ~chunk.base.sampled
      BY <1>0, <2>1, <3>3 DEF ChunkTimes
    <3> QED  BY <3>1, <3>2, <3>3
  <2>4. IndexTimes'
    BY <1>0, <2>1, <2>2 DEF IndexTimes
  <2>5. BatchTimes'
    <3>1. CASE pc = "sink"
      <4>1. chunk.batch = <<>>
        BY <1>0, <3>1 DEF PhaseInv
      <4> QED  BY <1>0, <2>1, <4>1 DEF BatchTimes
    <3>2. CASE pc # "sink"
      <4> SUFFICES ASSUME NEW i \in 1 .. Len(chunk.batch)
                   PROVE  MetaOK(chunk.batch[i].meta, chunk.spent, clock + 1)
        BY <2>1, <2>2, <3>2 DEF BatchTimes
      <4>1. MetaOK(chunk.batch[i].meta, chunk.spent, clock) /\ chunk.batch[i].meta \in Meta
        BY <1>0, BatchMeta DEF BatchTimes
      <4> QED  BY <1>0, <1>00, <4>1, MetaOKLater
    <3> QED  BY <3>1, <3>2
  <2> QED  BY <2>3, <2>4, <2>5
<1>9. CASE ~(\/ BeginCopied \/ BeginChunk \/ PushEvent \/ BeginSink \/ EndSink \/ DropControl
             \/ EndChunk \/ Tick)
  <2>1. UNCHANGED <<chunk, clock>> /\ pc # "sink" /\ pc' # "sink"
    BY <1>9 DEF Next, Pump, Discard, NoData, General, BeginSingle, BeginRun, EndPump, ObserveCqe,
                SkipSlice, EndSlice, TlsFails, EndHandler, ExportInterval, BeginsRun, DataHead,
                Dispatching, Handling, InSlice
  <2> QED  BY <1>0, <2>1 DEF ChunkTimes, IndexTimes, BatchTimes
<1> QED  BY <1>1, <1>2, <1>3, <1>4, <1>5, <1>6, <1>7, <1>8, <1>9


LEMMA TimeInit == Init => TimeInv
<1> SUFFICES ASSUME Init PROVE TimeInv
  OBVIOUS
<1>1. /\ chunk.batch = <<>> /\ Len(<<>>) = 0 /\ chunk.base = Unmarked /\ chunk.spent = 0
      /\ recv_meta = Unmarked /\ clock = 0 /\ pc = "ready"
  BY EmptySeq, NoChunkType DEF Init
<1>2. ~Unmarked.sampled /\ Unmarked.recv = 0 /\ Unmarked.plaintext = 0
  BY UnmarkedType
<1>3. RecvTimes
  BY <1>1, <1>2 DEF RecvTimes
<1>4. ChunkTimes
  BY <1>1, <1>2 DEF ChunkTimes
<1>5. IndexTimes
  BY <1>1 DEF IndexTimes
<1>6. BatchTimes
  BY <1>1 DEF BatchTimes
<1> QED  BY <1>3, <1>4, <1>5, <1>6 DEF TimeInv

LEMMA TimeNext == TypeInv /\ TimeInv /\ [Next]_vars => TimeInv'
<1> SUFFICES ASSUME TypeInv, TimeInv, [Next]_vars PROVE TimeInv'
  OBVIOUS
<1>1. CASE Next
  BY <1>1, RecvTimesNext, ChunkTimesNext DEF TimeInv
<1>2. CASE UNCHANGED vars
  BY <1>2 DEF vars, connVars, seqVars, histVars, handlerVars, TimeInv, RecvTimes, ChunkTimes,
              IndexTimes, BatchTimes
<1> QED  BY <1>1, <1>2

LEMMA TimeAlways == Spec => []TimeInv
BY TimeInit, TimeNext, TypeAlways, PTL DEF Spec

\* The times of every message in a batch decompose, for every chunk, batch and sampling
\* rate: received, deciphered, read, in this order, and the wait for the sink is exactly
\* what the sink took of the chunk before the message.
THEOREM IngressLatency == Spec => []LatencyDecomposes
<1>1. TimeInv => LatencyDecomposes
  <2> SUFFICES ASSUME TimeInv, NEW i \in 1 .. Len(chunk.batch)
               PROVE  MetaOK(chunk.batch[i].meta, chunk.spent, clock)
    BY DEF LatencyDecomposes, MetaOK
  <2> QED  BY DEF TimeInv, BatchTimes
<1> QED  BY <1>1, TimeAlways, PTL


-----------------------------------------------------------------------------
(* The histograms agree.                                                    *)

\* A stage of messages, when k chunks in progress have their first message recorded.
StageAgrees(h, k, s) ==
    /\ h[<<s, "first">>].len = h[ChunkStage].len + k
    /\ h[<<s, "queued">>].len = h[SinkStage].len
    /\ h[<<s, "all">>].len = h[<<s, "first">>].len + h[<<s, "queued">>].len
    /\ h[<<s, "all">>].total = h[<<s, "first">>].total + h[<<s, "queued">>].total

SinkAgrees(h, s, excluding) ==
    h[<<s, "all">>].total - h[<<excluding, "all">>].total = h[SinkStage].total

Agree(h, k) ==
    /\ \A s \in MessageStages : StageAgrees(h, k, s)
    /\ SinkAgrees(h, "plaintext_to_ws", "plaintext_to_ws_excluding_prior_sink")
    /\ SinkAgrees(h, "recv_to_ws", "recv_to_ws_excluding_prior_sink")

\* Only a marked pump samples; the first message of a chunk is the one of index 0.
FirstInv ==
    /\ chunk.base.sampled => Marked
    /\ chunk.message_index = 0 <=> chunk.events = 0 /\ chunk.batch = <<>>
    /\ \A i \in 1 .. Len(chunk.batch) :
          /\ chunk.batch[i].meta.sampled = chunk.base.sampled
          /\ chunk.batch[i].meta.message_index = 0 <=> i = 1 /\ chunk.events = 0

\* Whether the chunk in progress has its first message recorded.
Pending == IF chunk.base.sampled /\ chunk.events > 0 THEN 1 ELSE 0

HistInv == Agree(cumulative, Pending) /\ Agree(interval, Pending)

\* What a sampled message adds to each stage.
LEMMA SamplesAt ==
    ASSUME NEW m \in Meta, NEW spent, NEW now, m.sampled, MetaOK(m, spent, now),
           NEW s \in MessageStages
    PROVE  /\ Latency(m)[s] \in Nat
           /\ Samples(m)[<<s, "all">>].len = 1 /\ Samples(m)[<<s, "all">>].total = Latency(m)[s]
           /\ m.message_index = 0 =>
                 /\ Samples(m)[<<s, "first">>].len = 1
                 /\ Samples(m)[<<s, "first">>].total = Latency(m)[s]
                 /\ Samples(m)[<<s, "queued">>].len = 0 /\ Samples(m)[<<s, "queued">>].total = 0
           /\ m.message_index # 0 =>
                 /\ Samples(m)[<<s, "queued">>].len = 1
                 /\ Samples(m)[<<s, "queued">>].total = Latency(m)[s]
                 /\ Samples(m)[<<s, "first">>].len = 0 /\ Samples(m)[<<s, "first">>].total = 0
<1>1. m.ws \in Nat /\ m.plaintext \in Nat /\ m.recv \in Nat /\ m.prior \in Nat
  BY MetaFields
<1>2. m.recv <= m.plaintext /\ m.plaintext + m.prior <= m.ws
  BY DEF MetaOK
<1>3. /\ m.ws - m.plaintext \in Nat /\ m.ws - m.plaintext - m.prior \in Nat
      /\ m.ws - m.recv \in Nat /\ m.ws - m.recv - m.prior \in Nat
  BY <1>1, <1>2
<1>4. Latency(m)[s] \in Nat
  BY <1>3, LatencyIs DEF MessageStages
<1>5. PICK x \in Nat : x = Latency(m)[s]
  BY <1>4
<1>6. /\ Zero.len = 0 /\ Zero.total = 0 /\ One(x).len = 1 /\ One(x).total = x
  BY DEF Zero, One
<1>7. \A p \in {"all", "first", "queued"} :
         Samples(m)[<<s, p>>] = IF p \in {"all", Position(m)} THEN One(x) ELSE Zero
  <2> SUFFICES ASSUME NEW p \in {"all", "first", "queued"}
               PROVE  Samples(m)[<<s, p>>] = IF p \in {"all", Position(m)} THEN One(x) ELSE Zero
    OBVIOUS
  <2>1. PICK t : t = <<s, p>>
    OBVIOUS
  <2>2. t \in Stages /\ t # ChunkStage /\ t # SinkStage
    BY <2>1, StageKinds
  <2>3. t[1] = s /\ t[2] = p
    BY <2>1
  <2>4. x >= 0
    BY <1>5
  <2>5. Samples(m)[t] = IF t[2] \in {"all", Position(m)} /\ Latency(m)[t[1]] >= 0
                        THEN One(Latency(m)[t[1]]) ELSE Zero
    BY <2>2 DEF Samples
  <2> QED  BY <1>5, <2>1, <2>3, <2>4, <2>5
<1>8. /\ m.message_index = 0 => Position(m) = "first"
      /\ m.message_index # 0 => Position(m) = "queued"
  BY DEF Position
<1> QED  BY <1>4, <1>5, <1>6, <1>7, <1>8

LEMMA SamplesElsewhere ==
    ASSUME NEW m \in Meta, m.sampled
    PROVE  /\ Samples(m)[ChunkStage].len = 0
           /\ m.message_index = 0 => Samples(m)[SinkStage].len = 0 /\ Samples(m)[SinkStage].total = 0
           /\ m.message_index # 0 => /\ Samples(m)[SinkStage].len = 1
                                     /\ Samples(m)[SinkStage].total = m.prior
<1>1. /\ Zero.len = 0 /\ Zero.total = 0 /\ One(m.prior).len = 1 /\ One(m.prior).total = m.prior
  BY DEF Zero, One
<1>2. Samples(m)[ChunkStage] = Zero
  BY StageKinds DEF Samples
<1>3. Samples(m)[SinkStage] = IF Position(m) = "queued" THEN One(m.prior) ELSE Zero
  BY StageKinds DEF Samples
<1> QED  BY <1>1, <1>2, <1>3 DEF Position

\* A sampled message whose times decompose keeps the stages in agreement.
LEMMA AgreeRecord ==
    ASSUME NEW h \in Histograms, NEW k \in Nat, Agree(h, k), NEW m \in Meta, NEW spent, NEW now,
           m.sampled, MetaOK(m, spent, now)
    PROVE  Agree(RecordMessage(h, m), IF m.message_index = 0 THEN k + 1 ELSE k)
<1>1. PICK d : d = Samples(m)
  OBVIOUS
<1>2. d \in Histograms
  BY <1>1, SamplesType
<1>3. PICK r : r = RecordMessage(h, m)
  OBVIOUS
<1>4. r = Plus(h, d)
  BY <1>1, <1>3, RecordMessageIs
<1>5. \A s \in Stages : /\ r[s].len = h[s].len + d[s].len /\ r[s].total = h[s].total + d[s].total
                        /\ h[s].len \in Nat /\ h[s].total \in Nat
  BY <1>2, <1>4, PlusAt, HistogramFields
<1>6. PICK j : j = IF m.message_index = 0 THEN k + 1 ELSE k
  OBVIOUS
<1>7. /\ r[ChunkStage].len = h[ChunkStage].len
      /\ h[ChunkStage].len \in Nat /\ h[SinkStage].len \in Nat /\ h[SinkStage].total \in Nat
      /\ m.message_index = 0 => r[SinkStage].len = h[SinkStage].len
                                /\ r[SinkStage].total = h[SinkStage].total
      /\ m.message_index # 0 => r[SinkStage].len = h[SinkStage].len + 1
                                /\ r[SinkStage].total = h[SinkStage].total + m.prior
  BY <1>1, <1>5, SamplesElsewhere, StageKinds
<1>8. ASSUME NEW s \in MessageStages
      PROVE  /\ StageAgrees(r, j, s)
             /\ r[<<s, "all">>].total = h[<<s, "all">>].total + Latency(m)[s]
             /\ h[<<s, "all">>].total \in Nat /\ Latency(m)[s] \in Nat
  <2>1. StageAgrees(h, k, s)
    BY DEF Agree
  <2>2. <<s, "all">> \in Stages /\ <<s, "first">> \in Stages /\ <<s, "queued">> \in Stages
    BY StageKinds
  <2>3. PICK x \in Nat : x = Latency(m)[s]
    BY SamplesAt
  <2>4. /\ r[<<s, "all">>].len = h[<<s, "all">>].len + 1
        /\ r[<<s, "all">>].total = h[<<s, "all">>].total + x
        /\ h[<<s, "all">>].len \in Nat /\ h[<<s, "all">>].total \in Nat
        /\ h[<<s, "first">>].len \in Nat /\ h[<<s, "first">>].total \in Nat
        /\ h[<<s, "queued">>].len \in Nat /\ h[<<s, "queued">>].total \in Nat
    BY <1>1, <1>5, <2>2, <2>3, SamplesAt
  <2>5. CASE m.message_index = 0
    <3>1. /\ r[<<s, "first">>].len = h[<<s, "first">>].len + 1
          /\ r[<<s, "first">>].total = h[<<s, "first">>].total + x
          /\ r[<<s, "queued">>].len = h[<<s, "queued">>].len
          /\ r[<<s, "queued">>].total = h[<<s, "queued">>].total
      BY <1>1, <1>5, <2>2, <2>3, <2>4, <2>5, SamplesAt
    <3>2. StageAgrees(r, k + 1, s)
      BY <1>7, <2>1, <2>4, <2>5, <3>1 DEF StageAgrees
    <3> QED  BY <1>6, <2>3, <2>4, <2>5, <3>2
  <2>6. CASE m.message_index # 0
    <3>1. /\ r[<<s, "first">>].len = h[<<s, "first">>].len
          /\ r[<<s, "first">>].total = h[<<s, "first">>].total
          /\ r[<<s, "queued">>].len = h[<<s, "queued">>].len + 1
          /\ r[<<s, "queued">>].total = h[<<s, "queued">>].total + x
      BY <1>1, <1>5, <2>2, <2>3, <2>4, <2>6, SamplesAt
    <3>2. StageAgrees(r, k, s)
      BY <1>7, <2>1, <2>4, <2>6, <3>1 DEF StageAgrees
    <3> QED  BY <1>6, <2>3, <2>4, <2>6, <3>2
  <2> QED  BY <2>5, <2>6
<1>9. ASSUME NEW a \in MessageStages, NEW b \in MessageStages, SinkAgrees(h, a, b),
             Latency(m)[a] - Latency(m)[b] = m.prior
      PROVE  SinkAgrees(r, a, b)
  <2>1. /\ r[<<a, "all">>].total = h[<<a, "all">>].total + Latency(m)[a]
        /\ r[<<b, "all">>].total = h[<<b, "all">>].total + Latency(m)[b]
        /\ h[<<a, "all">>].total \in Nat /\ h[<<b, "all">>].total \in Nat
        /\ Latency(m)[a] \in Nat /\ Latency(m)[b] \in Nat
    BY <1>8
  <2>2. h[<<a, "all">>].total - h[<<b, "all">>].total = h[SinkStage].total
    BY <1>9 DEF SinkAgrees
  <2>3. m.message_index = 0 => m.prior = 0
    BY DEF MetaOK
  <2>4. m.prior \in Nat
    BY MetaFields
  <2>5. CASE m.message_index = 0
    <3>1. r[SinkStage].total = h[SinkStage].total /\ m.prior = 0
      BY <1>7, <2>3, <2>5
    <3> QED  BY <1>7, <1>9, <2>1, <2>2, <3>1 DEF SinkAgrees
  <2>6. CASE m.message_index # 0
    <3>1. r[SinkStage].total = h[SinkStage].total + m.prior
      BY <1>7, <2>6
    <3> QED  BY <1>7, <1>9, <2>1, <2>2, <2>4, <3>1 DEF SinkAgrees
  <2> QED  BY <2>5, <2>6
<1>10. m.ws \in Nat /\ m.plaintext \in Nat /\ m.recv \in Nat /\ m.prior \in Nat
  BY MetaFields
<1>11. SinkAgrees(r, "plaintext_to_ws", "plaintext_to_ws_excluding_prior_sink")
  <2>1. Latency(m)["plaintext_to_ws"] - Latency(m)["plaintext_to_ws_excluding_prior_sink"] = m.prior
    BY <1>10, LatencyIs
  <2>2. /\ "plaintext_to_ws" \in MessageStages
        /\ "plaintext_to_ws_excluding_prior_sink" \in MessageStages
        /\ SinkAgrees(h, "plaintext_to_ws", "plaintext_to_ws_excluding_prior_sink")
    BY DEF MessageStages, Agree
  <2> QED  BY <1>9, <2>1, <2>2
<1>12. SinkAgrees(r, "recv_to_ws", "recv_to_ws_excluding_prior_sink")
  <2>1. Latency(m)["recv_to_ws"] - Latency(m)["recv_to_ws_excluding_prior_sink"] = m.prior
    BY <1>10, LatencyIs
  <2>2. /\ "recv_to_ws" \in MessageStages
        /\ "recv_to_ws_excluding_prior_sink" \in MessageStages
        /\ SinkAgrees(h, "recv_to_ws", "recv_to_ws_excluding_prior_sink")
    BY DEF MessageStages, Agree
  <2> QED  BY <1>9, <2>1, <2>2
<1>13. Agree(r, j)
  BY <1>8, <1>11, <1>12 DEF Agree
<1> QED  BY <1>3, <1>6, <1>13


\* A batch of sampled messages; k says whether a message of the chunk was recorded before.
SampledBatch(ev, k, spent, now) ==
    \A i \in 1 .. Len(ev) :
        /\ ev[i].meta.sampled
        /\ MetaOK(ev[i].meta, spent, now)
        /\ ev[i].meta.message_index = 0 <=> i = 1 /\ k = 0

\* So does a batch of them.
LEMMA AgreeMessages ==
    ASSUME NEW h \in Histograms, NEW k \in {0, 1}, Agree(h, k), NEW ev \in Seq(Events),
           NEW spent, NEW now, Len(ev) > 0, SampledBatch(ev, k, spent, now)
    PROVE  Agree(RecordMessages(h, ev), 1)
<1>1. PICK f : Records(f, h, ev) /\ RecordMessages(h, ev) = f[Len(ev)]
  BY RecordMessagesRecords
<1>2. Len(ev) \in Nat
  BY LenProperties
<1> DEFINE T == {n \in Nat : n <= Len(ev) => Agree(f[n], IF n = 0 THEN k ELSE 1)}
<1>3. 0 \in T
  BY <1>1 DEF Records
<1>4. ASSUME NEW n \in Nat, n \in T PROVE n + 1 \in T
  <2> SUFFICES ASSUME n + 1 <= Len(ev) PROVE Agree(f[n + 1], 1)
    OBVIOUS
  <2>1. PICK j : j = IF n = 0 THEN k ELSE 1
    OBVIOUS
  <2>2. /\ n + 1 \in 1 .. Len(ev) /\ (n + 1) - 1 = n /\ n \in 0 .. Len(ev) /\ j \in Nat
        /\ Agree(f[n], j)
    BY <1>2, <1>4, <2>1
  <2>3. PICK m : m = ev[n + 1].meta
    OBVIOUS
  <2>4. m \in Meta
    <3>1. ev[n + 1] \in Events
      BY <2>2, ElementOfSeq
    <3> QED  BY <2>3, <3>1 DEF Events
  <2>5. m.sampled /\ MetaOK(m, spent, now) /\ (m.message_index = 0 <=> n = 0 /\ k = 0)
    <3>1. n + 1 = 1 <=> n = 0
      OBVIOUS
    <3> QED  BY <2>2, <2>3, <3>1 DEF SampledBatch
  <2>6. f[n] \in Histograms /\ f[n + 1] = RecordMessage(f[n], m)
    BY <1>1, <2>2, <2>3 DEF Records
  <2>7. Agree(f[n + 1], IF m.message_index = 0 THEN j + 1 ELSE j)
    BY <2>2, <2>4, <2>5, <2>6, AgreeRecord
  <2>8. (IF m.message_index = 0 THEN j + 1 ELSE j) = 1
    BY <2>1, <2>5
  <2> QED  BY <2>7, <2>8
<1> HIDE DEF T
<1>5. Nat \subseteq T
  BY <1>3, <1>4, Induct
<1>6. Agree(f[Len(ev)], 1)
  BY <1>2, <1>5 DEF T
<1> QED  BY <1>1, <1>6

\* Messages that are not sampled leave no trace.
LEMMA SkipMessages ==
    ASSUME NEW h \in Histograms, NEW ev \in Seq(Events),
           \A i \in 1 .. Len(ev) : ~ev[i].meta.sampled
    PROVE  RecordMessages(h, ev) = h
<1>1. PICK f : Records(f, h, ev) /\ RecordMessages(h, ev) = f[Len(ev)]
  BY RecordMessagesRecords
<1>2. Len(ev) \in Nat
  BY LenProperties
<1> DEFINE T == {n \in Nat : n <= Len(ev) => f[n] = h}
<1>3. 0 \in T
  BY <1>1 DEF Records
<1>4. ASSUME NEW n \in Nat, n \in T PROVE n + 1 \in T
  <2> SUFFICES ASSUME n + 1 <= Len(ev) PROVE f[n + 1] = h
    OBVIOUS
  <2>1. n + 1 \in 1 .. Len(ev) /\ (n + 1) - 1 = n /\ f[n] = h
    BY <1>2, <1>4
  <2>2. f[n + 1] = RecordMessage(f[n], ev[n + 1].meta)
    BY <1>1, <2>1 DEF Records
  <2>3. ~ev[n + 1].meta.sampled
    BY <2>1
  <2> QED  BY <2>1, <2>2, <2>3 DEF RecordMessage
<1> HIDE DEF T
<1>5. Nat \subseteq T
  BY <1>3, <1>4, Induct
<1> QED  BY <1>1, <1>2, <1>5 DEF T

\* The sample of a chunk completes it.
LEMMA AgreeChunk ==
    ASSUME NEW h \in Histograms, Agree(h, 1), NEW m \in Meta, m.sampled, m.recv <= m.plaintext
    PROVE  Agree(RecordChunk(h, m), 0)
<1>1. PICK d : d = ChunkSample(m)
  OBVIOUS
<1>2. PICK r : r = RecordChunk(h, m)
  OBVIOUS
<1>3. d \in Histograms /\ r = Plus(h, d)
  BY <1>1, <1>2, RecordChunkIs
<1>4. m.recv \in Nat /\ m.plaintext \in Nat
  BY MetaFields
<1>5. d[ChunkStage].len = 1 /\ \A s \in Stages : s # ChunkStage => d[s].len = 0 /\ d[s].total = 0
  <2>1. ~(m.plaintext < m.recv)
    BY <1>4
  <2>2. d[ChunkStage] = One(m.plaintext - m.recv)
    BY <1>1, <2>1, StageKinds DEF ChunkSample
  <2>3. \A s \in Stages : s # ChunkStage => d[s] = Zero
    BY <1>1 DEF ChunkSample
  <2>4. One(m.plaintext - m.recv).len = 1 /\ Zero.len = 0 /\ Zero.total = 0
    BY DEF One, Zero
  <2> QED  BY <2>2, <2>3, <2>4
<1>6. \A s \in Stages : /\ r[s].len = h[s].len + d[s].len /\ r[s].total = h[s].total + d[s].total
                        /\ h[s].len \in Nat /\ h[s].total \in Nat
  BY <1>3, PlusAt, HistogramFields
<1>7. r[ChunkStage].len = h[ChunkStage].len + 1 /\ h[ChunkStage].len \in Nat
  BY <1>5, <1>6, StageKinds
<1>8. \A s \in Stages : s # ChunkStage => r[s].len = h[s].len /\ r[s].total = h[s].total
  BY <1>5, <1>6
<1>9. ASSUME NEW s \in MessageStages PROVE StageAgrees(r, 0, s)
  <2>1. StageAgrees(h, 1, s)
    BY DEF Agree
  <2>2. /\ <<s, "all">> \in Stages /\ <<s, "first">> \in Stages /\ <<s, "queued">> \in Stages
        /\ <<s, "all">> # ChunkStage /\ <<s, "first">> # ChunkStage /\ <<s, "queued">> # ChunkStage
        /\ SinkStage \in Stages /\ SinkStage # ChunkStage
    BY StageKinds
  <2>3. /\ r[<<s, "all">>].len = h[<<s, "all">>].len /\ r[<<s, "all">>].total = h[<<s, "all">>].total
        /\ r[<<s, "first">>].len = h[<<s, "first">>].len
        /\ r[<<s, "first">>].total = h[<<s, "first">>].total
        /\ r[<<s, "queued">>].len = h[<<s, "queued">>].len
        /\ r[<<s, "queued">>].total = h[<<s, "queued">>].total
        /\ r[SinkStage].len = h[SinkStage].len
    BY <1>8, <2>2
  <2> QED  BY <1>7, <2>1, <2>3 DEF StageAgrees
<1>10. ASSUME NEW a \in MessageStages, NEW b \in MessageStages, SinkAgrees(h, a, b)
       PROVE  SinkAgrees(r, a, b)
  <2>1. /\ <<a, "all">> \in Stages /\ <<b, "all">> \in Stages
        /\ <<a, "all">> # ChunkStage /\ <<b, "all">> # ChunkStage
        /\ SinkStage \in Stages /\ SinkStage # ChunkStage
    BY StageKinds
  <2> QED  BY <1>8, <1>10, <2>1 DEF SinkAgrees
<1>11. /\ SinkAgrees(r, "plaintext_to_ws", "plaintext_to_ws_excluding_prior_sink")
       /\ SinkAgrees(r, "recv_to_ws", "recv_to_ws_excluding_prior_sink")
  <2>1. /\ "plaintext_to_ws" \in MessageStages
        /\ "plaintext_to_ws_excluding_prior_sink" \in MessageStages
        /\ "recv_to_ws" \in MessageStages
        /\ "recv_to_ws_excluding_prior_sink" \in MessageStages
    BY DEF MessageStages
  <2>2. /\ SinkAgrees(h, "plaintext_to_ws", "plaintext_to_ws_excluding_prior_sink")
        /\ SinkAgrees(h, "recv_to_ws", "recv_to_ws_excluding_prior_sink")
    BY DEF Agree
  <2> QED  BY <1>10, <2>1, <2>2
<1>12. Agree(r, 0)
  BY <1>9, <1>11 DEF Agree
<1> QED  BY <1>2, <1>12

LEMMA AgreeNothing == Agree(NoSamples, 0)
<1>1. \A s \in Stages : NoSamples[s].len = 0 /\ NoSamples[s].total = 0
  BY DEF NoSamples
<1>2. ASSUME NEW s \in MessageStages
      PROVE  StageAgrees(NoSamples, 0, s) /\ NoSamples[<<s, "all">>].total = 0
  <2>1. /\ <<s, "all">> \in Stages /\ <<s, "first">> \in Stages /\ <<s, "queued">> \in Stages
        /\ SinkStage \in Stages /\ ChunkStage \in Stages
    BY StageKinds
  <2> QED  BY <1>1, <2>1 DEF StageAgrees
<1>3. NoSamples[SinkStage].total = 0
  BY <1>1, StageKinds
<1> QED  BY <1>2, <1>3 DEF Agree, SinkAgrees, MessageStages

LEMMA FirstNext ==
    ASSUME TypeInv, FirstInv, Next
    PROVE  FirstInv'
<1> USE DEF connVars, seqVars, histVars, handlerVars
<1>0. /\ chunk \in Chunks /\ clock \in Nat /\ marked_message_sequence \in Nat /\ PhaseInv
      /\ recv_meta \in Meta /\ Len(<<>>) = 0 /\ Len(chunk.batch) \in Nat
      /\ chunk.events \in Nat /\ chunk.message_index \in 0 .. IndexMax
  BY Bounds, EmptySeq, ChunkFields, BatchMeta DEF TypeInv, ConnType, MetaType
<1>1. ASSUME NEW m \in Meta, NewChunk(m), m.sampled => Marked' PROVE FirstInv'
  <2>1. /\ chunk'.base = m /\ chunk'.batch = <<>> /\ chunk'.message_index = 0
        /\ chunk'.events = 0
    BY <1>1 DEF NewChunk
  <2> QED  BY <1>0, <1>1, <2>1 DEF FirstInv
<1>2. CASE BeginCopied
  BY <1>1, <1>2, BeginCopiedChunk, UnmarkedType
<1>3. CASE BeginChunk
  <2>1. PICK m : m = IF Marked THEN PlaintextReady(local.chunk_index) ELSE Unmarked
    OBVIOUS
  <2>2. NewChunk(m) /\ local.chunk_index \in 0 .. IndexMax
    BY <1>3, <2>1, BeginChunkChunk
  <2>3. Marked' = Marked
    BY <1>3 DEF BeginChunk, Marked
  <2>4. CASE Marked
    BY <1>0, <1>1, <2>1, <2>2, <2>3, <2>4, PlaintextReadyStep
  <2>5. CASE ~Marked
    BY <1>1, <2>1, <2>2, <2>5, UnmarkedType
  <2> QED  BY <2>4, <2>5
<1>4. CASE PushEvent
  <2>1. /\ chunk'.base = chunk.base /\ chunk'.events = chunk.events
        /\ chunk'.message_index = NextIndex(chunk.message_index)
        /\ Len(chunk'.batch) = Len(chunk.batch) + 1
        /\ \A i \in 1 .. Len(chunk.batch) : chunk'.batch[i] = chunk.batch[i]
        /\ chunk'.batch[Len(chunk.batch) + 1].meta = NextMeta
    BY <1>4, PushEventChunk
  <2>2. Marked' = Marked
    BY <1>4 DEF PushEvent, Marked
  <2>3. NextIndex(chunk.message_index) # 0
    BY <1>0, Bounds DEF NextIndex
  <2>4. chunk'.batch # <<>>
    BY <1>0, <2>1
  <2>5. PICK m : m = NextMeta
    OBVIOUS
  <2>6. m.sampled = chunk.base.sampled /\ m.message_index = chunk.message_index
    BY <1>0, <2>5, NextMetaStep
  <2>7. chunk.batch = <<>> <=> Len(chunk.batch) = 0
    BY <1>0, ChunkFields, EmptySeq
  <2>8. ASSUME NEW i \in 1 .. Len(chunk'.batch)
        PROVE  /\ chunk'.batch[i].meta.sampled = chunk'.base.sampled
               /\ chunk'.batch[i].meta.message_index = 0 <=> i = 1 /\ chunk'.events = 0
    <3>1. CASE i \in 1 .. Len(chunk.batch)
      BY <2>1, <3>1 DEF FirstInv
    <3>2. CASE i \notin 1 .. Len(chunk.batch)
      <4>1. i = Len(chunk.batch) + 1
        BY <1>0, <2>1, <3>2
      <4>2. chunk'.batch[i].meta = m
        BY <2>1, <2>5, <4>1
      <4>3. i = 1 <=> chunk.batch = <<>>
        BY <1>0, <2>7, <4>1
      <4> QED  BY <2>1, <2>6, <4>2, <4>3 DEF FirstInv
    <3> QED  BY <3>1, <3>2
  <2>9. chunk'.base.sampled => Marked'
    BY <2>1, <2>2 DEF FirstInv
  <2> QED  BY <2>1, <2>3, <2>4, <2>8, <2>9 DEF FirstInv
<1>5. CASE BeginSink
  <2>1. /\ chunk'.base = chunk.base /\ chunk'.message_index = chunk.message_index
        /\ chunk'.batch = <<>> /\ chunk.batch # <<>>
        /\ chunk'.events = chunk.events + Len(chunk.batch) /\ Len(chunk.batch) \in Nat \ {0}
    BY <1>5, BeginSinkChunk
  <2>2. Marked' = Marked
    BY <1>5 DEF BeginSink, Marked
  <2>3. chunk'.events # 0 /\ chunk.message_index # 0
    BY <1>0, <2>1 DEF FirstInv
  <2> QED  BY <1>0, <2>1, <2>2, <2>3 DEF FirstInv
<1>6. CASE EndSink \/ DropControl \/ Tick
  <2>1. /\ chunk'.base = chunk.base /\ chunk'.message_index = chunk.message_index
        /\ chunk'.batch = chunk.batch /\ chunk'.events = chunk.events
    BY <1>6, EndSinkChunk, DropControlChunk, TickChunk
  <2>2. Marked' = Marked
    BY <1>6 DEF EndSink, DropControl, Tick, Marked
  <2> QED  BY <2>1, <2>2 DEF FirstInv
<1>7. ASSUME chunk' = NoChunk PROVE FirstInv'
  <2>1. /\ chunk'.base = Unmarked /\ chunk'.batch = <<>> /\ chunk'.message_index = 0
        /\ chunk'.events = 0
    BY <1>7, NoChunkType
  <2> QED  BY <1>0, <2>1, UnmarkedType DEF FirstInv
<1>8. CASE EndChunk
  BY <1>7, <1>8 DEF EndChunk
<1>9. CASE Pump
  BY <1>0, <1>7, <1>9 DEF Pump, PhaseInv
<1>10. CASE ~(\/ Pump \/ BeginCopied \/ BeginChunk \/ PushEvent \/ BeginSink \/ EndSink \/ DropControl
              \/ EndChunk \/ Tick)
  <2>1. UNCHANGED <<chunk, flavour>>
    BY <1>10 DEF Next, Discard, NoData, General, BeginSingle, BeginRun, EndPump, ObserveCqe,
                 SkipSlice, EndSlice, TlsFails, EndHandler, ExportInterval
  <2> QED  BY <2>1 DEF FirstInv, Marked
<1> QED  BY <1>2, <1>3, <1>4, <1>5, <1>6, <1>8, <1>9, <1>10


LEMMA FirstInit == Init => FirstInv
<1> SUFFICES ASSUME Init PROVE FirstInv
  OBVIOUS
<1>1. /\ chunk.batch = <<>> /\ Len(<<>>) = 0 /\ chunk.base = Unmarked /\ chunk.events = 0
      /\ chunk.message_index = 0
  BY EmptySeq, NoChunkType DEF Init
<1> QED  BY <1>1, UnmarkedType DEF FirstInv

LEMMA FirstAlways == Spec => []FirstInv
<1>1. TypeInv /\ FirstInv /\ [Next]_vars => FirstInv'
  <2> SUFFICES ASSUME TypeInv, FirstInv, [Next]_vars PROVE FirstInv'
    OBVIOUS
  <2>1. CASE UNCHANGED vars
    BY <2>1 DEF vars, FirstInv, Marked
  <2> QED  BY <2>1, FirstNext
<1> QED  BY <1>1, FirstInit, TypeAlways, PTL DEF Spec

\* The sink is called: the first call of it for a chunk records the first message.
LEMMA BeginSinkAgrees ==
    ASSUME TypeInv, TimeInv, FirstInv, HistInv, BeginSink
    PROVE  HistInv'
<1> USE DEF histVars
<1>0. /\ cumulative \in Histograms /\ interval \in Histograms
      /\ chunk.batch \in Seq(Events) /\ Len(chunk.batch) \in Nat \ {0}
      /\ chunk'.base = chunk.base /\ chunk'.events = chunk.events + Len(chunk.batch)
      /\ chunk.events \in Nat
  BY BeginSinkChunk, ChunkFields DEF TypeInv, HistType, MetaType
<1>1. chunk'.events > 0
  BY <1>0
<1>2. CASE chunk.base.sampled
  <2>1. Marked /\ Pending' = 1
    BY <1>0, <1>1, <1>2 DEF FirstInv, Pending
  <2>2. /\ cumulative' = RecordMessages(cumulative, chunk.batch)
        /\ interval' = RecordMessages(interval, chunk.batch)
    BY <2>1 DEF BeginSink
  <2>3. PICK k \in {0, 1} : k = Pending
    BY DEF Pending
  <2>4. k = 0 <=> chunk.events = 0
    BY <1>0, <1>2, <2>3 DEF Pending
  <2>5. Agree(cumulative, k) /\ Agree(interval, k)
    BY <2>3 DEF HistInv
  <2>6. ASSUME NEW i \in 1 .. Len(chunk.batch)
        PROVE  /\ chunk.batch[i].meta.sampled
               /\ MetaOK(chunk.batch[i].meta, chunk.spent, clock)
               /\ chunk.batch[i].meta.message_index = 0 <=> i = 1 /\ k = 0
    BY <1>2, <2>4 DEF FirstInv, TimeInv, BatchTimes
  <2>7. PICK ev : ev = chunk.batch
    OBVIOUS
  <2>8. PICK spent, now : spent = chunk.spent /\ now = clock
    OBVIOUS
  <2>9. Len(ev) > 0 /\ ev \in Seq(Events)
    BY <1>0, <2>7
  <2>10. SampledBatch(ev, k, spent, now)
    BY <2>6, <2>7, <2>8 DEF SampledBatch
  <2>11. \A h \in Histograms : Agree(h, k) => Agree(RecordMessages(h, ev), 1)
    BY <2>9, <2>10, AgreeMessages
  <2>12. Agree(RecordMessages(cumulative, ev), 1)
    BY <1>0, <2>5, <2>11
  <2>13. Agree(RecordMessages(interval, ev), 1)
    BY <1>0, <2>5, <2>11
  <2> QED  BY <2>1, <2>2, <2>7, <2>12, <2>13 DEF HistInv
<1>3. CASE ~chunk.base.sampled
  <2>1. Pending = 0 /\ Pending' = 0
    BY <1>0, <1>3 DEF Pending
  <2>2. \A i \in 1 .. Len(chunk.batch) : ~chunk.batch[i].meta.sampled
    BY <1>3 DEF FirstInv
  <2>3. RecordMessages(cumulative, chunk.batch) = cumulative
    BY <1>0, <2>2, SkipMessages
  <2>4. RecordMessages(interval, chunk.batch) = interval
    BY <1>0, <2>2, SkipMessages
  <2>5. cumulative' = cumulative /\ interval' = interval
    BY <2>3, <2>4 DEF BeginSink
  <2> QED  BY <2>1, <2>5 DEF HistInv
<1> QED  BY <1>2, <1>3

\* The drain of a chunk ends: if it had events, the chunk has its sample.
LEMMA EndChunkAgrees ==
    ASSUME TypeInv, TimeInv, FirstInv, HistInv, EndChunk
    PROVE  HistInv'
<1> USE DEF histVars
<1>0. /\ cumulative \in Histograms /\ interval \in Histograms /\ chunk.base \in Meta
      /\ chunk.events \in Nat /\ chunk' = NoChunk
  BY ChunkFields DEF TypeInv, HistType, MetaType, EndChunk
<1>1. chunk'.events = 0
  BY <1>0, NoChunkType
<1>2. Pending' = 0
  BY <1>1 DEF Pending
<1>3. CASE chunk.base.sampled /\ chunk.events > 0
  <2>1. Marked /\ Pending = 1 /\ chunk.base.recv <= chunk.base.plaintext
    BY <1>3 DEF FirstInv, Pending, TimeInv, ChunkTimes
  <2>2. Agree(RecordChunk(cumulative, chunk.base), 0)
    BY <1>0, <1>3, <2>1, AgreeChunk DEF HistInv
  <2>3. Agree(RecordChunk(interval, chunk.base), 0)
    BY <1>0, <1>3, <2>1, AgreeChunk DEF HistInv
  <2> QED  BY <1>2, <1>3, <2>1, <2>2, <2>3 DEF HistInv, EndChunk
<1>4. CASE ~(chunk.base.sampled /\ chunk.events > 0)
  <2>1. Pending = 0
    BY <1>4 DEF Pending
  <2>2. cumulative' = cumulative /\ interval' = interval
    BY <1>4 DEF EndChunk, RecordChunk
  <2> QED  BY <1>2, <2>1, <2>2 DEF HistInv
<1> QED  BY <1>3, <1>4

LEMMA HistNext ==
    ASSUME TypeInv, TimeInv, FirstInv, HistInv, Next
    PROVE  HistInv'
<1> USE DEF connVars, seqVars, histVars, handlerVars
<1>0. PhaseInv
  BY DEF TypeInv
<1>1. pc \notin {"chunk", "call", "sink"} => Pending = 0
  <2> SUFFICES ASSUME chunk = NoChunk PROVE Pending = 0
    BY <1>0 DEF PhaseInv
  <2>1. chunk.events = 0
    BY NoChunkType
  <2> QED  BY <2>1 DEF Pending
<1>2. CASE BeginSink
  BY <1>2, BeginSinkAgrees
<1>3. CASE EndChunk
  BY <1>3, EndChunkAgrees
<1>4. CASE ExportInterval
  <2>1. Pending = 0 /\ Pending' = Pending /\ cumulative' = cumulative
    BY <1>1, <1>4 DEF ExportInterval, Pending
  <2>2. interval' = interval \/ interval' = NoSamples
    BY <1>4 DEF ExportInterval
  <2> QED  BY <2>1, <2>2, AgreeNothing DEF HistInv
<1>5. CASE BeginCopied \/ BeginChunk
  <2>1. Pending = 0 /\ UNCHANGED histVars
    BY <1>1, <1>5 DEF BeginCopied, BeginsRun, DataHead, Dispatching, BeginChunk, InSlice
  <2>2. chunk'.events = 0
    BY <1>5, BeginCopiedChunk, BeginChunkChunk DEF NewChunk
  <2>3. Pending' = 0
    BY <2>2 DEF Pending
  <2> QED  BY <2>1, <2>3 DEF HistInv
<1>6. CASE PushEvent \/ EndSink \/ DropControl \/ Tick
  <2>1. chunk'.base = chunk.base /\ chunk'.events = chunk.events
    BY <1>6, PushEventChunk, EndSinkChunk, DropControlChunk, TickChunk
  <2>2. Pending' = Pending
    BY <2>1 DEF Pending
  <2>3. UNCHANGED histVars
    BY <1>6 DEF PushEvent, EndSink, DropControl, Tick
  <2> QED  BY <2>2, <2>3 DEF HistInv
<1>7. CASE ~(\/ BeginSink \/ EndChunk \/ ExportInterval \/ BeginCopied \/ BeginChunk \/ PushEvent
             \/ EndSink \/ DropControl \/ Tick)
  <2>1. UNCHANGED <<chunk, cumulative, interval>>
    BY <1>7 DEF Next, Pump, Discard, NoData, General, BeginSingle, BeginRun, EndPump, ObserveCqe,
                SkipSlice, EndSlice, TlsFails, EndHandler
  <2> QED  BY <2>1 DEF HistInv, Pending
<1> QED  BY <1>2, <1>3, <1>4, <1>5, <1>6, <1>7

\* Outside a chunk the histograms agree with each other, over the lifetime and over the
\* interval, whatever was sampled, batched, dropped or refused in between.
THEOREM IngressHistograms == Spec => []HistogramsAgree
<1>1. Init => HistInv
  <2> SUFFICES ASSUME Init PROVE HistInv
    OBVIOUS
  <2>1. chunk.events = 0 /\ cumulative = NoSamples /\ interval = NoSamples
    BY NoChunkType DEF Init
  <2> QED  BY <2>1, AgreeNothing DEF HistInv, Pending
<1>2. TypeInv /\ TimeInv /\ FirstInv /\ HistInv /\ [Next]_vars => HistInv'
  <2> SUFFICES ASSUME TypeInv, TimeInv, FirstInv, HistInv, [Next]_vars PROVE HistInv'
    OBVIOUS
  <2>1. CASE UNCHANGED vars
    BY <2>1 DEF vars, histVars, HistInv, Pending
  <2> QED  BY <2>1, HistNext
<1>3. TypeInv /\ HistInv => HistogramsAgree
  <2> SUFFICES ASSUME TypeInv, HistInv, pc \in {"ready", "dispatch", "handler"},
                      NEW h \in {cumulative, interval}
               PROVE  /\ \A s \in MessageStages :
                            /\ h[<<s, "first">>].len = h[ChunkStage].len
                            /\ h[<<s, "queued">>].len = h[SinkStage].len
                            /\ h[<<s, "all">>] =
                                  [len |-> h[<<s, "first">>].len + h[<<s, "queued">>].len,
                                   total |-> h[<<s, "first">>].total + h[<<s, "queued">>].total]
                      /\ \A s \in {<<"plaintext_to_ws", "plaintext_to_ws_excluding_prior_sink">>,
                                   <<"recv_to_ws", "recv_to_ws_excluding_prior_sink">>} :
                            h[<<s[1], "all">>].total - h[<<s[2], "all">>].total
                                = h[SinkStage].total
    BY DEF HistogramsAgree
  <2>1. chunk = NoChunk
    BY DEF TypeInv, PhaseInv
  <2>2. chunk.events = 0
    BY <2>1, NoChunkType
  <2>3. Agree(h, 0) /\ h \in Histograms
    BY <2>2 DEF HistInv, Pending, TypeInv, HistType
  <2>4. ASSUME NEW s \in MessageStages
        PROVE  /\ h[<<s, "first">>].len = h[ChunkStage].len
               /\ h[<<s, "queued">>].len = h[SinkStage].len
               /\ h[<<s, "all">>] = [len |-> h[<<s, "first">>].len + h[<<s, "queued">>].len,
                                     total |-> h[<<s, "first">>].total + h[<<s, "queued">>].total]
    <3>1. StageAgrees(h, 0, s)
      BY <2>3 DEF Agree
    <3>2. <<s, "all">> \in Stages /\ ChunkStage \in Stages
      BY StageKinds
    <3>3. h[<<s, "all">>] \in [len : Nat, total : Nat] /\ h[ChunkStage].len \in Nat
      BY <2>3, <3>2 DEF Histograms
    <3>4. h[<<s, "all">>] = [len |-> h[<<s, "all">>].len, total |-> h[<<s, "all">>].total]
      BY <3>3
    <3> QED  BY <3>1, <3>3, <3>4 DEF StageAgrees
  <2>5. /\ SinkAgrees(h, "plaintext_to_ws", "plaintext_to_ws_excluding_prior_sink")
        /\ SinkAgrees(h, "recv_to_ws", "recv_to_ws_excluding_prior_sink")
    BY <2>3 DEF Agree
  <2> QED  BY <2>4, <2>5 DEF SinkAgrees
<1> QED  BY <1>1, <1>2, <1>3, TypeAlways, TimeAlways, FirstAlways, PTL DEF Spec


-----------------------------------------------------------------------------
(* The counters.                                                            *)

\* The messages: those counted and those that the handler is about to count.
EventsCounted ==
    /\ ingress_stats.ws_text_events + local.text = truth.text
    /\ ingress_stats.ws_binary_events + local.binary = truth.binary
    /\ ingress_stats.ws_data_events + local.text + local.binary = truth.text + truth.binary

\* The CQEs of a run are counted in two places, one of them ahead of the other.
CqesCounted ==
    /\ ingress_stats.ws_data_drains = ingress_stats.plaintext_source_chunks
    /\ ingress_stats.plain_recv_batch_cqes <= ingress_stats.recv_data_cqes + Len(run)

\* The bytes: those counted, those that the handler is about to count, and, of the ones
\* received, those of slices it has not come to.
BytesCounted ==
    /\ ingress_stats.plain_recv_copied_bytes <= ingress_stats.plaintext_bytes + local.bytes
    /\ local.ws_error => truth.bad
    /\ ~truth.bad => ingress_stats.plaintext_bytes + local.bytes = truth.bytes
    /\ ~truth.bad /\ ~cfg.tls =>
          ingress_stats.recv_bytes = truth.bytes + truth.general + Total(slices)

\* Outside a handler nothing is left to count.
NothingLeft ==
    pc \in {"ready", "dispatch"} =>
        local.text = 0 /\ local.binary = 0 /\ local.bytes = 0 /\ ~local.ws_error

CountInv == ~tls_failed => EventsCounted /\ CqesCounted /\ BytesCounted /\ NothingLeft

LEMMA CountNats ==
    ASSUME TypeInv
    PROVE  /\ ingress_stats \in IngressStats /\ local \in Locals /\ truth \in Truths
           /\ ingress_stats.recv_data_cqes \in Nat /\ ingress_stats.recv_bytes \in Nat
           /\ ingress_stats.plain_recv_batch_cqes \in Nat
           /\ ingress_stats.plain_recv_copied_bytes \in Nat
           /\ ingress_stats.plaintext_source_chunks \in Nat
           /\ ingress_stats.plaintext_bytes \in Nat /\ ingress_stats.ws_data_drains \in Nat
           /\ ingress_stats.ws_data_events \in Nat /\ ingress_stats.ws_text_events \in Nat
           /\ ingress_stats.ws_binary_events \in Nat
           /\ local.chunks \in Nat /\ local.bytes \in Nat /\ local.text \in Nat
           /\ local.binary \in Nat
           /\ truth.text \in Nat /\ truth.binary \in Nat /\ truth.bytes \in Nat
           /\ truth.general \in Nat
           /\ Len(run) \in Nat /\ Total(slices) \in Nat /\ run \in Seq(Cqes)
           /\ slices \in Seq(Nat) /\ buf \in Seq(Cqes)
<1>1. /\ ingress_stats \in IngressStats /\ local \in Locals /\ truth \in Truths
      /\ run \in Seq(Cqes) /\ slices \in Seq(Nat) /\ buf \in Seq(Cqes)
  BY DEF TypeInv, CountType, ConnType
<1>2. Len(run) \in Nat
  BY <1>1, LenProperties
<1>3. Total(slices) \in Nat
  BY <1>1, TotalType
<1> QED  BY <1>1, <1>2, <1>3, StatsFields, LocalFields, TruthFields

\* Before a handler begins.
LEMMA Idle ==
    ASSUME TypeInv, CountInv, ~tls_failed, pc \in {"ready", "dispatch"}
    PROVE  /\ local.text = 0 /\ local.binary = 0 /\ local.bytes = 0 /\ ~local.ws_error
           /\ Len(run) = 0 /\ Total(slices) = 0 /\ run = <<>> /\ slices = <<>>
<1>1. run = <<>> /\ slices = <<>>
  BY DEF TypeInv, PhaseInv
<1>2. Len(<<>>) = 0 /\ Total(<<>>) = 0
  BY EmptySeq, TotalEmpty
<1>3. local.text = 0 /\ local.binary = 0 /\ local.bytes = 0 /\ ~local.ws_error
  BY DEF CountInv, NothingLeft
<1>4. Len(run) = 0
  BY <1>1, <1>2
<1>5. Total(slices) = 0
  BY <1>1, <1>2
<1> QED  BY <1>1, <1>3, <1>4, <1>5

\* Once rustls has failed it stays so.
LEMMA TlsStaysFailed ==
    ASSUME TypeInv, Next, ~tls_failed'
    PROVE  ~tls_failed
<1> USE DEF connVars, seqVars, histVars, handlerVars
<1>1. CASE General
  BY <1>1 DEF General, TypeInv, ConnType
<1>2. CASE TlsFails
  BY <1>2 DEF TlsFails
<1>3. CASE ~(General \/ TlsFails)
  BY <1>3 DEF Next, Pump, Discard, NoData, BeginSingle, BeginRun, BeginCopied, EndPump,
              ObserveCqe, BeginChunk, SkipSlice, EndSlice, EndHandler, PushEvent, BeginSink,
              EndSink, DropControl, EndChunk, Tick, ExportInterval
<1> QED  BY <1>1, <1>2, <1>3

\* A counter of the ring does not matter here.
LEMMA ExhaustionCounts ==
    ASSUME TypeInv, CountInv, Discard \/ NoData
    PROVE  CountInv'
<1> USE DEF connVars, seqVars, histVars, handlerVars
<1>1. ingress_stats \in IngressStats
  BY CountNats
<1>2. /\ UNCHANGED <<cfg, tls_failed, local, truth, run, slices, pc>>
      /\ ingress_stats' = Exhaustion
  BY DEF Discard, NoData
<1>3. PICK s : s = ingress_stats
  OBVIOUS
<1>4. PICK t : t = ingress_stats'
  OBVIOUS
<1>5. /\ t.recv_data_cqes = s.recv_data_cqes
      /\ t.recv_bytes = s.recv_bytes
      /\ t.plain_recv_batch_cqes = s.plain_recv_batch_cqes
      /\ t.plain_recv_copied_bytes = s.plain_recv_copied_bytes
      /\ t.plaintext_source_chunks = s.plaintext_source_chunks
      /\ t.plaintext_bytes = s.plaintext_bytes
      /\ t.ws_data_drains = s.ws_data_drains
      /\ t.ws_data_events = s.ws_data_events
      /\ t.ws_text_events = s.ws_text_events
      /\ t.ws_binary_events = s.ws_binary_events
  <2>1. CASE t = s
    BY <2>1
  <2>2. CASE t = RecvRingExhaustion(s)
    BY <1>1, <1>3, <2>2, ExhaustionStep
  <2> QED  BY <1>2, <1>3, <1>4, <2>1, <2>2 DEF Exhaustion
<1>6. EventsCounted => EventsCounted'
  BY <1>2, <1>3, <1>4, <1>5 DEF EventsCounted
<1>7. CqesCounted => CqesCounted'
  BY <1>2, <1>3, <1>4, <1>5 DEF CqesCounted
<1>8. BytesCounted => BytesCounted'
  BY <1>2, <1>3, <1>4, <1>5 DEF BytesCounted
<1>9. NothingLeft => NothingLeft'
  BY <1>2 DEF NothingLeft
<1> QED  BY <1>2, <1>6, <1>7, <1>8, <1>9 DEF CountInv

LEMMA GeneralCounts ==
    ASSUME TypeInv, CountInv, General, ~tls_failed
    PROVE  EventsCounted' /\ CqesCounted' /\ BytesCounted' /\ NothingLeft'
<1> USE DEF connVars, seqVars, histVars, handlerVars
<1>0. /\ buf # <<>> /\ pc = "dispatch" /\ UNCHANGED <<cfg, local, run, slices, pc>>
      /\ EventsCounted /\ CqesCounted /\ BytesCounted /\ NothingLeft
  BY DEF General, DataHead, Dispatching, CountInv
<1>1. PICK n : n = Total(Head(buf).slices)
  OBVIOUS
<1>2. /\ n \in Nat /\ <<Head(buf)>> \in Seq(Cqes) /\ Len(<<Head(buf)>>) = 1
      /\ Bytes(<<Head(buf)>>) = n
  BY <1>0, <1>1, CountNats, HeadCqe
<1>3. ingress_stats' = RecvData(ingress_stats, <<Head(buf)>>) /\ ingress_stats \in IngressStats
  BY CountNats DEF General
<1>4. /\ ingress_stats'.recv_data_cqes = ingress_stats.recv_data_cqes + 1
      /\ ingress_stats'.recv_bytes = ingress_stats.recv_bytes + n
      /\ ingress_stats'.plain_recv_batch_cqes = ingress_stats.plain_recv_batch_cqes
      /\ ingress_stats'.plain_recv_copied_bytes = ingress_stats.plain_recv_copied_bytes
      /\ ingress_stats'.plaintext_source_chunks = ingress_stats.plaintext_source_chunks
      /\ ingress_stats'.plaintext_bytes = ingress_stats.plaintext_bytes
      /\ ingress_stats'.ws_data_drains = ingress_stats.ws_data_drains
      /\ ingress_stats'.ws_data_events = ingress_stats.ws_data_events
      /\ ingress_stats'.ws_text_events = ingress_stats.ws_text_events
      /\ ingress_stats'.ws_binary_events = ingress_stats.ws_binary_events
  BY <1>2, <1>3, RecvDataStep
<1>5. truth' = [truth EXCEPT !.general = truth.general + n]
  BY <1>1 DEF General
<1>6. /\ truth'.text = truth.text /\ truth'.binary = truth.binary /\ truth'.bytes = truth.bytes
      /\ truth'.general = truth.general + n
  BY <1>5, CountNats DEF Truths
<1>7. truth'.bad = truth.bad
  BY <1>5, CountNats DEF Truths
<1>8. EventsCounted'
  BY <1>0, <1>4, <1>6 DEF EventsCounted
<1>9. CqesCounted'
  <2>1. /\ ingress_stats.recv_data_cqes \in Nat /\ ingress_stats.plain_recv_batch_cqes \in Nat
        /\ Len(run) \in Nat
    BY CountNats
  <2> QED  BY <1>0, <1>4, <2>1 DEF CqesCounted
<1>10. BytesCounted'
  <2>1. ASSUME ~truth.bad, ~cfg.tls
        PROVE  ingress_stats'.recv_bytes = truth'.bytes + truth'.general + Total(slices')
    <3>1. ingress_stats.recv_bytes = truth.bytes + truth.general + Total(slices)
      BY <1>0, <2>1 DEF BytesCounted
    <3> QED  BY <1>0, <1>2, <1>4, <1>6, <3>1, CountNats
  <2> QED  BY <1>0, <1>4, <1>6, <1>7, <2>1 DEF BytesCounted
<1>11. NothingLeft'
  BY <1>0 DEF NothingLeft
<1> QED  BY <1>8, <1>9, <1>10, <1>11

LEMMA BeginSingleCounts ==
    ASSUME TypeInv, CountInv, BeginSingle, ~tls_failed
    PROVE  EventsCounted' /\ CqesCounted' /\ BytesCounted' /\ NothingLeft'
<1> USE DEF connVars, seqVars, histVars, handlerVars
<1>0. /\ pc = "dispatch" /\ pc' = "handler" /\ UNCHANGED <<cfg, ingress_stats, truth, slices>>
      /\ EventsCounted /\ CqesCounted /\ BytesCounted
      /\ run' = <<Head(buf)>> /\ local' = [NoLocal EXCEPT !.single = TRUE]
  BY DEF BeginSingle, DataHead, Dispatching, CountInv
<1>1. /\ local.text = 0 /\ local.binary = 0 /\ local.bytes = 0 /\ Len(run) = 0
  BY <1>0, Idle
<1>2. /\ local'.text = 0 /\ local'.binary = 0 /\ local'.bytes = 0 /\ ~local'.ws_error
  BY <1>0 DEF NoLocal
<1>3. Len(run') = 1
  BY <1>0
<1>4. EventsCounted'
  BY <1>0, <1>1, <1>2 DEF EventsCounted
<1>5. CqesCounted'
  BY <1>0, <1>1, <1>3, CountNats, SMTT(40) DEF CqesCounted
<1>6. BytesCounted'
  BY <1>0, <1>1, <1>2 DEF BytesCounted
<1>7. NothingLeft'
  BY <1>0 DEF NothingLeft
<1> QED  BY <1>4, <1>5, <1>6, <1>7

LEMMA BeginRunCounts ==
    ASSUME TypeInv, CountInv, BeginRun, ~tls_failed
    PROVE  EventsCounted' /\ CqesCounted' /\ BytesCounted' /\ NothingLeft'
<1> USE DEF connVars, seqVars, histVars, handlerVars
<1>0. /\ pc = "dispatch" /\ pc' = "handler" /\ UNCHANGED <<cfg, truth, slices>>
      /\ EventsCounted /\ CqesCounted /\ BytesCounted
      /\ run' = Taken /\ local' = NoLocal
      /\ ingress_stats' = PlainRecvBatch(ingress_stats, RunLen, 0)
      /\ buf # <<>> /\ Head(buf).kind = "data"
  BY DEF BeginRun, BeginsRun, DataHead, Dispatching, CountInv
<1>1. /\ local.text = 0 /\ local.binary = 0 /\ local.bytes = 0 /\ Len(run) = 0
  BY <1>0, Idle
<1>2. /\ local'.text = 0 /\ local'.binary = 0 /\ local'.bytes = 0 /\ ~local'.ws_error
  BY <1>0, NoLocalType
<1>3. RunLen \in Nat /\ Len(run') = RunLen /\ 0 \in Nat /\ ingress_stats \in IngressStats
  BY <1>0, RunTaken, CountNats
<1>4. PICK n \in Nat, z \in Nat : n = RunLen /\ z = 0
  BY <1>3
<1>5. ingress_stats' = PlainRecvBatch(ingress_stats, n, z) /\ ingress_stats \in IngressStats
  BY <1>0, <1>3, <1>4
<1>6. /\ ingress_stats'.recv_data_cqes = ingress_stats.recv_data_cqes
      /\ ingress_stats'.recv_bytes = ingress_stats.recv_bytes
      /\ ingress_stats'.plain_recv_batch_cqes = ingress_stats.plain_recv_batch_cqes + n
      /\ ingress_stats'.plain_recv_copied_bytes = ingress_stats.plain_recv_copied_bytes + z
      /\ ingress_stats'.plaintext_source_chunks = ingress_stats.plaintext_source_chunks
      /\ ingress_stats'.plaintext_bytes = ingress_stats.plaintext_bytes
      /\ ingress_stats'.ws_data_drains = ingress_stats.ws_data_drains
      /\ ingress_stats'.ws_data_events = ingress_stats.ws_data_events
      /\ ingress_stats'.ws_text_events = ingress_stats.ws_text_events
      /\ ingress_stats'.ws_binary_events = ingress_stats.ws_binary_events
  BY <1>5, PlainRecvBatchStep
<1>7. EventsCounted'
  BY <1>0, <1>1, <1>2, <1>6 DEF EventsCounted
<1>8. CqesCounted'
  <2>1. ingress_stats.recv_data_cqes \in Nat /\ ingress_stats.plain_recv_batch_cqes \in Nat
    BY CountNats
  <2> QED  BY <1>0, <1>1, <1>3, <1>4, <1>6, <2>1 DEF CqesCounted
<1>9. BytesCounted'
  <2>1. ingress_stats.plain_recv_copied_bytes \in Nat
    BY CountNats
  <2> QED  BY <1>0, <1>1, <1>2, <1>4, <1>6, <2>1 DEF BytesCounted
<1>10. NothingLeft'
  BY <1>0 DEF NothingLeft
<1> QED  BY <1>7, <1>8, <1>9, <1>10

LEMMA BeginCopiedCounts ==
    ASSUME TypeInv, CountInv, BeginCopied, ~tls_failed
    PROVE  EventsCounted' /\ CqesCounted' /\ BytesCounted' /\ NothingLeft'
<1> USE DEF connVars, seqVars, histVars, handlerVars
<1>0. /\ pc = "dispatch" /\ pc' = "chunk" /\ UNCHANGED <<cfg, run, slices>>
      /\ EventsCounted /\ CqesCounted /\ BytesCounted
      /\ local' = [NoLocal EXCEPT !.chunks = RunLen, !.bytes = RunBytes]
      /\ truth' = [truth EXCEPT !.bytes = truth.bytes + RunBytes]
      /\ ingress_stats' = RecvData(PlainRecvBatch(ingress_stats, RunLen, RunBytes), Taken)
      /\ buf # <<>> /\ Head(buf).kind = "data"
  BY DEF BeginCopied, BeginsRun, DataHead, Dispatching, CountInv
<1>1. /\ local.text = 0 /\ local.binary = 0 /\ local.bytes = 0 /\ Len(run) = 0
      /\ Total(slices) = 0
  BY <1>0, Idle
<1>2. /\ RunLen \in Nat /\ RunBytes \in Nat /\ Taken \in Seq(Cqes) /\ Len(Taken) = RunLen
      /\ Bytes(Taken) = RunBytes /\ ingress_stats \in IngressStats
  BY <1>0, RunTaken, CountNats
<1>3. PICK n \in Nat, b \in Nat : n = RunLen /\ b = RunBytes
  BY <1>2
<1>4. PICK s : s = PlainRecvBatch(ingress_stats, n, b) /\ ingress_stats \in IngressStats
  BY <1>2
<1>5. ingress_stats' = RecvData(s, Taken)
  BY <1>0, <1>3, <1>4
<1>6. /\ s \in IngressStats
      /\ s.recv_data_cqes = ingress_stats.recv_data_cqes
      /\ s.recv_bytes = ingress_stats.recv_bytes
      /\ s.plain_recv_batch_cqes = ingress_stats.plain_recv_batch_cqes + n
      /\ s.plain_recv_copied_bytes = ingress_stats.plain_recv_copied_bytes + b
      /\ s.plaintext_source_chunks = ingress_stats.plaintext_source_chunks
      /\ s.plaintext_bytes = ingress_stats.plaintext_bytes
      /\ s.ws_data_drains = ingress_stats.ws_data_drains
      /\ s.ws_data_events = ingress_stats.ws_data_events
      /\ s.ws_text_events = ingress_stats.ws_text_events
      /\ s.ws_binary_events = ingress_stats.ws_binary_events
  BY <1>4, PlainRecvBatchStep
<1>7. /\ ingress_stats'.recv_data_cqes = s.recv_data_cqes + Len(Taken)
      /\ ingress_stats'.recv_bytes = s.recv_bytes + Bytes(Taken)
      /\ ingress_stats'.plain_recv_batch_cqes = s.plain_recv_batch_cqes
      /\ ingress_stats'.plain_recv_copied_bytes = s.plain_recv_copied_bytes
      /\ ingress_stats'.plaintext_source_chunks = s.plaintext_source_chunks
      /\ ingress_stats'.plaintext_bytes = s.plaintext_bytes
      /\ ingress_stats'.ws_data_drains = s.ws_data_drains
      /\ ingress_stats'.ws_data_events = s.ws_data_events
      /\ ingress_stats'.ws_text_events = s.ws_text_events
      /\ ingress_stats'.ws_binary_events = s.ws_binary_events
  BY <1>2, <1>5, <1>6, RecvDataStep
<1>8. local'.text = 0 /\ local'.binary = 0 /\ local'.bytes = b /\ ~local'.ws_error
  BY <1>0, <1>3 DEF NoLocal
<1>9. /\ truth'.text = truth.text /\ truth'.binary = truth.binary
      /\ truth'.bytes = truth.bytes + b /\ truth'.general = truth.general
  BY <1>0, <1>3, CountNats DEF Truths
<1>10. truth'.bad = truth.bad
  BY <1>0, CountNats DEF Truths
<1>11. EventsCounted'
  BY <1>0, <1>1, <1>6, <1>7, <1>8, <1>9 DEF EventsCounted
<1>12. CqesCounted'
  <2>1. ingress_stats.recv_data_cqes \in Nat /\ ingress_stats.plain_recv_batch_cqes \in Nat
    BY CountNats
  <2> QED  BY <1>0, <1>1, <1>2, <1>3, <1>6, <1>7, <2>1 DEF CqesCounted
<1>13. BytesCounted'
  <2>0. /\ ingress_stats.plain_recv_copied_bytes \in Nat /\ ingress_stats.recv_bytes \in Nat
        /\ ingress_stats.plaintext_bytes \in Nat /\ truth.bytes \in Nat /\ truth.general \in Nat
    BY CountNats
  <2>1. /\ ingress_stats'.plain_recv_copied_bytes = ingress_stats.plain_recv_copied_bytes + b
        /\ ingress_stats'.recv_bytes = ingress_stats.recv_bytes + b
        /\ ingress_stats'.plaintext_bytes = ingress_stats.plaintext_bytes
    BY <1>2, <1>3, <1>6, <1>7
  <2>2. ingress_stats'.plain_recv_copied_bytes <= ingress_stats'.plaintext_bytes + local'.bytes
    BY <1>0, <1>1, <1>8, <2>0, <2>1 DEF BytesCounted
  <2>3. ASSUME ~truth.bad PROVE ingress_stats'.plaintext_bytes + local'.bytes = truth'.bytes
    BY <1>0, <1>1, <1>8, <1>9, <2>0, <2>1, <2>3 DEF BytesCounted
  <2>4. ASSUME ~truth.bad, ~cfg.tls
        PROVE  ingress_stats'.recv_bytes = truth'.bytes + truth'.general + Total(slices')
    <3>1. ingress_stats.recv_bytes = truth.bytes + truth.general + 0 /\ Total(slices') = 0
      BY <1>0, <1>1, <2>4 DEF BytesCounted
    <3> QED  BY <1>3, <1>9, <2>0, <2>1, <3>1
  <2> QED  BY <1>0, <1>8, <1>10, <2>2, <2>3, <2>4 DEF BytesCounted
<1>14. NothingLeft'
  BY <1>0 DEF NothingLeft
<1> QED  BY <1>11, <1>12, <1>13, <1>14

LEMMA ObserveCqeCounts ==
    ASSUME TypeInv, CountInv, ObserveCqe, ~tls_failed
    PROVE  EventsCounted' /\ CqesCounted' /\ BytesCounted' /\ NothingLeft'
<1> USE DEF connVars, seqVars, histVars, handlerVars
<1>0. /\ pc = "handler" /\ pc' = pc /\ UNCHANGED <<cfg, truth>>
      /\ EventsCounted /\ CqesCounted /\ BytesCounted
      /\ local' = [local EXCEPT !.chunk_index = 0]
      /\ ingress_stats' = RecvData(ingress_stats, <<Head(run)>>)
      /\ run # <<>> /\ run' = Tail(run) /\ slices = <<>>
      /\ slices' = IF local.ws_error THEN <<>> ELSE Head(run).slices
  BY DEF ObserveCqe, Handling, CountInv
<1>1. PICK n : n = Total(Head(run).slices)
  OBVIOUS
<1>2. /\ n \in Nat /\ <<Head(run)>> \in Seq(Cqes) /\ Len(<<Head(run)>>) = 1
      /\ Bytes(<<Head(run)>>) = n /\ Len(run') = Len(run) - 1 /\ Len(run) \in Nat
      /\ ingress_stats \in IngressStats /\ local \in Locals
  BY <1>0, <1>1, CountNats, HeadCqe
<1>3. ingress_stats' = RecvData(ingress_stats, <<Head(run)>>)
  BY <1>0
<1>4. /\ ingress_stats'.recv_data_cqes = ingress_stats.recv_data_cqes + 1
      /\ ingress_stats'.recv_bytes = ingress_stats.recv_bytes + n
      /\ ingress_stats'.plain_recv_batch_cqes = ingress_stats.plain_recv_batch_cqes
      /\ ingress_stats'.plain_recv_copied_bytes = ingress_stats.plain_recv_copied_bytes
      /\ ingress_stats'.plaintext_source_chunks = ingress_stats.plaintext_source_chunks
      /\ ingress_stats'.plaintext_bytes = ingress_stats.plaintext_bytes
      /\ ingress_stats'.ws_data_drains = ingress_stats.ws_data_drains
      /\ ingress_stats'.ws_data_events = ingress_stats.ws_data_events
      /\ ingress_stats'.ws_text_events = ingress_stats.ws_text_events
      /\ ingress_stats'.ws_binary_events = ingress_stats.ws_binary_events
  BY <1>2, <1>3, RecvDataStep
<1>5. local'.text = local.text /\ local'.binary = local.binary /\ local'.bytes = local.bytes
  BY <1>0, <1>2 DEF Locals
<1>6. local'.ws_error = local.ws_error
  BY <1>0, <1>2 DEF Locals
<1>7. EventsCounted'
  BY <1>0, <1>4, <1>5 DEF EventsCounted
<1>8. CqesCounted'
  <2>1. ingress_stats.recv_data_cqes \in Nat /\ ingress_stats.plain_recv_batch_cqes \in Nat
    BY CountNats
  <2> QED  BY <1>0, <1>2, <1>4, <2>1 DEF CqesCounted
<1>9. BytesCounted'
  <2>1. ASSUME ~truth.bad, ~cfg.tls
        PROVE  ingress_stats'.recv_bytes = truth'.bytes + truth'.general + Total(slices')
    <3>1. ~local.ws_error
      BY <1>0, <2>1 DEF BytesCounted
    <3>2. Total(slices') = n
      BY <1>0, <1>1, <3>1
    <3>3. Total(slices) = 0
      BY <1>0, TotalEmpty
    <3>4. ingress_stats.recv_bytes = truth.bytes + truth.general + Total(slices)
      BY <1>0, <2>1 DEF BytesCounted
    <3>5. truth.bytes \in Nat /\ truth.general \in Nat
      BY CountNats
    <3> QED  BY <1>0, <1>2, <1>4, <3>2, <3>3, <3>4, <3>5
  <2> QED  BY <1>0, <1>4, <1>5, <1>6, <2>1 DEF BytesCounted
<1>10. NothingLeft'
  BY <1>0 DEF NothingLeft
<1> QED  BY <1>7, <1>8, <1>9, <1>10

LEMMA BeginChunkCounts ==
    ASSUME TypeInv, CountInv, BeginChunk, ~tls_failed
    PROVE  EventsCounted' /\ CqesCounted' /\ BytesCounted' /\ NothingLeft'
<1> USE DEF connVars, seqVars, histVars, handlerVars
<1>1. PICK b : b = IF cfg.tls THEN 1 ELSE Head(slices)
  OBVIOUS
<1>2. /\ pc' = "chunk" /\ UNCHANGED <<cfg, run, ingress_stats>>
      /\ EventsCounted /\ CqesCounted /\ BytesCounted
      /\ local' = [local EXCEPT !.chunks = local.chunks + 1, !.bytes = local.bytes + b,
                                !.chunk_index = NextIndex(local.chunk_index)]
      /\ truth' = [truth EXCEPT !.bytes = truth.bytes + b]
      /\ slices # <<>> /\ slices' = IF cfg.tls THEN slices ELSE Tail(slices)
  BY <1>1 DEF BeginChunk, InSlice, CountInv
<1>3. local \in Locals /\ truth \in Truths /\ slices \in Seq(Nat)
  BY CountNats
<1>4. /\ b \in Nat
      /\ ~cfg.tls => Total(slices) = b + Total(slices') /\ Total(slices') \in Nat
  BY <1>1, <1>2, <1>3, TotalTail, TotalType
<1>5. local'.text = local.text /\ local'.binary = local.binary /\ local'.bytes = local.bytes + b
  BY <1>2, <1>3 DEF Locals
<1>6. local'.ws_error = local.ws_error
  BY <1>2, <1>3 DEF Locals
<1>7. /\ truth'.text = truth.text /\ truth'.binary = truth.binary
      /\ truth'.bytes = truth.bytes + b /\ truth'.general = truth.general
  BY <1>2, <1>3 DEF Truths
<1>8. truth'.bad = truth.bad
  BY <1>2, <1>3 DEF Truths
<1>9. EventsCounted'
  BY <1>2, <1>5, <1>7 DEF EventsCounted
<1>10. CqesCounted'
  BY <1>2 DEF CqesCounted
<1>11. BytesCounted'
  <2>0. /\ ingress_stats.plain_recv_copied_bytes \in Nat /\ local.bytes \in Nat
        /\ ingress_stats.plaintext_bytes \in Nat /\ truth.bytes \in Nat /\ truth.general \in Nat
    BY CountNats
  <2>1. ingress_stats'.plain_recv_copied_bytes <= ingress_stats'.plaintext_bytes + local'.bytes
    BY <1>2, <1>4, <1>5, <2>0 DEF BytesCounted
  <2>2. ASSUME ~truth.bad PROVE ingress_stats'.plaintext_bytes + local'.bytes = truth'.bytes
    BY <1>2, <1>4, <1>5, <1>7, <2>0, <2>2 DEF BytesCounted
  <2>3. ASSUME ~truth.bad, ~cfg.tls
        PROVE  ingress_stats'.recv_bytes = truth'.bytes + truth'.general + Total(slices')
    <3>1. ingress_stats.recv_bytes = truth.bytes + truth.general + Total(slices)
      BY <1>2, <2>3 DEF BytesCounted
    <3>2. Total(slices) = b + Total(slices') /\ Total(slices') \in Nat
      BY <1>4, <2>3
    <3> QED  BY <1>2, <1>4, <1>7, <2>0, <3>1, <3>2
  <2> QED  BY <1>2, <1>6, <1>8, <2>1, <2>2, <2>3 DEF BytesCounted
<1>12. NothingLeft'
  BY <1>2 DEF NothingLeft
<1> QED  BY <1>9, <1>10, <1>11, <1>12


\* A slice that is skipped is counted: the client has had an error.
LEMMA SkipSliceCounts ==
    ASSUME TypeInv, CountInv, SkipSlice, ~tls_failed
    PROVE  EventsCounted' /\ CqesCounted' /\ BytesCounted' /\ NothingLeft'
<1> USE DEF connVars, seqVars, histVars, handlerVars
<1>1. /\ pc = "handler" /\ pc' = pc /\ UNCHANGED <<cfg, run, ingress_stats, truth>>
      /\ EventsCounted /\ CqesCounted /\ BytesCounted
      /\ local' = [local EXCEPT !.chunks = local.chunks + 1, !.bytes = local.bytes + Head(slices)]
      /\ slices # <<>> /\ local.ws_error
  BY DEF SkipSlice, InSlice, CountInv
<1>2. local \in Locals /\ slices \in Seq(Nat)
  BY CountNats
<1>3. PICK b \in Nat : b = Head(slices)
  BY <1>1, <1>2, TotalTail
<1>4. local'.text = local.text /\ local'.binary = local.binary /\ local'.bytes = local.bytes + b
  BY <1>1, <1>2, <1>3 DEF Locals
<1>5. truth.bad
  BY <1>1 DEF BytesCounted
<1>6. EventsCounted'
  BY <1>1, <1>4 DEF EventsCounted
<1>7. CqesCounted'
  BY <1>1 DEF CqesCounted
<1>8. BytesCounted'
  <2>0. /\ ingress_stats.plain_recv_copied_bytes \in Nat /\ local.bytes \in Nat
        /\ ingress_stats.plaintext_bytes \in Nat
    BY CountNats
  <2>1. ingress_stats'.plain_recv_copied_bytes <= ingress_stats'.plaintext_bytes + local'.bytes
    BY <1>1, <1>4, <2>0 DEF BytesCounted
  <2> QED  BY <1>1, <1>5, <2>1 DEF BytesCounted
<1>9. NothingLeft'
  BY <1>1 DEF NothingLeft
<1> QED  BY <1>6, <1>7, <1>8, <1>9

LEMMA EndSliceCounts ==
    ASSUME TypeInv, CountInv, EndSlice, ~tls_failed
    PROVE  EventsCounted' /\ CqesCounted' /\ BytesCounted' /\ NothingLeft'
<1> USE DEF connVars, seqVars, histVars, handlerVars
<1>1. /\ pc = "handler" /\ pc' = pc /\ UNCHANGED <<cfg, run, ingress_stats, truth, local>>
      /\ EventsCounted /\ CqesCounted /\ BytesCounted /\ cfg.tls
  BY DEF EndSlice, InSlice, CountInv
<1> QED  BY <1>1 DEF EventsCounted, CqesCounted, BytesCounted, NothingLeft

\* The handler ends: what it has counted is added up.
LEMMA EndHandlerCounts ==
    ASSUME TypeInv, CountInv, EndHandler, ~tls_failed
    PROVE  EventsCounted' /\ CqesCounted' /\ BytesCounted' /\ NothingLeft'
<1> USE DEF connVars, seqVars, histVars, handlerVars
<1>0. /\ UNCHANGED <<cfg, run, slices, truth>> /\ local' = NoLocal
      /\ EventsCounted /\ CqesCounted /\ BytesCounted
  BY DEF EndHandler, CountInv
<1>1. /\ ingress_stats' = Drained(ingress_stats) /\ ingress_stats \in IngressStats
      /\ local \in Locals
  BY CountNats DEF EndHandler
<1>2. /\ ingress_stats'.recv_data_cqes = ingress_stats.recv_data_cqes
      /\ ingress_stats'.recv_bytes = ingress_stats.recv_bytes
      /\ ingress_stats'.plain_recv_batch_cqes = ingress_stats.plain_recv_batch_cqes
      /\ ingress_stats'.plain_recv_copied_bytes = ingress_stats.plain_recv_copied_bytes
      /\ ingress_stats'.plaintext_source_chunks = ingress_stats.plaintext_source_chunks + local.chunks
      /\ ingress_stats'.plaintext_bytes = ingress_stats.plaintext_bytes + local.bytes
      /\ ingress_stats'.ws_data_drains = ingress_stats.ws_data_drains + local.chunks
      /\ ingress_stats'.ws_text_events = ingress_stats.ws_text_events + local.text
      /\ ingress_stats'.ws_binary_events = ingress_stats.ws_binary_events + local.binary
      /\ ingress_stats'.ws_data_events = ingress_stats.ws_data_events + local.text + local.binary
  BY <1>1, DrainedStep
<1>3. local'.text = 0 /\ local'.binary = 0 /\ local'.bytes = 0 /\ ~local'.ws_error
  BY <1>0, NoLocalType
<1>4. EventsCounted'
  <2>1. truth.text \in Nat /\ truth.binary \in Nat
    BY CountNats
  <2> QED  BY <1>0, <1>2, <1>3, <2>1 DEF EventsCounted
<1>5. CqesCounted'
  BY <1>0, <1>2 DEF CqesCounted
<1>6. BytesCounted'
  <2>1. ingress_stats.plaintext_bytes \in Nat /\ local.bytes \in Nat
    BY CountNats
  <2>2. /\ ingress_stats'.plaintext_bytes + local'.bytes = ingress_stats.plaintext_bytes + local.bytes
    BY <1>2, <1>3, <2>1
  <2> QED  BY <1>0, <1>2, <1>3, <2>2 DEF BytesCounted
<1>7. NothingLeft'
  BY <1>3 DEF NothingLeft
<1> QED  BY <1>4, <1>5, <1>6, <1>7

\* The sink is given a batch, which the handler counts.
LEMMA BeginSinkCounts ==
    ASSUME TypeInv, CountInv, BeginSink, ~tls_failed
    PROVE  EventsCounted' /\ CqesCounted' /\ BytesCounted' /\ NothingLeft'
<1> USE DEF connVars, seqVars, histVars, handlerVars
<1>1. PICK t \in Nat, b \in Nat : t = Count("Text") /\ b = Count("Binary")
  BY CountNat DEF TypeInv, MetaType
<1>2. /\ UNCHANGED <<cfg, run, slices, ingress_stats>> /\ pc' = "sink"
      /\ EventsCounted /\ CqesCounted /\ BytesCounted
      /\ local' = [local EXCEPT !.text = local.text + t, !.binary = local.binary + b]
      /\ truth' = [truth EXCEPT !.text = truth.text + t, !.binary = truth.binary + b]
  BY <1>1 DEF BeginSink, CountInv
<1>3. local \in Locals /\ truth \in Truths
  BY CountNats
<1>4. local'.text = local.text + t /\ local'.binary = local.binary + b /\ local'.bytes = local.bytes
  BY <1>2, <1>3 DEF Locals
<1>5. local'.ws_error = local.ws_error
  BY <1>2, <1>3 DEF Locals
<1>6. /\ truth'.text = truth.text + t /\ truth'.binary = truth.binary + b
      /\ truth'.bytes = truth.bytes /\ truth'.general = truth.general
  BY <1>2, <1>3 DEF Truths
<1>7. truth'.bad = truth.bad
  BY <1>2, <1>3 DEF Truths
<1>8. EventsCounted'
  <2>1. /\ ingress_stats.ws_text_events \in Nat /\ ingress_stats.ws_binary_events \in Nat
        /\ ingress_stats.ws_data_events \in Nat
        /\ local.text \in Nat /\ local.binary \in Nat /\ truth.text \in Nat /\ truth.binary \in Nat
    BY CountNats
  <2>2. ingress_stats' = ingress_stats
    BY <1>2
  <2>3. /\ ingress_stats.ws_text_events + local.text = truth.text
        /\ ingress_stats.ws_binary_events + local.binary = truth.binary
        /\ ingress_stats.ws_data_events + local.text + local.binary = truth.text + truth.binary
    BY <1>2 DEF EventsCounted
  <2> QED  BY <1>4, <1>6, <2>1, <2>2, <2>3 DEF EventsCounted
<1>9. CqesCounted'
  BY <1>2 DEF CqesCounted
<1>10. BytesCounted'
  BY <1>2, <1>4, <1>5, <1>6, <1>7 DEF BytesCounted
<1>11. NothingLeft'
  BY <1>2 DEF NothingLeft
<1> QED  BY <1>8, <1>9, <1>10, <1>11

LEMMA EndChunkCounts ==
    ASSUME TypeInv, CountInv, EndChunk, ~tls_failed
    PROVE  EventsCounted' /\ CqesCounted' /\ BytesCounted' /\ NothingLeft'
<1> USE DEF connVars, seqVars, histVars, handlerVars
<1>1. PICK d \in BOOLEAN : d = (NextItem = "Bad")
  OBVIOUS
<1>2. /\ UNCHANGED <<cfg, run, slices, ingress_stats>> /\ pc' = "handler"
      /\ EventsCounted /\ CqesCounted /\ BytesCounted
      /\ local' = [local EXCEPT !.ws_error = local.ws_error \/ d]
      /\ truth' = [truth EXCEPT !.bad = truth.bad \/ d]
  BY <1>1 DEF EndChunk, CountInv
<1>3. local \in Locals /\ truth \in Truths
  BY CountNats
<1>4. local'.text = local.text /\ local'.binary = local.binary /\ local'.bytes = local.bytes
  BY <1>2, <1>3 DEF Locals
<1>5. local'.ws_error = (local.ws_error \/ d)
  BY <1>2, <1>3 DEF Locals
<1>6. /\ truth'.text = truth.text /\ truth'.binary = truth.binary
      /\ truth'.bytes = truth.bytes /\ truth'.general = truth.general
  BY <1>2, <1>3 DEF Truths
<1>7. truth'.bad = (truth.bad \/ d)
  BY <1>2, <1>3 DEF Truths
<1>8. EventsCounted'
  BY <1>2, <1>4, <1>6 DEF EventsCounted
<1>9. CqesCounted'
  BY <1>2 DEF CqesCounted
<1>10. BytesCounted'
  BY <1>2, <1>4, <1>5, <1>6, <1>7 DEF BytesCounted
<1>11. NothingLeft'
  BY <1>2 DEF NothingLeft
<1> QED  BY <1>8, <1>9, <1>10, <1>11

LEMMA CountNext ==
    ASSUME TypeInv, CountInv, Next
    PROVE  CountInv'
<1> USE DEF connVars, seqVars, histVars, handlerVars
<1> SUFFICES ASSUME ~tls_failed' PROVE EventsCounted' /\ CqesCounted' /\ BytesCounted' /\ NothingLeft'
  BY DEF CountInv
<1>0. ~tls_failed
  BY TlsStaysFailed
<1>1. CASE Discard \/ NoData
  BY <1>1, ExhaustionCounts DEF CountInv
<1>2. CASE General
  BY <1>0, <1>2, GeneralCounts
<1>3. CASE BeginSingle
  BY <1>0, <1>3, BeginSingleCounts
<1>4. CASE BeginRun
  BY <1>0, <1>4, BeginRunCounts
<1>5. CASE BeginCopied
  BY <1>0, <1>5, BeginCopiedCounts
<1>6. CASE ObserveCqe
  BY <1>0, <1>6, ObserveCqeCounts
<1>7. CASE BeginChunk
  BY <1>0, <1>7, BeginChunkCounts
<1>8. CASE SkipSlice \/ EndSlice
  BY <1>0, <1>8, SkipSliceCounts, EndSliceCounts
<1>9. CASE TlsFails
  BY <1>9 DEF TlsFails
<1>10. CASE EndHandler
  BY <1>0, <1>10, EndHandlerCounts
<1>11. CASE BeginSink
  BY <1>0, <1>11, BeginSinkCounts
<1>12. CASE EndChunk
  BY <1>0, <1>12, EndChunkCounts
<1>13. CASE Pump \/ EndPump \/ PushEvent \/ EndSink \/ DropControl \/ Tick \/ ExportInterval
  <2>1. UNCHANGED <<cfg, run, slices, ingress_stats, local, truth>>
    BY <1>13 DEF Pump, EndPump, PushEvent, EndSink, DropControl, Tick, ExportInterval
  <2>2. pc' \in {"ready", "dispatch"} => pc \in {"ready", "dispatch"}
    BY <1>13 DEF Pump, EndPump, PushEvent, EndSink, DropControl, Tick, ExportInterval
  <2>3. EventsCounted /\ CqesCounted /\ BytesCounted /\ NothingLeft
    BY <1>0 DEF CountInv
  <2> QED  BY <2>1, <2>2, <2>3 DEF EventsCounted, CqesCounted, BytesCounted, NothingLeft
<1> QED  BY <1>1, <1>2, <1>3, <1>4, <1>5, <1>6, <1>7, <1>8, <1>9, <1>10, <1>11, <1>12, <1>13
         DEF Next

\* Between two pumps the counters say what the data sinks were given, through whichever
\* of the pumps and ways of the bytes, unless rustls has failed; and what the parser was
\* fed, as long as no general pump has fed it and the client had no error.
THEOREM IngressCounters == Spec => []CountersMatchSink
<1>1. Init => CountInv
  <2> SUFFICES ASSUME Init PROVE CountInv
    OBVIOUS
  <2>1. /\ ingress_stats = NoStats /\ local = NoLocal /\ run = <<>> /\ slices = <<>>
        /\ truth = [text |-> 0, binary |-> 0, bytes |-> 0, general |-> 0, bad |-> FALSE]
    BY DEF Init
  <2>2. Len(run) = 0
    BY <2>1, EmptySeq
  <2>3. Total(slices) = 0
    BY <2>1, TotalEmpty
  <2>4. /\ NoStats.recv_data_cqes = 0 /\ NoStats.recv_bytes = 0 /\ NoStats.plain_recv_batch_cqes = 0
        /\ NoStats.plain_recv_copied_bytes = 0 /\ NoStats.plaintext_source_chunks = 0
        /\ NoStats.plaintext_bytes = 0 /\ NoStats.ws_data_drains = 0
        /\ NoStats.ws_data_events = 0 /\ NoStats.ws_text_events = 0
        /\ NoStats.ws_binary_events = 0
    BY DEF NoStats
  <2>5. /\ local.text = 0 /\ local.binary = 0 /\ local.bytes = 0 /\ ~local.ws_error
    BY <2>1, NoLocalType
  <2>6. truth.text = 0 /\ truth.binary = 0 /\ truth.bytes = 0 /\ truth.general = 0 /\ ~truth.bad
    BY <2>1
  <2>7. EventsCounted
    BY <2>1, <2>4, <2>5, <2>6 DEF EventsCounted
  <2>8. CqesCounted
    BY <2>1, <2>2, <2>4 DEF CqesCounted
  <2>9. BytesCounted
    BY <2>1, <2>3, <2>4, <2>5, <2>6 DEF BytesCounted
  <2> QED  BY <2>5, <2>7, <2>8, <2>9 DEF CountInv, NothingLeft
<1>2. TypeInv /\ CountInv /\ [Next]_vars => CountInv'
  <2> SUFFICES ASSUME TypeInv, CountInv, [Next]_vars PROVE CountInv'
    OBVIOUS
  <2>1. CASE UNCHANGED vars
    BY <2>1 DEF vars, connVars, handlerVars, CountInv, EventsCounted, CqesCounted, BytesCounted,
                NothingLeft
  <2> QED  BY <2>1, CountNext
<1>3. TypeInv /\ CountInv => CountersMatchSink
  <2> SUFFICES ASSUME TypeInv, CountInv, pc = "ready", ~tls_failed PROVE CountersMatchSink
    BY DEF CountersMatchSink
  <2>1. /\ local.text = 0 /\ local.binary = 0 /\ local.bytes = 0 /\ Len(run) = 0
        /\ Total(slices) = 0
    BY Idle
  <2>2. /\ ingress_stats.ws_text_events \in Nat /\ ingress_stats.ws_binary_events \in Nat
        /\ ingress_stats.ws_data_events \in Nat /\ ingress_stats.recv_data_cqes \in Nat
        /\ ingress_stats.plaintext_bytes \in Nat /\ truth.bytes \in Nat /\ truth.general \in Nat
        /\ truth.text \in Nat /\ truth.binary \in Nat
    BY CountNats
  <2>3. EventsCounted /\ CqesCounted /\ BytesCounted
    BY DEF CountInv
  <2>4. /\ ingress_stats.ws_text_events = truth.text
        /\ ingress_stats.ws_binary_events = truth.binary
        /\ ingress_stats.ws_data_events = truth.text + truth.binary
    BY <2>1, <2>2, <2>3 DEF EventsCounted
  <2>5. /\ ingress_stats.ws_data_drains = ingress_stats.plaintext_source_chunks
        /\ ingress_stats.plain_recv_batch_cqes <= ingress_stats.recv_data_cqes
    BY <2>1, <2>2, <2>3 DEF CqesCounted
  <2>6. ingress_stats.plain_recv_copied_bytes <= ingress_stats.plaintext_bytes
    BY <2>1, <2>2, <2>3 DEF BytesCounted
  <2>7. ASSUME ~truth.bad PROVE ingress_stats.plaintext_bytes = truth.bytes
    BY <2>1, <2>2, <2>3, <2>7 DEF BytesCounted
  <2>8. ASSUME ~truth.bad, ~cfg.tls PROVE ingress_stats.recv_bytes = truth.bytes + truth.general
    BY <2>1, <2>2, <2>3, <2>8 DEF BytesCounted
  <2> QED  BY <2>4, <2>5, <2>6, <2>7, <2>8 DEF CountersMatchSink
<1> QED  BY <1>1, <1>2, <1>3, TypeAlways, PTL DEF Spec


-----------------------------------------------------------------------------
(* The marks are in order.                                                  *)

\* The messages in the batch that have their number but were not delivered.
Numbered == IF Marked THEN Len(chunk.batch) ELSE 0

\* The numbers that were given are those delivered and those of the batch.
NumberInv ==
    /\ delivered = <<>> => marked_message_sequence = Numbered
    /\ delivered # <<>> => marked_message_sequence = delivered[1].message_sequence + 1 + Numbered
    /\ Marked => \A i \in 1 .. Len(chunk.batch) :
                    chunk.batch[i].meta.message_sequence + Len(chunk.batch) + 1
                        = marked_message_sequence + i

\* A message of a chunk before the c-th of CQE r; an index that is saturated is not
\* exceeded.
EarlierChunk(m, r, c) ==
    \/ m.recv_sequence < r
    \/ m.recv_sequence = r /\ (m.chunk_index < c \/ (m.chunk_index = c /\ c = IndexMax))

\* The place that follows that of a message.
Precedes(m, r, c, i) ==
    \/ EarlierChunk(m, r, c)
    \/ m.recv_sequence = r /\ m.chunk_index = c /\ NextIndex(m.message_index) = i

InChunk == pc \in {"chunk", "call", "sink"}

\* The handler of a marked pump has a CQE.
InCqe == Marked /\ (InChunk \/ slices # <<>>)

\* The index of the first message of the chunk that is not delivered.
FirstIndex == IF chunk.batch = <<>> THEN chunk.message_index ELSE chunk.batch[1].meta.message_index

\* The chunk is the one that the handler counted last, and so are its messages.
ChunkPlace ==
    /\ chunk.base.recv_sequence = recv_meta.recv_sequence
    /\ local.chunk_index = NextIndex(chunk.base.chunk_index)
    /\ \A i \in 1 .. Len(chunk.batch) :
          /\ chunk.batch[i].meta.recv_sequence = chunk.base.recv_sequence
          /\ chunk.batch[i].meta.chunk_index = chunk.base.chunk_index
          /\ NextIndex(chunk.batch[i].meta.message_index) =
                IF i < Len(chunk.batch) THEN chunk.batch[i + 1].meta.message_index
                ELSE chunk.message_index

\* The last message delivered is before the next CQE, the next chunk, the next message.
PlaceInv ==
    /\ delivered # <<>> => delivered[1].recv_sequence < marked_recv_sequence
    /\ InCqe => recv_meta.recv_sequence < marked_recv_sequence
    /\ InCqe /\ ~InChunk /\ delivered # <<>> =>
          EarlierChunk(delivered[1], recv_meta.recv_sequence, local.chunk_index)
    /\ Marked /\ InChunk => ChunkPlace
    /\ Marked /\ InChunk /\ delivered # <<>> =>
          Precedes(delivered[1], chunk.base.recv_sequence, chunk.base.chunk_index, FirstIndex)


\* A number is given to a message when it joins the batch, and to no other.
LEMMA NumberNext ==
    ASSUME TypeInv, NumberInv, Next
    PROVE  NumberInv'
<1> USE DEF connVars, seqVars, histVars, handlerVars
<1>0. /\ chunk \in Chunks /\ marked_message_sequence \in Nat /\ clock \in Nat /\ PhaseInv
      /\ Len(chunk.batch) \in Nat /\ Len(<<>>) = 0
      /\ \A i \in 1 .. Len(chunk.batch) : chunk.batch[i].meta.message_sequence \in Nat
  <2>1. chunk \in Chunks /\ marked_message_sequence \in Nat /\ clock \in Nat /\ PhaseInv
    BY Bounds DEF TypeInv, ConnType, MetaType
  <2> QED  BY <2>1, BatchMeta, MetaFields, EmptySeq
<1>1. delivered # <<>> => delivered[1] \in Meta
  <2>1. delivered # <<>> => 1 \in 1 .. Len(delivered)
    BY EmptySeq, LenProperties DEF TypeInv, MetaType
  <2> QED  BY <2>1, ElementOfSeq DEF TypeInv, MetaType
<1>2. delivered # <<>> => delivered[1].message_sequence \in Nat
  BY <1>1, MetaFields
<1>3. CASE PushEvent
  <2>1. /\ Len(chunk'.batch) = Len(chunk.batch) + 1
        /\ \A i \in 1 .. Len(chunk.batch) : chunk'.batch[i] = chunk.batch[i]
        /\ chunk'.batch[Len(chunk.batch) + 1].meta = NextMeta
    BY <1>3, PushEventChunk
  <2>2. delivered' = delivered /\ flavour' = flavour
    BY <1>3 DEF PushEvent
  <2>3. CASE Marked
    <3>1. Marked' /\ marked_message_sequence' = marked_message_sequence + 1
      BY <1>3, <2>2, <2>3 DEF PushEvent, Marked
    <3>2. Numbered = Len(chunk.batch) /\ Numbered' = Len(chunk.batch) + 1
      BY <2>1, <2>3, <3>1 DEF Numbered
    <3>3. ASSUME NEW i \in 1 .. Len(chunk'.batch)
          PROVE  chunk'.batch[i].meta.message_sequence + Len(chunk'.batch) + 1
                     = marked_message_sequence' + i
      <4>1. CASE i \in 1 .. Len(chunk.batch)
        <5>1. /\ chunk.batch[i].meta.message_sequence + Len(chunk.batch) + 1
                     = marked_message_sequence + i
              /\ chunk'.batch[i] = chunk.batch[i]
              /\ chunk.batch[i].meta.message_sequence \in Nat
          BY <1>0, <2>1, <2>3, <4>1 DEF NumberInv
        <5> QED  BY <1>0, <2>1, <3>1, <4>1, <5>1
      <4>2. CASE i \notin 1 .. Len(chunk.batch)
        <5>1. i = Len(chunk.batch) + 1
          BY <1>0, <2>1, <4>2
        <5>2. chunk'.batch[i].meta.message_sequence = marked_message_sequence
          BY <1>0, <2>1, <5>1, NextMetaStep
        <5>3. \A x, y \in Nat : x + (y + 1) + 1 = (x + 1) + (y + 1)
          OBVIOUS
        <5>4. marked_message_sequence \in Nat /\ Len(chunk.batch) \in Nat
          BY <1>0
        <5> QED  BY <2>1, <3>1, <5>1, <5>2, <5>3, <5>4
      <4> QED  BY <4>1, <4>2
    <3>4. delivered' = <<>> => marked_message_sequence' = Numbered'
      BY <1>0, <2>2, <3>1, <3>2 DEF NumberInv
    <3>5. ASSUME delivered' # <<>>
          PROVE  marked_message_sequence' = delivered'[1].message_sequence + 1 + Numbered'
      <4>1. marked_message_sequence = delivered[1].message_sequence + 1 + Len(chunk.batch)
        BY <2>2, <3>2, <3>5 DEF NumberInv
      <4>2. delivered[1].message_sequence \in Nat /\ Len(chunk.batch) \in Nat
        BY <1>0, <1>2, <2>2, <3>5
      <4>3. \A x, y \in Nat : (x + 1 + y) + 1 = x + 1 + (y + 1)
        OBVIOUS
      <4> QED  BY <2>2, <3>1, <3>2, <4>1, <4>2, <4>3
    <3> QED  BY <3>3, <3>4, <3>5 DEF NumberInv
  <2>4. CASE ~Marked
    <3>1. ~Marked' /\ marked_message_sequence' = marked_message_sequence
      BY <1>0, <1>3, <2>2, <2>4 DEF PushEvent, Marked
    <3>2. Numbered = 0 /\ Numbered' = 0
      BY <2>4, <3>1 DEF Numbered
    <3> QED  BY <2>2, <3>1, <3>2 DEF NumberInv
  <2> QED  BY <2>3, <2>4
<1>4. CASE BeginSink
  <2>1. chunk'.batch = <<>> /\ Len(chunk.batch) \in Nat \ {0}
    BY <1>4, BeginSinkChunk
  <2>2. flavour' = flavour /\ marked_message_sequence' = marked_message_sequence
    BY <1>4 DEF BeginSink
  <2>3. Numbered' = 0 /\ Len(chunk'.batch) = 0
    BY <1>0, <2>1 DEF Numbered
  <2>4. CASE Marked
    <3>1. PICK m : m = chunk.batch[Len(chunk.batch)].meta
      OBVIOUS
    <3>2. delivered' = <<m>>
      BY <1>4, <2>4, <3>1 DEF BeginSink
    <3>3. delivered'[1] = m /\ delivered' # <<>>
      BY <3>2
    <3>4. Len(chunk.batch) \in 1 .. Len(chunk.batch)
      BY <2>1
    <3>5. m.message_sequence + Len(chunk.batch) + 1 = marked_message_sequence + Len(chunk.batch)
      BY <2>4, <3>1, <3>4 DEF NumberInv
    <3>6. m.message_sequence \in Nat
      BY <1>0, <3>1, <3>4
    <3>7. marked_message_sequence = m.message_sequence + 1 + 0
      BY <1>0, <3>5, <3>6
    <3> QED  BY <2>2, <2>3, <3>3, <3>7 DEF NumberInv
  <2>5. CASE ~Marked
    <3>1. delivered' = delivered /\ Numbered = 0
      BY <1>4, <2>5 DEF BeginSink, Numbered
    <3> QED  BY <2>2, <2>3, <3>1 DEF NumberInv
  <2> QED  BY <2>4, <2>5
<1>5. ASSUME Len(chunk.batch) = 0, Len(chunk'.batch) = 0,
             UNCHANGED <<marked_message_sequence, delivered>>
      PROVE  NumberInv'
  <2>1. Numbered = 0 /\ Numbered' = 0
    BY <1>5 DEF Numbered
  <2> QED  BY <1>5, <2>1 DEF NumberInv
<1>6. CASE BeginCopied \/ BeginChunk \/ Pump
  <2>1. chunk = NoChunk
    BY <1>0, <1>6 DEF BeginCopied, BeginsRun, DataHead, Dispatching, BeginChunk, InSlice, Pump,
                      PhaseInv
  <2>2. Len(chunk.batch) = 0
    BY <1>0, <2>1, NoChunkType
  <2>3. chunk'.batch = <<>>
    <3>1. CASE Pump
      BY <2>1, <3>1, NoChunkType DEF Pump
    <3>2. CASE BeginCopied \/ BeginChunk
      BY <3>2, BeginCopiedChunk, BeginChunkChunk DEF NewChunk
    <3> QED  BY <1>6, <3>1, <3>2
  <2>4. UNCHANGED <<marked_message_sequence, delivered>>
    BY <1>6 DEF BeginCopied, BeginChunk, Pump
  <2> QED  BY <1>0, <1>5, <2>2, <2>3, <2>4
<1>7. CASE EndChunk
  <2>1. chunk.batch = <<>> /\ chunk' = NoChunk /\ UNCHANGED <<marked_message_sequence, delivered>>
    BY <1>7 DEF EndChunk
  <2>2. chunk'.batch = <<>>
    BY <2>1, NoChunkType
  <2> QED  BY <1>0, <1>5, <2>1, <2>2
<1>8. ASSUME chunk'.batch = chunk.batch, UNCHANGED <<marked_message_sequence, delivered, flavour>>
      PROVE  NumberInv'
  BY <1>8 DEF NumberInv, Numbered, Marked
<1>9. CASE EndSink \/ DropControl \/ Tick
  <2>1. chunk'.batch = chunk.batch
    BY <1>9, EndSinkChunk, DropControlChunk, TickChunk
  <2>2. UNCHANGED <<marked_message_sequence, delivered, flavour>>
    BY <1>9 DEF EndSink, DropControl, Tick
  <2> QED  BY <1>8, <2>1, <2>2
<1>10. CASE ~(\/ PushEvent \/ BeginSink \/ BeginCopied \/ BeginChunk \/ Pump \/ EndChunk \/ EndSink
              \/ DropControl \/ Tick)
  <2>1. UNCHANGED <<chunk, marked_message_sequence, delivered, flavour>>
    BY <1>10 DEF Next, Discard, NoData, General, BeginSingle, BeginRun, EndPump, ObserveCqe,
                 SkipSlice, EndSlice, TlsFails, EndHandler, ExportInterval
  <2> QED  BY <1>8, <2>1
<1> QED  BY <1>3, <1>4, <1>6, <1>7, <1>9, <1>10


\* What precedes a message of a chunk precedes the next chunk.
LEMMA NextChunkLater ==
    ASSUME NEW m \in Meta, NEW r \in Nat, NEW c \in 0 .. IndexMax, NEW i, Precedes(m, r, c, i)
    PROVE  EarlierChunk(m, r, NextIndex(c))
<1>1. m.recv_sequence \in Nat /\ m.chunk_index \in 0 .. IndexMax /\ IndexMax \in Nat
  BY MetaFields, Bounds
<1> QED  BY <1>1 DEF Precedes, EarlierChunk, NextIndex

LEMMA LastDelivered ==
    ASSUME TypeInv, delivered # <<>>
    PROVE  delivered[1] \in Meta /\ Len(delivered) = 1
<1>1. Len(delivered) \in Nat /\ Len(delivered) # 0 /\ Len(delivered) <= 1
  BY EmptySeq, LenProperties DEF TypeInv, MetaType
<1>2. 1 \in 1 .. Len(delivered) /\ Len(delivered) = 1
  BY <1>1
<1> QED  BY <1>2, ElementOfSeq DEF TypeInv, MetaType

\* A CQE is observed: it is after all that was delivered.
LEMMA ObserveCqePlace ==
    ASSUME TypeInv, PlaceInv, ObserveCqe
    PROVE  PlaceInv'
<1> USE DEF connVars, seqVars, histVars, handlerVars
<1>1. /\ ~InChunk' /\ delivered' = delivered /\ flavour' = flavour
      /\ local' = [local EXCEPT !.chunk_index = 0]
      /\ marked_recv_sequence \in Nat /\ clock \in Nat
  BY Bounds DEF ObserveCqe, Handling, InChunk, TypeInv, ConnType
<1>2. CASE Marked
  <2>1. recv_meta' = RecvObserved /\ marked_recv_sequence' = marked_recv_sequence + 1
    BY <1>2 DEF ObserveCqe
  <2>2. recv_meta'.recv_sequence = marked_recv_sequence
    BY <1>1, <2>1, RecvObservedStep
  <2>3. ASSUME delivered # <<>>
        PROVE  /\ delivered[1].recv_sequence < marked_recv_sequence
               /\ delivered[1].recv_sequence \in Nat
    BY <2>3, LastDelivered, MetaFields DEF PlaceInv
  <2>4. ASSUME delivered' # <<>>
        PROVE  /\ delivered'[1].recv_sequence < marked_recv_sequence'
               /\ EarlierChunk(delivered'[1], recv_meta'.recv_sequence, local'.chunk_index)
    BY <1>1, <2>1, <2>2, <2>3, <2>4 DEF EarlierChunk
  <2>5. recv_meta'.recv_sequence < marked_recv_sequence'
    BY <1>1, <2>1, <2>2
  <2> QED  BY <1>1, <2>4, <2>5 DEF PlaceInv
<1>3. CASE ~Marked
  <2>1. ~Marked' /\ marked_recv_sequence' = marked_recv_sequence
    BY <1>1, <1>3 DEF ObserveCqe, Marked
  <2> QED  BY <1>1, <2>1 DEF PlaceInv, InCqe
<1> QED  BY <1>2, <1>3

\* A chunk begins where the handler is.
LEMMA BeginChunkPlace ==
    ASSUME TypeInv, PlaceInv, BeginChunk
    PROVE  PlaceInv'
<1> USE DEF connVars, seqVars, histVars, handlerVars
<1>1. /\ InChunk' /\ UNCHANGED <<delivered, flavour, recv_meta, marked_recv_sequence>>
      /\ ~InChunk /\ slices # <<>> /\ local \in Locals /\ recv_meta \in Meta /\ clock \in Nat
  BY Bounds DEF BeginChunk, InSlice, InChunk, TypeInv, CountType, MetaType, ConnType
<1>2. CASE Marked
  <2>1. InCqe /\ Marked'
    BY <1>1, <1>2 DEF InCqe, Marked
  <2>2. PICK m : m = PlaintextReady(local.chunk_index)
    OBVIOUS
  <2>3. local.chunk_index \in 0 .. IndexMax /\ NewChunk(m)
    BY <1>2, <2>2, BeginChunkChunk
  <2>4. /\ chunk'.base = m /\ chunk'.batch = <<>> /\ chunk'.message_index = 0
    BY <2>3 DEF NewChunk
  <2>5. m.recv_sequence = recv_meta.recv_sequence /\ m.chunk_index = local.chunk_index
    BY <1>1, <2>2, <2>3, PlaintextReadyStep
  <2>6. local'.chunk_index = NextIndex(local.chunk_index)
    BY <1>1 DEF BeginChunk, Locals
  <2>7. Len(chunk'.batch) = 0
    BY <2>4, EmptySeq
  <2>8. ChunkPlace'
    BY <1>1, <2>4, <2>5, <2>6, <2>7 DEF ChunkPlace
  <2>9. ASSUME delivered # <<>>
        PROVE  Precedes(delivered[1], chunk'.base.recv_sequence, chunk'.base.chunk_index, FirstIndex')
    BY <1>1, <2>1, <2>4, <2>5, <2>9 DEF PlaceInv, Precedes
  <2>10. delivered # <<>> => delivered[1].recv_sequence < marked_recv_sequence
    BY DEF PlaceInv
  <2>11. recv_meta.recv_sequence < marked_recv_sequence
    BY <2>1 DEF PlaceInv
  <2> QED  BY <1>1, <2>8, <2>9, <2>10, <2>11 DEF PlaceInv
<1>3. CASE ~Marked
  <2>1. ~Marked'
    BY <1>1, <1>3 DEF Marked
  <2> QED  BY <1>1, <2>1 DEF PlaceInv, InCqe
<1> QED  BY <1>2, <1>3

\* A message joins the batch at the place of the drain.
LEMMA PushEventPlace ==
    ASSUME TypeInv, PlaceInv, PushEvent
    PROVE  PlaceInv'
<1> USE DEF connVars, seqVars, histVars, handlerVars
<1>1. /\ InChunk' /\ InChunk
      /\ UNCHANGED <<delivered, flavour, recv_meta, marked_recv_sequence, local>>
      /\ chunk \in Chunks /\ clock \in Nat /\ marked_message_sequence \in Nat
  BY Bounds DEF PushEvent, InChunk, TypeInv, MetaType, ConnType
<1>2. CASE Marked
  <2>1. Marked' /\ ChunkPlace /\ InCqe
    BY <1>1, <1>2 DEF Marked, PlaceInv, InCqe
  <2>2. /\ chunk'.base = chunk.base /\ chunk'.message_index = NextIndex(chunk.message_index)
        /\ Len(chunk'.batch) = Len(chunk.batch) + 1
        /\ \A i \in 1 .. Len(chunk.batch) : chunk'.batch[i] = chunk.batch[i]
        /\ chunk'.batch[Len(chunk.batch) + 1].meta = NextMeta
    BY PushEventChunk
  <2>3. PICK n \in Nat : n = Len(chunk.batch)
    BY <1>1, BatchMeta
  <2>4. PICK m : m = NextMeta
    OBVIOUS
  <2>5. /\ m.recv_sequence = chunk.base.recv_sequence /\ m.chunk_index = chunk.base.chunk_index
        /\ m.message_index = chunk.message_index
    BY <1>1, <2>4, NextMetaStep
  <2>6. chunk.batch = <<>> <=> n = 0
    BY <1>1, <2>3, ChunkFields, EmptySeq
  <2>7. ASSUME NEW i \in 1 .. n + 1
        PROVE  /\ chunk'.batch[i].meta.recv_sequence = chunk.base.recv_sequence
               /\ chunk'.batch[i].meta.chunk_index = chunk.base.chunk_index
               /\ NextIndex(chunk'.batch[i].meta.message_index) =
                     IF i < n + 1 THEN chunk'.batch[i + 1].meta.message_index
                     ELSE NextIndex(chunk.message_index)
    <3>1. CASE i = n + 1
      <4>1. chunk'.batch[i].meta = m
        BY <2>2, <2>3, <2>4, <3>1
      <4> QED  BY <2>5, <3>1, <4>1
    <3>2. CASE i = n
      <4>1. i \in 1 .. Len(chunk.batch) /\ ~(i < Len(chunk.batch)) /\ i < n + 1
        BY <2>3, <3>2
      <4>2. chunk'.batch[i] = chunk.batch[i] /\ chunk'.batch[i + 1].meta = m
        BY <2>2, <2>3, <2>4, <3>2, <4>1
      <4>3. /\ chunk.batch[i].meta.recv_sequence = chunk.base.recv_sequence
            /\ chunk.batch[i].meta.chunk_index = chunk.base.chunk_index
            /\ NextIndex(chunk.batch[i].meta.message_index) = chunk.message_index
        BY <2>1, <4>1 DEF ChunkPlace
      <4> QED  BY <2>5, <4>1, <4>2, <4>3
    <3>3. CASE i # n /\ i # n + 1
      <4>1. /\ i \in 1 .. Len(chunk.batch) /\ i < Len(chunk.batch) /\ i < n + 1
            /\ i + 1 \in 1 .. Len(chunk.batch)
        BY <2>3, <3>3
      <4>2. chunk'.batch[i] = chunk.batch[i] /\ chunk'.batch[i + 1] = chunk.batch[i + 1]
        BY <2>2, <4>1
      <4>3. /\ chunk.batch[i].meta.recv_sequence = chunk.base.recv_sequence
            /\ chunk.batch[i].meta.chunk_index = chunk.base.chunk_index
            /\ NextIndex(chunk.batch[i].meta.message_index) = chunk.batch[i + 1].meta.message_index
        BY <2>1, <4>1 DEF ChunkPlace
      <4> QED  BY <4>1, <4>2, <4>3
    <3> QED  BY <3>1, <3>2, <3>3
  <2>8. ChunkPlace'
    <3>1. Len(chunk'.batch) = n + 1
      BY <2>2, <2>3
    <3>2. /\ chunk.base.recv_sequence = recv_meta.recv_sequence
          /\ local.chunk_index = NextIndex(chunk.base.chunk_index)
      BY <2>1 DEF ChunkPlace
    <3> QED  BY <1>1, <2>2, <2>7, <3>1, <3>2 DEF ChunkPlace
  <2>9. FirstIndex' = FirstIndex
    <3>1. chunk'.batch # <<>>
      <4>1. Len(chunk'.batch) # 0
        BY <2>2, <2>3
      <4> QED  BY <4>1, EmptySeq
    <3>2. CASE n = 0
      <4>1. chunk'.batch[1].meta = m /\ chunk.batch = <<>>
        BY <2>2, <2>3, <2>4, <2>6, <3>2
      <4> QED  BY <2>5, <3>1, <4>1 DEF FirstIndex
    <3>3. CASE n # 0
      <4>1. 1 \in 1 .. Len(chunk.batch) /\ chunk.batch # <<>>
        BY <2>3, <2>6, <3>3
      <4>2. chunk'.batch[1] = chunk.batch[1]
        BY <2>2, <4>1
      <4> QED  BY <3>1, <4>1, <4>2 DEF FirstIndex
    <3> QED  BY <3>2, <3>3
  <2>10. delivered # <<>> =>
            Precedes(delivered[1], chunk.base.recv_sequence, chunk.base.chunk_index, FirstIndex)
    BY <1>1, <1>2 DEF PlaceInv
  <2>11. /\ delivered # <<>> => delivered[1].recv_sequence < marked_recv_sequence
         /\ recv_meta.recv_sequence < marked_recv_sequence
    BY <2>1 DEF PlaceInv
  <2> QED  BY <1>1, <2>2, <2>8, <2>9, <2>10, <2>11 DEF PlaceInv
<1>3. CASE ~Marked
  <2>1. ~Marked'
    BY <1>1, <1>3 DEF Marked
  <2> QED  BY <1>1, <2>1 DEF PlaceInv, InCqe
<1> QED  BY <1>2, <1>3

\* The sink is given the batch: the last message of it is just before the next one.
LEMMA BeginSinkPlace ==
    ASSUME TypeInv, PlaceInv, BeginSink
    PROVE  PlaceInv'
<1> USE DEF connVars, seqVars, histVars, handlerVars
<1>1. /\ InChunk' /\ InChunk
      /\ UNCHANGED <<flavour, recv_meta, marked_recv_sequence>>
      /\ local' = [local EXCEPT !.text = @ + Count("Text"), !.binary = @ + Count("Binary")]
      /\ local \in Locals
  BY DEF BeginSink, FlushDue, InChunk, TypeInv, CountType
<1>2. local'.chunk_index = local.chunk_index
  BY <1>1 DEF Locals
<1>3. CASE Marked
  <2>1. Marked' /\ ChunkPlace /\ InCqe
    BY <1>1, <1>3 DEF Marked, PlaceInv, InCqe
  <2>2. /\ chunk'.base = chunk.base /\ chunk'.message_index = chunk.message_index
        /\ chunk'.batch = <<>> /\ Len(chunk.batch) \in Nat \ {0}
    BY BeginSinkChunk
  <2>3. PICK m : m = chunk.batch[Len(chunk.batch)].meta
    OBVIOUS
  <2>4. delivered' = <<m>>
    BY <1>3, <2>3 DEF BeginSink
  <2>5. delivered'[1] = m
    BY <2>4
  <2>6. /\ m.recv_sequence = chunk.base.recv_sequence
        /\ m.chunk_index = chunk.base.chunk_index
        /\ NextIndex(m.message_index) = chunk.message_index
        /\ chunk.base.recv_sequence = recv_meta.recv_sequence
        /\ local.chunk_index = NextIndex(chunk.base.chunk_index)
    <3>1. PICK n : n = Len(chunk.batch)
      OBVIOUS
    <3>2. n \in 1 .. Len(chunk.batch) /\ ~(n < Len(chunk.batch))
      BY <2>2, <3>1
    <3> QED  BY <2>1, <2>3, <3>1, <3>2 DEF ChunkPlace
  <2>7. Len(chunk'.batch) = 0
    BY <2>2, EmptySeq
  <2>8. ChunkPlace'
    BY <1>1, <1>2, <2>2, <2>6, <2>7 DEF ChunkPlace
  <2>9. FirstIndex' = chunk.message_index
    BY <2>2 DEF FirstIndex
  <2>10. Precedes(m, chunk.base.recv_sequence, chunk.base.chunk_index, chunk.message_index)
    BY <2>6 DEF Precedes
  <2>11. recv_meta.recv_sequence < marked_recv_sequence
    BY <2>1 DEF PlaceInv
  <2> QED  BY <1>1, <2>2, <2>5, <2>6, <2>8, <2>9, <2>10, <2>11 DEF PlaceInv
<1>4. CASE ~Marked
  <2>1. ~Marked' /\ delivered' = delivered
    BY <1>1, <1>4 DEF Marked, BeginSink
  <2> QED  BY <1>1, <2>1 DEF PlaceInv, InCqe
<1> QED  BY <1>3, <1>4

LEMMA PlaceNext ==
    ASSUME TypeInv, PlaceInv, Next
    PROVE  PlaceInv'
<1> USE DEF connVars, seqVars, histVars, handlerVars
<1>0. PhaseInv /\ chunk \in Chunks /\ local \in Locals
  BY DEF TypeInv, MetaType, CountType
<1>1. CASE ObserveCqe
  BY <1>1, ObserveCqePlace
<1>2. CASE BeginChunk
  BY <1>2, BeginChunkPlace
<1>3. CASE PushEvent
  BY <1>3, PushEventPlace
<1>4. CASE BeginSink
  BY <1>4, BeginSinkPlace
<1>5. CASE EndChunk
  <2>1. /\ ~InChunk' /\ InChunk /\ chunk.batch = <<>>
        /\ UNCHANGED <<delivered, flavour, recv_meta, marked_recv_sequence, slices>>
        /\ local' = [local EXCEPT !.ws_error = @ \/ NextItem = "Bad"]
    BY <1>5 DEF EndChunk, InChunk
  <2>2. local'.chunk_index = local.chunk_index
    BY <1>0, <2>1 DEF Locals
  <2>3. delivered # <<>> => delivered[1].recv_sequence < marked_recv_sequence
    BY DEF PlaceInv
  <2>4. CASE Marked
    <3>1. ChunkPlace /\ InCqe
      BY <2>1, <2>4 DEF PlaceInv, InCqe
    <3>2. /\ chunk.base.recv_sequence = recv_meta.recv_sequence
          /\ local.chunk_index = NextIndex(chunk.base.chunk_index)
          /\ recv_meta.recv_sequence < marked_recv_sequence
      BY <3>1 DEF ChunkPlace, PlaceInv
    <3>3. ASSUME delivered # <<>>
          PROVE  EarlierChunk(delivered[1], recv_meta.recv_sequence, local.chunk_index)
      <4>1. chunk.base \in Meta
        BY <1>0, ChunkFields
      <4>2. chunk.base.recv_sequence \in Nat /\ chunk.base.chunk_index \in 0 .. IndexMax
        BY <4>1, MetaFields
      <4>3. Precedes(delivered[1], chunk.base.recv_sequence, chunk.base.chunk_index, FirstIndex)
        BY <2>1, <2>4, <3>3 DEF PlaceInv
      <4>4. delivered[1] \in Meta
        BY <3>3, LastDelivered
      <4>5. EarlierChunk(delivered[1], chunk.base.recv_sequence, NextIndex(chunk.base.chunk_index))
        BY <4>2, <4>3, <4>4, NextChunkLater
      <4> QED  BY <3>2, <4>5
    <3> QED  BY <2>1, <2>2, <2>3, <3>2, <3>3 DEF PlaceInv
  <2>5. CASE ~Marked
    <3>1. ~Marked'
      BY <2>1, <2>5 DEF Marked
    <3> QED  BY <2>1, <2>3, <3>1 DEF PlaceInv, InCqe
  <2> QED  BY <2>4, <2>5
<1>6. CASE EndSink \/ DropControl \/ Tick
  <2>1. /\ chunk'.base = chunk.base /\ chunk'.batch = chunk.batch
        /\ chunk'.message_index = chunk.message_index
    BY <1>6, EndSinkChunk, DropControlChunk, TickChunk
  <2>2. UNCHANGED <<delivered, flavour, recv_meta, marked_recv_sequence, slices, local>>
    BY <1>6 DEF EndSink, DropControl, Tick
  <2>3. InChunk' = InChunk
    BY <1>6 DEF EndSink, DropControl, Tick, InChunk
  <2>4. Marked' = Marked /\ FirstIndex' = FirstIndex
    BY <2>1, <2>2 DEF Marked, FirstIndex
  <2>5. InCqe' = InCqe
    BY <2>2, <2>3, <2>4 DEF InCqe
  <2>6. ChunkPlace' = ChunkPlace
    BY <2>1, <2>2 DEF ChunkPlace
  <2> QED  BY <2>1, <2>2, <2>3, <2>4, <2>5, <2>6 DEF PlaceInv
<1>7. CASE SkipSlice \/ EndSlice
  <2>1. /\ UNCHANGED <<delivered, flavour, recv_meta, marked_recv_sequence>>
        /\ ~InChunk /\ ~InChunk' /\ slices # <<>>
    BY <1>7 DEF SkipSlice, EndSlice, InSlice, InChunk
  <2>2. local'.chunk_index = local.chunk_index
    BY <1>0, <1>7 DEF SkipSlice, EndSlice, Locals
  <2>3. Marked' = Marked /\ (InCqe' => InCqe)
    BY <2>1 DEF Marked, InCqe
  <2> QED  BY <2>1, <2>2, <2>3 DEF PlaceInv
<1>8. ASSUME ~InCqe', ~InChunk' \/ ~Marked', UNCHANGED <<delivered, marked_recv_sequence>>
      PROVE  PlaceInv'
  BY <1>8 DEF PlaceInv
<1>9. CASE BeginCopied
  <2>1. ~Marked'
    BY <1>9 DEF BeginCopied, Copies, Marked
  <2> QED  BY <1>8, <1>9, <2>1 DEF BeginCopied, InCqe
<1>10. CASE \/ Pump \/ Discard \/ NoData \/ General \/ BeginSingle \/ BeginRun \/ EndPump \/ TlsFails
            \/ EndHandler \/ ExportInterval
  <2>1. ~InChunk' /\ slices' = <<>>
    BY <1>0, <1>10 DEF Pump, Discard, NoData, General, BeginSingle, BeginRun, EndPump, TlsFails,
                       EndHandler, ExportInterval, BeginsRun, DataHead, Dispatching, Handling,
                       PhaseInv, InChunk
  <2>2. UNCHANGED <<delivered, marked_recv_sequence>>
    BY <1>10 DEF Pump, Discard, NoData, General, BeginSingle, BeginRun, EndPump, TlsFails,
                 EndHandler, ExportInterval
  <2> QED  BY <1>8, <2>1, <2>2 DEF InCqe
<1> QED  BY <1>1, <1>2, <1>3, <1>4, <1>5, <1>6, <1>7, <1>9, <1>10 DEF Next


\* One message is after another: its number and its place are.
Follows(m, n) ==
    /\ n.message_sequence = m.message_sequence + 1
    /\ \/ Before(Place(m), Place(n))
       \/ /\ Place(m)[1] = Place(n)[1] /\ Place(m)[2] = Place(n)[2]
          /\ Place(m)[2] = IndexMax \/ Place(m)[3] = IndexMax

LEMMA PrecedesFollows ==
    ASSUME NEW m \in Meta, NEW n \in Meta, n.message_sequence = m.message_sequence + 1,
           Precedes(m, n.recv_sequence, n.chunk_index, n.message_index)
    PROVE  Follows(m, n)
<1>1. /\ m.recv_sequence \in Nat /\ m.chunk_index \in 0 .. IndexMax
      /\ m.message_index \in 0 .. IndexMax
      /\ n.recv_sequence \in Nat /\ n.chunk_index \in 0 .. IndexMax
      /\ n.message_index \in 0 .. IndexMax /\ IndexMax \in Nat
  BY MetaFields, Bounds
<1>2. PICK p, q : p = Place(m) /\ q = Place(n)
  OBVIOUS
<1>3. /\ p[1] = m.recv_sequence /\ p[2] = m.chunk_index /\ p[3] = m.message_index
      /\ q[1] = n.recv_sequence /\ q[2] = n.chunk_index /\ q[3] = n.message_index
  BY <1>2 DEF Place
<1>4. p[1] < q[1] => Before(p, q)
  <2>1. ASSUME p[1] < q[1] PROVE \A j \in 1 .. 1 - 1 : p[j] = q[j]
    OBVIOUS
  <2> QED  BY <2>1 DEF Before
<1>5. p[1] = q[1] /\ p[2] < q[2] => Before(p, q)
  <2>1. \A j \in 1 .. 2 - 1 : j = 1
    OBVIOUS
  <2> QED  BY <2>1 DEF Before
<1>6. p[1] = q[1] /\ p[2] = q[2] /\ p[3] < q[3] => Before(p, q)
  <2>1. \A j \in 1 .. 3 - 1 : j = 1 \/ j = 2
    OBVIOUS
  <2> QED  BY <2>1 DEF Before
<1>7. \/ p[1] < q[1]
      \/ p[1] = q[1] /\ p[2] < q[2]
      \/ p[1] = q[1] /\ p[2] = q[2] /\ p[2] = IndexMax
      \/ p[1] = q[1] /\ p[2] = q[2] /\ p[3] < q[3]
      \/ p[1] = q[1] /\ p[2] = q[2] /\ p[3] = IndexMax
  BY <1>1, <1>3 DEF Precedes, EarlierChunk, NextIndex
<1>8. Before(p, q) \/ (p[1] = q[1] /\ p[2] = q[2] /\ (p[2] = IndexMax \/ p[3] = IndexMax))
  BY <1>4, <1>5, <1>6, <1>7
<1> QED  BY <1>2, <1>8 DEF Follows

\* The messages of the batch follow the one delivered last, and each other.
LEMMA BatchFollows ==
    ASSUME TypeInv, NumberInv, PlaceInv, Marked
    PROVE  /\ \A i \in 1 .. Len(chunk.batch) - 1 : Follows(chunk.batch[i].meta, chunk.batch[i + 1].meta)
           /\ delivered # <<>> /\ Len(chunk.batch) > 0 => Follows(delivered[1], chunk.batch[1].meta)
           /\ delivered = <<>> =>
                 \A i \in 1 .. Len(chunk.batch) : chunk.batch[i].meta.message_sequence = i - 1
<1>0. /\ chunk \in Chunks /\ Len(chunk.batch) \in Nat /\ marked_message_sequence \in Nat
      /\ \A i \in 1 .. Len(chunk.batch) : /\ chunk.batch[i].meta \in Meta
                                          /\ chunk.batch[i].meta.message_sequence \in Nat
  <2>1. chunk \in Chunks /\ marked_message_sequence \in Nat
    BY DEF TypeInv, MetaType, ConnType
  <2> QED  BY <2>1, BatchMeta, MetaFields
<1>1. Numbered = Len(chunk.batch)
  BY DEF Numbered
<1>2. Len(chunk.batch) > 0 => ChunkPlace /\ InChunk
  <2>1. ASSUME Len(chunk.batch) > 0 PROVE InChunk
    <3>1. Len(NoChunk.batch) = 0
      BY NoChunkType, EmptySeq
    <3> QED  BY <1>0, <2>1, <3>1 DEF TypeInv, PhaseInv, InChunk
  <2> QED  BY <2>1 DEF PlaceInv
<1>3. ASSUME NEW i \in 1 .. Len(chunk.batch) - 1
      PROVE  Follows(chunk.batch[i].meta, chunk.batch[i + 1].meta)
  <2>1. PICK n \in Nat : n = Len(chunk.batch)
    BY <1>0
  <2>2. i \in 1 .. n /\ i + 1 \in 1 .. n /\ i < n /\ n > 0 /\ i \in Nat
    BY <2>1
  <2>3. PICK m, k : m = chunk.batch[i].meta /\ k = chunk.batch[i + 1].meta
    OBVIOUS
  <2>4. m \in Meta /\ k \in Meta /\ m.message_sequence \in Nat /\ k.message_sequence \in Nat
    BY <1>0, <2>1, <2>2, <2>3
  <2>5. /\ m.message_sequence + n + 1 = marked_message_sequence + i
        /\ k.message_sequence + n + 1 = marked_message_sequence + (i + 1)
    BY <2>1, <2>2, <2>3 DEF NumberInv
  <2>6. k.message_sequence = m.message_sequence + 1
    BY <1>0, <2>2, <2>4, <2>5, SMTT(40)
  <2>7. ChunkPlace
    BY <1>2, <2>1, <2>2
  <2>8. /\ m.recv_sequence = chunk.base.recv_sequence /\ m.chunk_index = chunk.base.chunk_index
        /\ k.recv_sequence = chunk.base.recv_sequence /\ k.chunk_index = chunk.base.chunk_index
        /\ NextIndex(m.message_index) = k.message_index
    BY <2>1, <2>2, <2>3, <2>7 DEF ChunkPlace
  <2>9. Precedes(m, k.recv_sequence, k.chunk_index, k.message_index)
    BY <2>8 DEF Precedes
  <2> QED  BY <2>3, <2>4, <2>6, <2>9, PrecedesFollows
<1>4. ASSUME delivered # <<>>, Len(chunk.batch) > 0
      PROVE  Follows(delivered[1], chunk.batch[1].meta)
  <2>1. PICK n \in Nat : n = Len(chunk.batch)
    BY <1>0
  <2>2. 1 \in 1 .. n /\ chunk.batch # <<>>
    BY <1>4, <2>1, EmptySeq
  <2>3. PICK m, k : m = delivered[1] /\ k = chunk.batch[1].meta
    OBVIOUS
  <2>4. m \in Meta /\ k \in Meta
    BY <1>0, <1>4, <2>1, <2>2, <2>3, LastDelivered
  <2>5. /\ marked_message_sequence = m.message_sequence + 1 + n
        /\ k.message_sequence + n + 1 = marked_message_sequence + 1
    BY <1>1, <1>4, <2>1, <2>2, <2>3 DEF NumberInv
  <2>6. m.message_sequence \in Nat /\ k.message_sequence \in Nat
    BY <2>4, MetaFields
  <2>7. k.message_sequence = m.message_sequence + 1
    BY <1>0, <2>5, <2>6
  <2>8. /\ k.recv_sequence = chunk.base.recv_sequence /\ k.chunk_index = chunk.base.chunk_index
        /\ FirstIndex = k.message_index
    BY <1>2, <1>4, <2>1, <2>2, <2>3 DEF ChunkPlace, FirstIndex
  <2>9. Precedes(m, chunk.base.recv_sequence, chunk.base.chunk_index, FirstIndex)
    BY <1>2, <1>4, <2>3 DEF PlaceInv
  <2>10. Precedes(m, k.recv_sequence, k.chunk_index, k.message_index)
    BY <2>8, <2>9
  <2> QED  BY <2>3, <2>4, <2>7, <2>10, PrecedesFollows
<1>5. ASSUME delivered = <<>>, NEW i \in 1 .. Len(chunk.batch)
      PROVE  chunk.batch[i].meta.message_sequence = i - 1
  <2>1. /\ marked_message_sequence = Len(chunk.batch)
        /\ chunk.batch[i].meta.message_sequence + Len(chunk.batch) + 1 = marked_message_sequence + i
        /\ chunk.batch[i].meta.message_sequence \in Nat /\ i \in Nat
    BY <1>0, <1>1, <1>5 DEF NumberInv
  <2> QED  BY <1>0, <2>1
<1> QED  BY <1>3, <1>4, <1>5

\* The marked messages are numbered without a gap and delivered in the order of their
\* CQE, chunk and place, through whichever marked pump, whatever errors, unmarked pumps
\* and saturated indices there were between.
THEOREM IngressMarks == Spec => []MarksInOrder
<1>1. Init => NumberInv /\ PlaceInv
  <2> SUFFICES ASSUME Init PROVE NumberInv /\ PlaceInv
    OBVIOUS
  <2>1. /\ chunk.batch = <<>> /\ Len(<<>>) = 0 /\ delivered = <<>> /\ slices = <<>>
        /\ pc = "ready" /\ marked_message_sequence = 0
    BY EmptySeq, NoChunkType DEF Init
  <2>2. Numbered = 0 /\ ~InChunk /\ ~InCqe
    BY <2>1 DEF Numbered, InChunk, InCqe
  <2> QED  BY <2>1, <2>2 DEF NumberInv, PlaceInv
<1>2. TypeInv /\ NumberInv /\ PlaceInv /\ [Next]_vars => (NumberInv /\ PlaceInv)'
  <2> SUFFICES ASSUME TypeInv, NumberInv, PlaceInv, [Next]_vars PROVE NumberInv' /\ PlaceInv'
    OBVIOUS
  <2>1. CASE UNCHANGED vars
    BY <2>1 DEF vars, seqVars, handlerVars, NumberInv, PlaceInv, Numbered, Marked, InChunk, InCqe,
                ChunkPlace, FirstIndex
  <2> QED  BY <2>1, NumberNext, PlaceNext
<1>3. TypeInv /\ NumberInv /\ PlaceInv => MarksInOrder
  <2> SUFFICES ASSUME TypeInv, NumberInv, PlaceInv PROVE MarksInOrder
    OBVIOUS
  <2>0. chunk \in Chunks /\ delivered \in Seq(Meta) /\ Len(delivered) <= 1 /\ Len(delivered) \in Nat
    BY LenProperties DEF TypeInv, MetaType
  <2>1. PICK b : b = IF Marked THEN [i \in 1 .. Len(chunk.batch) |-> chunk.batch[i].meta] ELSE <<>>
    OBVIOUS
  <2>2. PICK metas : metas = delivered \o b
    OBVIOUS
  <2>3. /\ b \in Seq(Meta) /\ Len(b) \in Nat
        /\ \A i \in 1 .. Len(b) - 1 : Follows(b[i], b[i + 1])
        /\ delivered # <<>> /\ Len(b) > 0 => Follows(delivered[1], b[1])
        /\ delivered = <<>> => \A i \in 1 .. Len(b) : b[i].message_sequence = i - 1
    <3>1. CASE Marked
      <4>1. /\ Len(chunk.batch) \in Nat
            /\ \A i \in 1 .. Len(chunk.batch) : chunk.batch[i].meta \in Meta
        BY <2>0, BatchMeta
      <4>2. b \in Seq(Meta) /\ Len(b) = Len(chunk.batch)
        BY <2>1, <3>1, <4>1
      <4>3. \A i \in 1 .. Len(chunk.batch) : b[i] = chunk.batch[i].meta
        BY <2>1, <3>1
      <4>4. /\ \A i \in 1 .. Len(chunk.batch) - 1 :
                  Follows(chunk.batch[i].meta, chunk.batch[i + 1].meta)
            /\ delivered # <<>> /\ Len(chunk.batch) > 0 =>
                  Follows(delivered[1], chunk.batch[1].meta)
            /\ delivered = <<>> =>
                  \A i \in 1 .. Len(chunk.batch) : chunk.batch[i].meta.message_sequence = i - 1
        BY <3>1, BatchFollows
      <4>5. ASSUME NEW i \in 1 .. Len(b) - 1 PROVE Follows(b[i], b[i + 1])
        <5>1. i \in 1 .. Len(chunk.batch) /\ i + 1 \in 1 .. Len(chunk.batch)
          BY <4>1, <4>2
        <5> QED  BY <4>2, <4>3, <4>4, <5>1
      <4>6. Len(b) > 0 => b[1] = chunk.batch[1].meta
        BY <4>1, <4>2, <4>3
      <4> QED  BY <4>1, <4>2, <4>3, <4>4, <4>5, <4>6
    <3>2. CASE ~Marked
      <4>1. b = <<>>
        BY <2>1, <3>2
      <4>2. b \in Seq(Meta) /\ Len(b) = 0
        BY <4>1, EmptySeq
      <4> QED  BY <4>2
    <3> QED  BY <3>1, <3>2
  <2>4. /\ Len(metas) = Len(delivered) + Len(b)
        /\ \A i \in 1 .. Len(metas) :
              metas[i] = IF i <= Len(delivered) THEN delivered[i] ELSE b[i - Len(delivered)]
    BY <2>0, <2>2, <2>3, ConcatProperties
  <2>5. ASSUME NEW i \in 1 .. Len(metas) - 1 PROVE Follows(metas[i], metas[i + 1])
    <3>0. i \in 1 .. Len(metas) /\ i + 1 \in 1 .. Len(metas) /\ i \in Nat
      BY <2>0, <2>3, <2>4
    <3>1. CASE Len(delivered) = 0
      <4>1. metas[i] = b[i] /\ metas[i + 1] = b[i + 1] /\ i \in 1 .. Len(b) - 1
        BY <2>3, <2>4, <3>0, <3>1
      <4> QED  BY <2>3, <4>1
    <3>2. CASE Len(delivered) = 1
      <4>1. delivered # <<>>
        BY <3>2, EmptySeq
      <4>2. CASE i = 1
        <5>1. metas[i] = delivered[1] /\ metas[i + 1] = b[1] /\ Len(b) > 0
          BY <2>3, <2>4, <3>0, <3>2, <4>2
        <5> QED  BY <2>3, <4>1, <5>1
      <4>3. CASE i # 1
        <5>1. /\ metas[i] = b[i - 1] /\ metas[i + 1] = b[(i - 1) + 1]
              /\ i - 1 \in 1 .. Len(b) - 1
          BY <2>3, <2>4, <3>0, <3>2, <4>3
        <5> QED  BY <2>3, <5>1
      <4> QED  BY <4>2, <4>3
    <3>3. \A n \in Nat : n <= 1 => n = 0 \/ n = 1
      OBVIOUS
    <3>4. Len(delivered) = 0 \/ Len(delivered) = 1
      BY <2>0, <3>3
    <3> QED  BY <3>1, <3>2, <3>4
  <2>6. ASSUME delivered = <<>>, NEW i \in 1 .. Len(metas)
        PROVE  metas[i].message_sequence = i - 1
    <3>1. Len(delivered) = 0
      BY <2>6, EmptySeq
    <3>2. metas[i] = b[i] /\ i \in 1 .. Len(b)
      BY <2>3, <2>4, <3>1
    <3> QED  BY <2>3, <2>6, <3>2
  <2> QED  BY <2>1, <2>2, <2>5, <2>6 DEF MarksInOrder, Follows
<1> QED  BY <1>1, <1>2, <1>3, TypeAlways, PTL DEF Spec


=============================================================================
