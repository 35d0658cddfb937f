------------------------------ MODULE Ingress -------------------------------
(***************************************************************************)
(* What one connection tells about the data it receives: the sequence       *)
(* numbers and times that the marked data pumps attach to each message, the *)
(* latency histograms made of them, and the ingress counters.               *)
(*                                                                         *)
(* The same bytes reach the sink through five pumps (general, data, marked, *)
(* and the last two in batches), over TLS or not, one CQE at a time or in   *)
(* runs of CQEs, copied together or not.  Each way keeps its own account.   *)
(*                                                                         *)
(* A completion names the lengths of its slices.  What a chunk of plaintext *)
(* means to the WebSocket client is a sequence of items (module WsClient    *)
(* says how bytes become items): a frame read in one piece, a message that  *)
(* the streaming parser completes, a control frame, or an error.  The       *)
(* connection is Open at first; track_ingress_stats and the histograms are  *)
(* on, since without them nothing here is kept.                             *)
(***************************************************************************)
EXTENDS Integers, Sequences, FiniteSets

CONSTANTS
    Contents,         \* bound of the model: what a chunk may hold
    Sizes,            \* bound of the model: the slices of a receive CQE
    MaxCqes,          \* bound of the model: CQEs handled
    MaxRun,           \* bound of the model: CQEs in one drain
    MaxChunks,        \* bound of the model: TLS plaintext chunks of a CQE
    MaxClock,         \* bound of the model: nanoseconds
    BatchCapacity,    \* MARKED_DATA_EVENT_BATCH_CAPACITY, DATA_EVENT_BATCH_CAPACITY
    IndexMax,         \* u16::MAX
    CopyMaxBytes,     \* config.plain_recv_batch_copy_max_bytes, when it is not 0
    BasisPoints,      \* config.observability_sample_rate
    MaxBasisPoints,   \* ObservabilitySampleRate::MAX_BASIS_POINTS
    Multiplier, Wrap  \* of the hash of should_sample_sequence

Frames == {"Text", "Binary"}
Items == Frames \cup {"Rest", "Control", "Bad"}
Flavours == {"pump", "data", "batch", "marked", "marked_batch"}

ASSUME IngressAssumption ==
    /\ Contents \subseteq Seq(Items)
    /\ Sizes \subseteq Seq(Nat \ {0}) \ {<<>>}
    /\ {MaxCqes, MaxRun, MaxChunks, MaxClock, CopyMaxBytes, BasisPoints} \subseteq Nat
    /\ {BatchCapacity, IndexMax, MaxBasisPoints, Multiplier, Wrap} \subseteq Nat \ {0}

VARIABLES
    \* config: tls, bundle (RecvMode::MultishotBundle), plain_recv_batch_copy_max_bytes
    cfg,
    \* State::Closed, the client Open, rustls in error; the state of the connection
    \* is Closing if it is neither Closed nor Open
    closed, ws_open, tls_failed,
    marked_recv_sequence, marked_message_sequence, ingress_stats,
    cumulative, interval,      \* observability_histograms
    clock,                     \* monotonic_nanos_now
    \* the pump and the completions it has drained; the handler of some of them,
    \* its CQEs, its local variables, the slices left of a CQE; the chunk it drains
    flavour, pc, buf, run, local, slices, recv_meta, chunk,
    \* ghosts: the last marked message the sink was given, if any; what the counters are
    \* about (bytes fed by the data pumps, received by the general one); samples of the
    \* intervals written out; completions so far
    delivered, truth, exported, cqes

connVars == <<closed, ws_open, tls_failed>>
seqVars == <<marked_recv_sequence, marked_message_sequence>>
histVars == <<cumulative, interval>>
handlerVars == <<run, local, slices, recv_meta>>
vars == <<cfg, connVars, seqVars, histVars, handlerVars, ingress_stats, clock, flavour, pc, buf,
          chunk, delivered, truth, exported, cqes>>

Marked == flavour \in {"marked", "marked_batch"}
Batched == flavour \in {"batch", "marked_batch"}

\* u16::saturating_add(1)
NextIndex(i) == IF i < IndexMax THEN i + 1 ELSE i

Total(s) == LET sum[i \in 0 .. Len(s)] == IF i = 0 THEN 0 ELSE sum[i - 1] + s[i] IN sum[Len(s)]

-----------------------------------------------------------------------------
(* Sampling, metadata, histograms.                                          *)

\* should_sample_sequence
ShouldSample(sequence) ==
    \/ BasisPoints >= MaxBasisPoints
    \/ ((sequence * Multiplier) % Wrap) % MaxBasisPoints < BasisPoints

Unmarked == [sampled |-> FALSE, recv_sequence |-> 0, recv |-> 0, plaintext |-> 0, ws |-> 0,
             message_sequence |-> 0, chunk_index |-> 0, message_index |-> 0, prior |-> 0]

\* recv_observed_now
RecvObserved ==
    LET sampled == ShouldSample(marked_recv_sequence)
    IN  [Unmarked EXCEPT !.sampled = sampled,
                         !.recv_sequence = marked_recv_sequence,
                         !.recv = IF sampled THEN clock ELSE 0]

\* plaintext_ready_at, plaintext_ready_now
PlaintextReady(index) ==
    [recv_meta EXCEPT !.plaintext = IF ~recv_meta.sampled THEN 0
                                    ELSE IF cfg.tls THEN clock ELSE recv_meta.recv,
                      !.chunk_index = index]

\* Mutant: each chunk is numbered from its own metadata.
NextMetaOfChunk ==
    [chunk.base EXCEPT !.ws = IF chunk.base.sampled THEN clock ELSE 0,
                       !.message_sequence = chunk.base.message_sequence + chunk.message_index,
                       !.message_index = chunk.message_index,
                       !.prior = IF chunk.base.sampled THEN chunk.prior ELSE 0]

\* next_marked_meta: ws_payload_ready_now, with_chunk_prior_sink_service_nanos
NextMeta ==
    [chunk.base EXCEPT !.ws = IF chunk.base.sampled THEN clock ELSE 0,
                       !.message_sequence = marked_message_sequence,
                       !.message_index = chunk.message_index,
                       !.prior = IF chunk.base.sampled THEN chunk.prior ELSE 0]

MessageStages == {"plaintext_to_ws", "plaintext_to_ws_excluding_prior_sink",
                  "recv_to_ws", "recv_to_ws_excluding_prior_sink"}
ChunkStage == <<"recv_to_plaintext", "chunk">>
SinkStage == <<"chunk_prior_sink_service", "queued">>

\* LatencyHistogramSet; of a StageHistogram the number and the sum of its samples.
Stages == (MessageStages \X {"all", "first", "queued"}) \cup {ChunkStage, SinkStage}
NoSamples == [s \in Stages |-> [len |-> 0, total |-> 0]]

\* The times of a message; below zero is checked_sub's None.
Latency(meta) ==
    [s \in MessageStages |->
        CASE s = "plaintext_to_ws" -> meta.ws - meta.plaintext
          [] s = "plaintext_to_ws_excluding_prior_sink" -> meta.ws - meta.plaintext - meta.prior
          [] s = "recv_to_ws" -> meta.ws - meta.recv
          [] s = "recv_to_ws_excluding_prior_sink" -> meta.ws - meta.recv - meta.prior]

\* StageHistogram::record
Recorded(hist, nanos) == [len |-> hist.len + 1, total |-> hist.total + nanos]

\* Mutant: the first message is the one that has not waited for the sink.
PositionByWait(meta) == IF meta.prior = 0 THEN "first" ELSE "queued"

\* MessageChunkPosition::from_meta
Position(meta) == IF meta.message_index = 0 THEN "first" ELSE "queued"

\* LatencyHistogramSet::record_message
RecordMessage(set, meta) ==
    IF ~meta.sampled THEN set
    ELSE [s \in Stages |->
            IF s = ChunkStage THEN set[s]
            ELSE IF s = SinkStage
            THEN IF Position(meta) = "queued" THEN Recorded(set[s], meta.prior) ELSE set[s]
            ELSE IF s[2] \in {"all", Position(meta)} /\ Latency(meta)[s[1]] >= 0
            THEN Recorded(set[s], Latency(meta)[s[1]]) ELSE set[s]]

RecordMessages(set, events) ==
    LET sets[i \in 0 .. Len(events)] ==
            IF i = 0 THEN set ELSE RecordMessage(sets[i - 1], events[i].meta)
    IN  sets[Len(events)]

\* LatencyHistogramSet::record_plaintext_chunk
RecordChunk(set, meta) ==
    IF ~meta.sampled \/ meta.plaintext < meta.recv THEN set
    ELSE [set EXCEPT ![ChunkStage] = Recorded(@, meta.plaintext - meta.recv)]

-----------------------------------------------------------------------------
(* The ingress counters.                                                    *)

\* IngressStats
NoStats == [recv_data_cqes |-> 0, recv_bytes |-> 0, recv_ring_exhaustions |-> 0,
            plain_recv_batches |-> 0, plain_recv_batch_cqes |-> 0,
            plain_recv_copied_batches |-> 0, plain_recv_copied_bytes |-> 0,
            plaintext_source_chunks |-> 0, plaintext_bytes |-> 0,
            ws_data_drains |-> 0, ws_data_drain_skips |-> 0,
            ws_data_events |-> 0, ws_text_events |-> 0, ws_binary_events |-> 0]

\* record_recv_data, for each of the CQEs
RecvData(stats, completions) ==
    [stats EXCEPT !.recv_data_cqes = @ + Len(completions),
                  !.recv_bytes = @ + Total([i \in 1 .. Len(completions) |->
                                               Total(completions[i].slices)])]

\* record_recv_ring_exhaustion
RecvRingExhaustion(stats) == [stats EXCEPT !.recv_ring_exhaustions = @ + 1]

\* record_plain_recv_batch; copied is 0 for None.
PlainRecvBatch(stats, n, copied) ==
    [stats EXCEPT !.plain_recv_batches = @ + 1,
                  !.plain_recv_batch_cqes = @ + n,
                  !.plain_recv_copied_batches = IF copied > 0 THEN @ + 1 ELSE @,
                  !.plain_recv_copied_bytes = @ + copied]

\* Mutant: the messages before an error are not counted.
DrainedIfOk(stats) ==
    LET n == IF local.ws_error THEN 0 ELSE 1
    IN  [stats EXCEPT !.plaintext_source_chunks = @ + local.chunks,
                      !.plaintext_bytes = @ + local.bytes,
                      !.ws_data_drains = @ + local.chunks,
                      !.ws_text_events = @ + n * local.text,
                      !.ws_binary_events = @ + n * local.binary,
                      !.ws_data_events = @ + n * (local.text + local.binary)]

\* record_plaintext, record_ws_data_drains, record_ws_data_events
Drained(stats) ==
    [stats EXCEPT !.plaintext_source_chunks = @ + local.chunks,
                  !.plaintext_bytes = @ + local.bytes,
                  !.ws_data_drains = @ + local.chunks,
                  !.ws_data_drain_skips = IF cfg.tls /\ local.chunks = 0 THEN @ + 1 ELSE @,
                  !.ws_text_events = @ + local.text,
                  !.ws_binary_events = @ + local.binary,
                  !.ws_data_events = @ + local.text + local.binary]

-----------------------------------------------------------------------------
(* The pumps and their dispatch.                                            *)

\* The local variables of a handler; single: it was called for one CQE.
NoLocal == [single |-> FALSE, ws_error |-> FALSE, chunks |-> 0, bytes |-> 0, text |-> 0,
            binary |-> 0, chunk_index |-> 0]

\* A chunk: what is left of its items, and the local variables of its drain.
\* spent is a ghost, the time the sink has taken of it.
NoChunk == [base |-> Unmarked, items |-> <<>>, batch |-> <<>>, message_index |-> 0, prior |-> 0,
            started |-> 0, events |-> 0, spent |-> 0]

Completion ==
    [kind : {"data"}, slices : {s \in Sizes : cfg.bundle \/ Len(s) = 1}]
    \cup [kind : {"exhausted", "eof"}, slices : {<<>>}]

\* A pump drains the completion queue, once or more (drain_post_progress, spin).
Pump ==
    /\ pc = "ready"
    /\ flavour' \in Flavours
    /\ \E n \in 1 .. MaxRun :
          /\ cqes + n <= MaxCqes
          /\ cqes' = cqes + n
          /\ buf' \in [1 .. n -> Completion]
    /\ pc' = "dispatch"
    /\ UNCHANGED <<cfg, connVars, seqVars, histVars, handlerVars, ingress_stats, clock, chunk,
                   delivered, truth, exported>>

Dispatching == pc = "dispatch" /\ buf # <<>>

\* finish_conn_result: sync_ws_open_state, or fail_conn.
Finish(ok, open) == closed' = IF ok THEN closed /\ ~open ELSE TRUE

Exhaustion == IF Head(buf).kind = "exhausted" THEN RecvRingExhaustion(ingress_stats)
              ELSE ingress_stats

\* discard_completion_after_closed
Discard ==
    /\ Dispatching
    /\ closed
    /\ ingress_stats' = Exhaustion
    /\ buf' = Tail(buf)
    /\ Finish(TRUE, ws_open)
    /\ UNCHANGED <<cfg, ws_open, tls_failed, seqVars, histVars, handlerVars, clock, flavour, pc,
                   chunk, delivered, truth, exported, cqes>>

\* A receive completion without data, on_recv_cqe and its variants: ENOBUFS, or end of
\* stream, which an error is like. (A send completion is like ENOBUFS uncounted.)
NoData ==
    /\ Dispatching
    /\ ~closed
    /\ Head(buf).kind # "data"
    /\ ingress_stats' = Exhaustion
    /\ buf' = Tail(buf)
    /\ Finish(Head(buf).kind = "exhausted", ws_open)
    /\ UNCHANGED <<cfg, ws_open, tls_failed, seqVars, histVars, handlerVars, clock, flavour, pc,
                   chunk, delivered, truth, exported, cqes>>

DataHead == Dispatching /\ ~closed /\ Head(buf).kind = "data"

\* on_recv_cqe: the general pump. rustls may refuse what it is given, and does from
\* then on.
General ==
    /\ DataHead
    /\ flavour = "pump"
    /\ ingress_stats' = RecvData(ingress_stats, <<Head(buf)>>)
    /\ truth' = [truth EXCEPT !.general = @ + Total(Head(buf).slices)]
    /\ buf' = Tail(buf)
    /\ tls_failed' \in {tls_failed, cfg.tls}
    /\ Finish(~tls_failed', ws_open)
    /\ UNCHANGED <<cfg, ws_open, seqVars, histVars, handlerVars, clock, flavour, pc, chunk,
                   delivered, exported, cqes>>

\* can_handle_plain_recv_data_batch, for a completion with data
CanBatch == ~cfg.tls /\ ~cfg.bundle /\ ws_open

\* The completions that a dispatcher hands over together.
RunLen == CHOOSE n \in 1 .. Len(buf) :
              /\ \A i \in 1 .. n : buf[i].kind = "data"
              /\ n < Len(buf) => buf[n + 1].kind # "data"

\* The data pumps hand a CQE over by itself if it is alone, their batch variants if
\* it cannot be in a run.
Alone == ~CanBatch \/ (~Batched /\ RunLen = 1)

\* handle_completion_data and its variants
BeginSingle ==
    /\ DataHead
    /\ flavour # "pump"
    /\ Alone
    /\ run' = <<Head(buf)>>
    /\ buf' = Tail(buf)
    /\ local' = [NoLocal EXCEPT !.single = TRUE]
    /\ pc' = "handler"
    /\ UNCHANGED <<cfg, connVars, seqVars, histVars, slices, recv_meta, ingress_stats, clock,
                   flavour, chunk, delivered, truth, exported, cqes>>

Taken == SubSeq(buf, 1, RunLen)
RunBytes == Total([i \in 1 .. RunLen |-> Total(buf[i].slices)])

\* plain_recv_batch_copy_len; the marked pumps do not copy.
Copies == ~Marked /\ cfg.copy > 0 /\ RunBytes <= cfg.copy

BeginsRun == DataHead /\ flavour # "pump" /\ ~Alone

\* handle_plain_recv_data_batch_slices, ..._event_batches_slices and the marked ones
BeginRun ==
    /\ BeginsRun
    /\ ~Copies
    /\ run' = Taken
    /\ buf' = SubSeq(buf, RunLen + 1, Len(buf))
    /\ local' = NoLocal
    /\ ingress_stats' = PlainRecvBatch(ingress_stats, RunLen, 0)
    /\ pc' = "handler"
    /\ UNCHANGED <<cfg, connVars, seqVars, histVars, slices, recv_meta, clock, flavour, chunk,
                   delivered, truth, exported, cqes>>

\* What the client makes of a chunk; nothing once it is not Open.
Meaning == IF ws_open THEN Contents ELSE {<<>>}

\* handle_plain_recv_data_batch_copied, ..._event_batches_copied: one drain of all
\* the bytes.
BeginCopied ==
    /\ BeginsRun
    /\ Copies
    /\ buf' = SubSeq(buf, RunLen + 1, Len(buf))
    /\ local' = [NoLocal EXCEPT !.chunks = RunLen, !.bytes = RunBytes]
    /\ ingress_stats' = RecvData(PlainRecvBatch(ingress_stats, RunLen, RunBytes), Taken)
    /\ truth' = [truth EXCEPT !.bytes = @ + RunBytes]
    /\ \E items \in Meaning : chunk' = [NoChunk EXCEPT !.items = items]
    /\ pc' = "chunk"
    /\ UNCHANGED <<cfg, connVars, seqVars, histVars, run, slices, recv_meta, clock, flavour,
                   delivered, exported, cqes>>

\* The end of a drain of the queue. The general pump then polls the client of a
\* connection that is not Closed, which may meet a Close frame or an error.
EndPump ==
    /\ pc = "dispatch"
    /\ buf = <<>>
    /\ pc' = "ready"
    /\ IF flavour = "pump" /\ ~closed /\ ws_open /\ truth.general > 0
       THEN ws_open' \in BOOLEAN /\ closed' \in {FALSE, ~ws_open'}
       ELSE UNCHANGED <<closed, ws_open>>
    /\ UNCHANGED <<cfg, tls_failed, seqVars, histVars, handlerVars, ingress_stats, clock, flavour,
                   buf, chunk, delivered, truth, exported, cqes>>

-----------------------------------------------------------------------------
(* The handlers of receive CQEs.                                            *)

Handling == pc = "handler" /\ slices = <<>>

\* The next CQE of the handler: recv_observed_now, record_recv_data. After an error
\* of the client the CQE is only counted.
ObserveCqe ==
    /\ Handling
    /\ run # <<>>
    /\ run' = Tail(run)
    /\ slices' = IF local.ws_error THEN <<>> ELSE Head(run).slices
    /\ local' = [local EXCEPT !.chunk_index = 0]
    /\ IF Marked
       THEN recv_meta' = RecvObserved /\ marked_recv_sequence' = marked_recv_sequence + 1
       ELSE UNCHANGED <<recv_meta, marked_recv_sequence>>
    /\ ingress_stats' = RecvData(ingress_stats, <<Head(run)>>)
    /\ UNCHANGED <<cfg, connVars, marked_message_sequence, histVars, clock, flavour, pc, buf, chunk,
                   delivered, truth, exported, cqes>>

InSlice == pc = "handler" /\ slices # <<>>

\* A chunk of plaintext is drained: a slice, or what rustls makes of it, here a chunk
\* of one byte and any number of them.
BeginChunk ==
    LET bytes == IF cfg.tls THEN 1 ELSE Head(slices)
    IN  /\ InSlice
        /\ ~local.ws_error
        /\ cfg.tls => (~tls_failed /\ local.chunks < MaxChunks)
        /\ slices' = IF cfg.tls THEN slices ELSE Tail(slices)
        /\ local' = [local EXCEPT !.chunks = @ + 1,
                                  !.bytes = @ + bytes,
                                  !.chunk_index = NextIndex(@)]
        /\ truth' = [truth EXCEPT !.bytes = @ + bytes]
        /\ \E items \in Meaning :
              chunk' = [NoChunk EXCEPT !.items = items,
                                       !.base = IF Marked THEN PlaintextReady(local.chunk_index)
                                                ELSE Unmarked]
        /\ pc' = "chunk"
        /\ UNCHANGED <<cfg, connVars, seqVars, histVars, run, recv_meta, ingress_stats, clock,
                       flavour, buf, delivered, exported, cqes>>

\* Without TLS, a slice after an error of the client; on_recv_cqe_data and its variants
\* count it nevertheless.
SkipSlice ==
    /\ InSlice
    /\ ~cfg.tls
    /\ local.ws_error
    /\ slices' = Tail(slices)
    /\ local' = [local EXCEPT !.chunks = @ + 1, !.bytes = @ + Head(slices)]
    /\ UNCHANGED <<cfg, connVars, seqVars, histVars, run, recv_meta, ingress_stats, clock, flavour,
                   pc, buf, chunk, delivered, truth, exported, cqes>>

\* The end of ingest_ciphertext for a slice
EndSlice ==
    /\ InSlice
    /\ cfg.tls
    /\ ~tls_failed
    /\ slices' = Tail(slices)
    /\ UNCHANGED <<cfg, connVars, seqVars, histVars, run, local, recv_meta, ingress_stats, clock,
                   flavour, pc, buf, chunk, delivered, truth, exported, cqes>>

\* ingest_ciphertext returns an error: so does the handler, at once.
TlsFails ==
    /\ InSlice
    /\ cfg.tls
    /\ tls_failed' = TRUE
    /\ slices' = <<>>
    /\ run' = <<>>
    /\ Finish(FALSE, ws_open)
    /\ pc' = "dispatch"
    /\ UNCHANGED <<cfg, ws_open, seqVars, histVars, local, recv_meta, ingress_stats, clock, flavour,
                   buf, chunk, delivered, truth, exported, cqes>>

\* The end of a handler
EndHandler ==
    /\ Handling
    /\ run = <<>>
    /\ ingress_stats' = Drained(ingress_stats)
    /\ Finish(~local.ws_error, ws_open)
    /\ local' = NoLocal
    /\ pc' = "dispatch"
    /\ UNCHANGED <<cfg, ws_open, tls_failed, seqVars, histVars, run, slices, recv_meta, clock,
                   flavour, buf, chunk, delivered, truth, exported, cqes>>

-----------------------------------------------------------------------------
(* A chunk.                                                                 *)

\* WsDataEvent, MarkedDataEvent; a message that was in fragments is binary.
Event(item, meta) == [op |-> IF item = "Rest" THEN "Binary" ELSE item, meta |-> meta]

NextItem == IF chunk.items = <<>> THEN "end" ELSE Head(chunk.items)

\* Mutant: a batch takes one more.
RoomForOneMore == Len(chunk.batch) <= IF Batched THEN BatchCapacity ELSE 1

\* DataEventBatch::is_full, MarkedDataEventBatch::is_full, negated
Room == Len(chunk.batch) < IF Batched THEN BatchCapacity ELSE 1

\* The next item joins the batch (try_drain_ingress_data_event_batches_marked), which
\* is of one message if the pump does not deliver batches. A message that the
\* streaming parser completes is always alone (MarkedDataEventBatch::single).
PushEvent ==
    /\ pc = "chunk"
    /\ IF NextItem = "Rest" THEN chunk.batch = <<>> ELSE NextItem \in Frames /\ Room
    /\ chunk' = [chunk EXCEPT !.items = Tail(@),
                              !.batch = Append(@, Event(NextItem, NextMeta)),
                              !.message_index = NextIndex(@)]
    /\ marked_message_sequence' = marked_message_sequence + IF Marked THEN 1 ELSE 0
    /\ pc' = IF NextItem = "Rest" THEN "call" ELSE pc
    /\ UNCHANGED <<cfg, connVars, marked_recv_sequence, histVars, handlerVars, ingress_stats, clock,
                   flavour, buf, delivered, truth, exported, cqes>>

\* The batch is full and a frame follows, or the fast path ends.
FlushDue ==
    \/ pc = "call"
    \/ /\ pc = "chunk"
       /\ chunk.batch # <<>>
       /\ ~Room \/ NextItem \notin Frames

Count(op) == Cardinality({i \in 1 .. Len(chunk.batch) : chunk.batch[i].op = op})

\* emit_marked_event, flush_marked_data_event_batch: the sink is called. The callback
\* of the handler records the messages first.
BeginSink ==
    /\ FlushDue
    /\ local' = [local EXCEPT !.text = @ + Count("Text"), !.binary = @ + Count("Binary")]
    /\ truth' = [truth EXCEPT !.text = @ + Count("Text"), !.binary = @ + Count("Binary")]
    /\ IF Marked
       THEN /\ cumulative' = RecordMessages(cumulative, chunk.batch)
            /\ interval' = RecordMessages(interval, chunk.batch)
            /\ delivered' = <<chunk.batch[Len(chunk.batch)].meta>>
       ELSE UNCHANGED <<histVars, delivered>>
    /\ chunk' = [chunk EXCEPT !.batch = <<>>,
                              !.events = @ + Len(chunk.batch),
                              !.started = IF chunk.base.sampled THEN clock ELSE 0]
    /\ pc' = "sink"
    /\ UNCHANGED <<cfg, connVars, seqVars, run, slices, recv_meta, ingress_stats, clock, flavour,
                   buf, exported, cqes>>

\* Mutant: only the last call of the sink is remembered.
EndSinkLast ==
    /\ pc = "sink"
    /\ chunk' = [chunk EXCEPT !.prior = IF chunk.base.sampled THEN clock - chunk.started ELSE @,
                              !.started = 0]
    /\ pc' = "chunk"
    /\ UNCHANGED <<cfg, connVars, seqVars, histVars, handlerVars, ingress_stats, clock, flavour,
                   buf, delivered, truth, exported, cqes>>

\* The sink returns; the time it took is added up if it is measured.
EndSink ==
    /\ pc = "sink"
    /\ chunk' = [chunk EXCEPT !.prior = IF chunk.base.sampled THEN @ + clock - chunk.started ELSE @,
                              !.started = 0]
    /\ pc' = "chunk"
    /\ UNCHANGED <<cfg, connVars, seqVars, histVars, handlerVars, ingress_stats, clock, flavour,
                   buf, delivered, truth, exported, cqes>>

\* A control frame: poll_event has an event that a drain does not pass on. After a
\* Close frame the client is Closed and reads no more.
DropControl ==
    /\ pc = "chunk"
    /\ NextItem = "Control"
    /\ chunk.batch = <<>>
    /\ ws_open' \in BOOLEAN
    /\ chunk' = [chunk EXCEPT !.items = IF ws_open' THEN Tail(@) ELSE <<>>]
    /\ UNCHANGED <<cfg, closed, tls_failed, seqVars, histVars, handlerVars, ingress_stats, clock,
                   flavour, pc, buf, delivered, truth, exported, cqes>>

\* The drain returns; record_plaintext_chunk if it had events.
EndChunk ==
    LET bad == NextItem = "Bad"
    IN  /\ pc = "chunk"
        /\ NextItem \in {"end", "Bad"}
        /\ chunk.batch = <<>>
        /\ ws_open' = (ws_open /\ ~bad)
        /\ local' = [local EXCEPT !.ws_error = @ \/ bad]
        /\ truth' = [truth EXCEPT !.bad = @ \/ bad]
        /\ IF Marked /\ chunk.events > 0
           THEN /\ cumulative' = RecordChunk(cumulative, chunk.base)
                /\ interval' = RecordChunk(interval, chunk.base)
           ELSE UNCHANGED histVars
        /\ chunk' = NoChunk
        /\ pc' = "handler"
        /\ UNCHANGED <<cfg, closed, tls_failed, seqVars, run, slices, recv_meta, ingress_stats,
                       clock, flavour, buf, delivered, exported, cqes>>

\* Time passes, in rustls, before a message is read, or in the sink; no difference of
\* two times shows what passes elsewhere. Only the handler of a sampled CQE looks at it.
Tick ==
    /\ Marked
    /\ recv_meta.sampled
    /\ \/ pc = "handler" /\ cfg.tls /\ slices # <<>>
       \/ pc = "chunk" /\ NextItem \in Frames \cup {"Rest"}
       \/ pc = "sink"
    /\ clock < MaxClock
    /\ clock' = clock + 1
    /\ chunk' = [chunk EXCEPT !.spent = IF pc = "sink" THEN @ + 1 ELSE @]
    /\ UNCHANGED <<cfg, connVars, seqVars, histVars, handlerVars, ingress_stats, flavour, pc, buf,
                   delivered, truth, exported, cqes>>

Plus(a, b) == [s \in Stages |-> [len |-> a[s].len + b[s].len, total |-> a[s].total + b[s].total]]

\* Mutant: the interval is reset though it was not written.
ExportIntervalResets ==
    /\ pc = "ready"
    /\ \E written \in BOOLEAN :
          exported' = IF written THEN Plus(exported, interval) ELSE exported
    /\ interval' = NoSamples
    /\ UNCHANGED <<cfg, connVars, seqVars, cumulative, handlerVars, ingress_stats, clock, flavour,
                   pc, buf, chunk, delivered, truth, cqes>>

\* write_prometheus_interval_and_reset, and what of it reaches the writer; nothing is
\* reset if the writer fails before the end of it.
ExportInterval ==
    /\ pc = "ready"
    /\ \E written \in BOOLEAN :
          IF written
          THEN exported' = Plus(exported, interval) /\ interval' = NoSamples
          ELSE UNCHANGED <<exported, interval>>
    /\ UNCHANGED <<cfg, connVars, seqVars, cumulative, handlerVars, ingress_stats, clock, flavour,
                   pc, buf, chunk, delivered, truth, cqes>>

\* To rustls the slices of a bundle are one slice with all their chunks; with either
\* of the two nothing is copied.
Init ==
    /\ cfg \in {[tls |-> FALSE, bundle |-> FALSE, copy |-> 0],
               [tls |-> FALSE, bundle |-> FALSE, copy |-> CopyMaxBytes],
               [tls |-> FALSE, bundle |-> TRUE, copy |-> 0],
               [tls |-> TRUE, bundle |-> FALSE, copy |-> 0]}
    /\ closed = FALSE
    /\ ws_open = TRUE
    /\ tls_failed = FALSE
    /\ marked_recv_sequence = 0
    /\ marked_message_sequence = 0
    /\ ingress_stats = NoStats
    /\ cumulative = NoSamples
    /\ interval = NoSamples
    /\ exported = NoSamples
    /\ clock = 0
    /\ flavour = "pump"
    /\ pc = "ready"
    /\ buf = <<>>
    /\ run = <<>>
    /\ local = NoLocal
    /\ slices = <<>>
    /\ recv_meta = Unmarked
    /\ chunk = NoChunk
    /\ delivered = <<>>
    /\ truth = [text |-> 0, binary |-> 0, bytes |-> 0, general |-> 0, bad |-> FALSE]
    /\ cqes = 0

Next == \/ Pump \/ Discard \/ NoData \/ General \/ BeginSingle \/ BeginRun \/ BeginCopied \/ EndPump
        \/ ObserveCqe \/ BeginChunk \/ SkipSlice \/ EndSlice \/ TlsFails \/ EndHandler
        \/ PushEvent \/ BeginSink \/ EndSink \/ DropControl \/ EndChunk
        \/ Tick \/ ExportInterval

Spec == Init /\ [][Next]_vars

-----------------------------------------------------------------------------
(* Properties.                                                              *)

Meta == [sampled : BOOLEAN, recv_sequence : Nat, recv : Nat, plaintext : Nat, ws : Nat,
         message_sequence : Nat, chunk_index : 0 .. IndexMax, message_index : 0 .. IndexMax,
         prior : Nat]

IngressStats == [recv_data_cqes : Nat, recv_bytes : Nat, recv_ring_exhaustions : Nat,
                 plain_recv_batches : Nat, plain_recv_batch_cqes : Nat,
                 plain_recv_copied_batches : Nat, plain_recv_copied_bytes : Nat,
                 plaintext_source_chunks : Nat, plaintext_bytes : Nat,
                 ws_data_drains : Nat, ws_data_drain_skips : Nat,
                 ws_data_events : Nat, ws_text_events : Nat, ws_binary_events : Nat]

\* The types of the state, and that a batch is never over its capacity, a chunk never
\* in progress outside a handler.
TypeOK ==
    /\ closed \in BOOLEAN /\ ws_open \in BOOLEAN /\ tls_failed \in BOOLEAN
    /\ tls_failed => cfg.tls
    /\ marked_recv_sequence \in Nat /\ marked_message_sequence \in Nat
    /\ ingress_stats \in IngressStats
    /\ {cumulative, interval, exported} \subseteq [Stages -> [len : Nat, total : Nat]]
    /\ clock \in 0 .. MaxClock
    /\ flavour \in Flavours
    /\ pc \in {"ready", "dispatch", "handler", "chunk", "call", "sink"}
    /\ {recv_meta, chunk.base} \subseteq Meta
    /\ \A i \in 1 .. Len(delivered) : delivered[i] \in Meta
    /\ Len(chunk.batch) <= BatchCapacity
    /\ pc \notin {"chunk", "call", "sink"} => chunk = NoChunk
    /\ pc \in {"ready", "dispatch"} => run = <<>> /\ slices = <<>>

\* The place of a message: its CQE, its chunk in it, its place in that.
Place(m) == <<m.recv_sequence, m.chunk_index, m.message_index>>

Before(p, q) ==
    \E k \in 1 .. 3 : p[k] < q[k] /\ \A j \in 1 .. k - 1 : p[j] = q[j]

\* The marked messages are numbered without a gap, whichever of the marked pumps, of
\* the fast path, the fallback and the batches delivered them, and whatever errors and
\* unmarked pumps there were between; and they are delivered in the order of their CQE,
\* chunk and place, no two of them at the same place unless an index is saturated.
MarksInOrder ==
    LET metas == delivered \o IF Marked THEN [i \in 1 .. Len(chunk.batch) |-> chunk.batch[i].meta]
                              ELSE <<>>
    IN  /\ \A i \in 1 .. Len(metas) - 1 :
              LET p == Place(metas[i])
                  q == Place(metas[i + 1])
              IN  /\ metas[i + 1].message_sequence = metas[i].message_sequence + 1
                  /\ \/ Before(p, q)
                     \/ p[1] = q[1] /\ p[2] = q[2] /\ (p[2] = IndexMax \/ p[3] = IndexMax)
        /\ delivered = <<>> => \A i \in 1 .. Len(metas) : metas[i].message_sequence = i - 1

\* Outside a chunk, and for the lifetime as for the interval: a chunk with a sample has
\* one first message in every stage, every message is the first or queued, none is lost
\* to a difference below zero, and what the stages that leave out the sink lack is what
\* the stage of the sink holds.
HistogramsAgree ==
    pc \in {"ready", "dispatch", "handler"} =>
        \A set \in {cumulative, interval} :
            /\ \A s \in MessageStages :
                  /\ set[<<s, "first">>].len = set[ChunkStage].len
                  /\ set[<<s, "queued">>].len = set[SinkStage].len
                  /\ set[<<s, "all">>] =
                        [len |-> set[<<s, "first">>].len + set[<<s, "queued">>].len,
                         total |-> set[<<s, "first">>].total + set[<<s, "queued">>].total]
            /\ \A s \in {<<"plaintext_to_ws", "plaintext_to_ws_excluding_prior_sink">>,
                         <<"recv_to_ws", "recv_to_ws_excluding_prior_sink">>} :
                  set[<<s[1], "all">>].total - set[<<s[2], "all">>].total = set[SinkStage].total

\* The times of a message in the batch: it was received, then deciphered, then read;
\* the time it waited for the sink is what the sink took of this chunk before it, 0 for
\* the first message, and no more than the time since its chunk was ready. Nothing is
\* measured of a message that is not sampled.
LatencyDecomposes ==
    \A i \in 1 .. Len(chunk.batch) :
        LET m == chunk.batch[i].meta
        IN  IF m.sampled
            THEN /\ m.recv <= m.plaintext /\ m.plaintext + m.prior <= m.ws /\ m.ws <= clock
                 /\ m.prior = chunk.spent
                 /\ m.message_index = 0 => m.prior = 0
            ELSE {m.recv, m.plaintext, m.ws, m.prior} = {0}

\* Between two pumps the counters say what the data sinks were given, whatever the pump
\* and the way of the bytes, unless rustls has failed (the handler then leaves without
\* counting).  While the client had no error, plaintext_bytes is what the parser was fed
\* of a connection that only data pumps have read (the general pump feeds it and does not
\* count), and without TLS every byte received was drained or fed by the general pump.
CountersMatchSink ==
    pc = "ready" /\ ~tls_failed =>
        /\ ingress_stats.ws_text_events = truth.text
        /\ ingress_stats.ws_binary_events = truth.binary
        /\ ingress_stats.ws_data_events = truth.text + truth.binary
        /\ ingress_stats.ws_data_drains = ingress_stats.plaintext_source_chunks
        /\ ingress_stats.plain_recv_batch_cqes <= ingress_stats.recv_data_cqes
        /\ ingress_stats.plain_recv_copied_bytes <= ingress_stats.plaintext_bytes
        /\ ~truth.bad =>
              /\ truth.general = 0 => ingress_stats.plaintext_bytes = truth.bytes
              /\ ~cfg.tls => ingress_stats.recv_bytes = truth.bytes + truth.general

\* Every sample is in the lifetime histograms and in exactly one interval, the current
\* one or one that was written out, also if writing fails now and then.
IntervalsPartition == cumulative = Plus(exported, interval)

=============================================================================
