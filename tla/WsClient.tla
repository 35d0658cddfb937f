------------------------------ MODULE WsClient ------------------------------
(***************************************************************************)
(* The WebSocket client: from the plaintext chunks it is fed to the         *)
(* messages it delivers, and the frames it writes in answer.                *)
(*                                                                         *)
(* A frame can be read in three ways: from the chunk itself (ingress), from *)
(* recv_buf when it is there in one piece (direct and borrowed), and by the *)
(* streaming parser.  Which one depends on how the peer's bytes were cut    *)
(* into chunks and on which of poll_event and the drains were called        *)
(* before; what comes out must not.                                         *)
(*                                                                         *)
(* Byte <<i, k>> is the k-th byte of the i-th frame of the peer.  A frame   *)
(* has a short header of 2 bytes, or a wide one of 3 that stands for the    *)
(* 64-bit length; frame 1 is the response to the upgrade.  The loops of     *)
(* poll_event and of the drains take one step per iteration (pc).           *)
(***************************************************************************)
EXTENDS Integers, Sequences, FiniteSets

CONSTANTS
    Scripts,        \* bound of the model: what a peer may send after the upgrade
    MaxSends,       \* bound of the model: frames the caller sends
    MaxFrame,       \* config.max_frame_payload
    MaxMessage,     \* config.max_message_size
    BatchCapacity,  \* DATA_EVENT_BATCH_CAPACITY
    AutoPong        \* config.auto_pong

Data == {"Text", "Binary"}
Control == {"Ping", "Pong", "Close"}

\* bad: what is wrong with a frame, its first two bytes (reserved bits, opcode or
\* masked), those too but only parse_header looks for it (the opcode of a fragment, the
\* length of a control frame), or its payload (not UTF-8, not a close payload; nothing
\* is wrong with an empty one).
Frame == {f \in [op : Data \cup Control \cup {"Cont"}, fin : BOOLEAN, len : Nat,
                 wide : BOOLEAN, bad : {"no", "header", "late", "payload"}] :
             /\ f.bad = "payload" => f.len > 0
             /\ f.bad = "late" => (~f.fin \/ f.op \in Control)}

\* The response to the upgrade, accepted or refused by verify_upgrade_response.
Upgrades == [op : {"Upgrade"}, fin : {TRUE}, len : {0}, wide : {FALSE}, bad : {"no", "header"}]

ASSUME WsClientAssumption ==
    /\ Scripts \subseteq Seq(Frame)
    /\ MaxSends \in Nat
    /\ MaxFrame \in Nat
    /\ MaxMessage \in Nat
    /\ BatchCapacity \in Nat \ {0}
    /\ AutoPong \in BOOLEAN

VARIABLES
    \* the peer: the frames it sends, the bytes of them that have not arrived
    frames, stream,
    \* WsClient
    state, parser, recv_buf, borrowed, msg_opcode, msg_buf, cur_opcode, cur_fin,
    ctl_buf, last_emitted, tx_buf,
    \* the call in progress, and the chunk and the batch it works on
    call, pc, ingress, batch,
    \* what the sink was given, chunk_end of the batches of this call, whether a
    \* call has returned an error
    delivered, marks, failed

peerVars == <<frames, stream>>
bufVars == <<recv_buf, borrowed, last_emitted>>
msgVars == <<msg_opcode, msg_buf>>
curVars == <<cur_opcode, cur_fin, ctl_buf>>
outVars == <<state, tx_buf, failed>>
sinkVars == <<batch, delivered, marks>>
vars == <<peerVars, bufVars, msgVars, curVars, outVars, sinkVars, parser, call, pc, ingress>>

Drop(s, n) == SubSeq(s, n + 1, Len(s))
Prefix(s, n) == SubSeq(s, 1, n)

HeaderLen(f) == IF f.wide THEN 3 ELSE 2
FrameLen(f) == HeaderLen(f) + f.len

Payload(i) == [k \in 1 .. frames[i].len |-> <<i, HeaderLen(frames[i]) + k>>]

Idle == [st |-> "Idle", partial |-> <<>>, remaining |-> 0]

-----------------------------------------------------------------------------
(* Headers.                                                                 *)

\* The frame that s begins with.
At(s) == frames[s[1][1]]

\* Rejected by its first two bytes, as are bytes that are not the beginning of one.
BadStart(s) == s[1][2] # 1 \/ At(s).bad = "header"

HeaderBad(f) == f.bad \in {"header", "late"}

\* The same, or what parse_header alone looks for, a fragmented control frame too.
BadHeader(s) == s[1][2] # 1 \/ HeaderBad(At(s)) \/ (At(s).op \in Control /\ ~At(s).fin)

\* parse_header: a control frame is looked at when its length is known.
ParseHeader(s) ==
    IF Len(s) < 2 THEN "more"
    ELSE IF BadStart(s) \/ (BadHeader(s) /\ At(s).op \notin Control) THEN "err"
    ELSE IF Len(s) < HeaderLen(At(s)) THEN "more"
    ELSE IF BadHeader(s) THEN "err" ELSE "ok"

\* parse_server_data_header_fast
FastHeader(s) == IF Len(s) < 2 THEN "more" ELSE IF BadStart(s) THEN "err" ELSE "ok"

\* What becomes of the data frame that s begins with, if its header is read and it
\* is one that this path takes.
DataFrame(s, header, taken) ==
    IF header # "ok" THEN header
    ELSE IF ~taken THEN "fallback"
    ELSE IF At(s).len > MaxFrame \/ At(s).len > MaxMessage THEN "err"
    ELSE IF Len(s) < FrameLen(At(s)) THEN "more"
    ELSE IF At(s).op = "Text" /\ At(s).bad = "payload" THEN "err" ELSE "parsed"

Unfragmented(f) == f.fin /\ f.op \in Data

\* parse_complete_server_data_frame: not for 64-bit lengths.
FastFrame(s) == DataFrame(s, FastHeader(s), Unfragmented(At(s)) /\ ~At(s).wide)

\* try_emit_borrowed_data
BorrowedFrame(s) == DataFrame(s, ParseHeader(s), Unfragmented(At(s)))

Message(op, payload) == [op |-> op, payload |-> payload]
Whole(s) == Message(At(s).op, Payload(s[1][1]))

-----------------------------------------------------------------------------
(* Frames written.                                                          *)

Written(op, payload) == [op |-> op, payload |-> payload]

\* Mutant: a Close frame for each error.
QueueCloseAlways ==
    /\ tx_buf' = Append(tx_buf, Written("Close", <<>>))
    /\ state' = IF state = "Open" THEN "Closing" ELSE state

\* queue_close: not if a Close frame was written before.
QueueClose ==
    /\ tx_buf' = IF state \in {"Closing", "Closed"} THEN tx_buf
                 ELSE Append(tx_buf, Written("Close", <<>>))
    /\ state' = IF state = "Open" THEN "Closing" ELSE state

\* An error: the call returns it, and its caller does not use the client to
\* receive any more (fail_conn).
Fail == QueueClose /\ failed' = TRUE /\ pc' = "ready"

\* send_text, send_binary, send_ping, send_pong; an error unless Open.
SendFrame ==
    /\ pc = "ready"
    /\ state = "Open"
    /\ Cardinality({k \in 1 .. Len(tx_buf) : tx_buf[k].op = "Sent"}) < MaxSends
    /\ tx_buf' = Append(tx_buf, Written("Sent", <<>>))
    /\ UNCHANGED <<state, failed, peerVars, bufVars, msgVars, curVars, sinkVars, parser, call, pc,
                   ingress>>

\* send_close; nothing if Closing or Closed.
SendClose ==
    /\ pc = "ready"
    /\ state = "Open"
    /\ tx_buf' = Append(tx_buf, Written("Close", <<>>))
    /\ state' = "Closing"
    /\ UNCHANGED <<failed, peerVars, bufVars, msgVars, curVars, sinkVars, parser, call, pc,
                   ingress>>

-----------------------------------------------------------------------------
(* Calls.                                                                   *)

CanCall == pc = "ready" /\ ~failed

\* No message and no frame is in progress.
BetweenFrames == state = "Open" /\ parser = Idle /\ msg_opcode = "None"

\* Mutant: the frame lent to the caller stays in recv_buf.
ClearAfterEmitKeep(fed) ==
    /\ recv_buf' = recv_buf \o fed
    /\ msg_buf' = IF last_emitted = "Message" THEN <<>> ELSE msg_buf
    /\ ctl_buf' = IF last_emitted = "Control" THEN <<>> ELSE ctl_buf
    /\ borrowed' = 0
    /\ last_emitted' = "None"

\* clear_after_emit; then fed goes to recv_buf.
ClearAfterEmit(fed) ==
    /\ recv_buf' = Drop(recv_buf, borrowed) \o fed
    /\ msg_buf' = IF last_emitted = "Message" THEN <<>> ELSE msg_buf
    /\ ctl_buf' = IF last_emitted = "Control" THEN <<>> ELSE ctl_buf
    /\ borrowed' = 0
    /\ last_emitted' = "None"

\* feed_recv
FeedRecv ==
    /\ CanCall
    /\ \E n \in 1 .. Len(stream) :
          /\ recv_buf' = recv_buf \o Prefix(stream, n)
          /\ stream' = Drop(stream, n)
    /\ call' = "feed"
    /\ UNCHANGED <<frames, borrowed, last_emitted, msgVars, curVars, outVars, sinkVars, parser, pc,
                   ingress>>

\* poll_event and drain_data_events, drain_data_event_batches are called.
Begin(c) ==
    /\ CanCall
    /\ call' = c
    /\ pc' = IF c = "poll" THEN "poll" ELSE "loop"
    /\ marks' = <<>>
    /\ ClearAfterEmit(<<>>)
    /\ UNCHANGED <<peerVars, msg_opcode, cur_opcode, cur_fin, outVars, batch, delivered, parser,
                   ingress>>

\* drain_data_events_from_ingress, drain_data_event_batches_from_ingress: a chunk
\* is read where it is if nothing is buffered (can_drain_ingress_directly).
BeginIngress(c) ==
    /\ CanCall
    /\ call' = c
    /\ marks' = <<>>
    /\ \E n \in 1 .. Len(stream) :
          LET bytes == Prefix(stream, n)
          IN  /\ stream' = Drop(stream, n)
              /\ IF BetweenFrames /\ Drop(recv_buf, borrowed) = <<>>
                 THEN pc' = "ingress" /\ ingress' = bytes /\ ClearAfterEmit(<<>>)
                 ELSE pc' = "loop" /\ UNCHANGED ingress /\ ClearAfterEmit(bytes)
    /\ UNCHANGED <<frames, msg_opcode, cur_opcode, cur_fin, outVars, batch, delivered, parser>>

-----------------------------------------------------------------------------
(* Frames read in one piece.                                                *)

\* The sink is given m, or m joins the batch, which is given first if it is full.
Push(m) ==
    IF call # "batch"
    THEN delivered' = Append(delivered, m) /\ UNCHANGED <<batch, marks>>
    ELSE IF Len(batch) = BatchCapacity
    THEN delivered' = delivered \o batch /\ batch' = <<m>> /\ marks' = Append(marks, FALSE)
    ELSE batch' = Append(batch, m) /\ UNCHANGED <<delivered, marks>>

\* flush_data_event_batch
Flush(chunk_end) ==
    IF batch = <<>> THEN UNCHANGED sinkVars
    ELSE delivered' = delivered \o batch /\ batch' = <<>> /\ marks' = Append(marks, chunk_end)

\* What the scan of s meets next.
Scan(s) == IF s = <<>> THEN "drained" ELSE FastFrame(s)

\* try_drain_ingress_data_events, try_drain_ingress_data_event_batches: a frame.
IngressFrame ==
    /\ pc = "ingress"
    /\ Scan(ingress) = "parsed"
    /\ Push(Whole(ingress))
    /\ ingress' = Drop(ingress, FrameLen(At(ingress)))
    /\ UNCHANGED <<peerVars, bufVars, msgVars, curVars, outVars, parser, call, pc>>

\* The same, the end of the scan: what is left of the chunk is kept, if it is not
\* in error.
IngressEnd ==
    LET r == Scan(ingress)
    IN  /\ pc = "ingress"
        /\ r # "parsed"
        /\ Flush(r # "fallback")
        /\ recv_buf' = IF r = "err" THEN recv_buf ELSE recv_buf \o ingress
        /\ ingress' = <<>>
        /\ IF r = "err" THEN Fail
           ELSE /\ pc' = IF r = "fallback" THEN "loop" ELSE "ready"
                /\ UNCHANGED outVars
        /\ UNCHANGED <<peerVars, borrowed, last_emitted, msgVars, curVars, parser, call>>

\* The head of the loop of drain_data_events and drain_data_event_batches.
Loop ==
    /\ pc = "loop"
    /\ ClearAfterEmit(<<>>)
    /\ pc' = IF BetweenFrames /\ recv_buf' # <<>> THEN "direct" ELSE "poll"
    /\ UNCHANGED <<peerVars, msg_opcode, cur_opcode, cur_fin, outVars, sinkVars, parser, call,
                   ingress>>

\* try_drain_data_events, try_drain_data_event_batches: a frame.
DirectFrame ==
    /\ pc = "direct"
    /\ Scan(recv_buf) = "parsed"
    /\ Push(Whole(recv_buf))
    /\ recv_buf' = Drop(recv_buf, FrameLen(At(recv_buf)))
    /\ UNCHANGED <<peerVars, borrowed, last_emitted, msgVars, curVars, outVars, parser, call, pc,
                   ingress>>

\* Mutant: the loop goes on when the rest of a frame is missing.
AfterDirectAgain(r) == IF r = "fallback" THEN "poll" ELSE "loop"

AfterDirect(r) == IF r = "drained" THEN "loop" ELSE IF r = "fallback" THEN "poll" ELSE "ready"

\* The same, the end of the scan.
DirectEnd ==
    LET r == Scan(recv_buf)
    IN  /\ pc = "direct"
        /\ r # "parsed"
        /\ Flush(r # "fallback")
        /\ IF r = "err" THEN Fail
           ELSE pc' = AfterDirect(r) /\ UNCHANGED outVars
        /\ UNCHANGED <<peerVars, bufVars, msgVars, curVars, parser, call, ingress>>

-----------------------------------------------------------------------------
(* poll_event.                                                              *)

\* The state of the client is looked at before each turn of the loop.
PollClosed ==
    /\ pc = "poll"
    /\ state = "Closed"
    /\ pc' = "ready"
    /\ UNCHANGED <<peerVars, bufVars, msgVars, curVars, outVars, sinkVars, parser, call, ingress>>

\* An event: poll_event returns it, a drain goes on after it.
Emit(kind) == last_emitted' = kind /\ pc' = IF call = "poll" THEN "ready" ELSE "loop"

\* A message given to the sink by itself (DataEventBatch::single), or returned.
Surface(m) ==
    /\ delivered' = Append(delivered, m)
    /\ marks' = IF call = "batch" THEN Append(marks, TRUE) ELSE marks
    /\ UNCHANGED batch

TryBorrow == BetweenFrames /\ recv_buf # <<>>

\* try_emit_borrowed_data: the frame is lent from recv_buf and stays there until the
\* next call.
PollBorrowed ==
    LET r == BorrowedFrame(recv_buf)
    IN  /\ pc = "poll"
        /\ TryBorrow
        /\ \/ r = "more" /\ pc' = "ready" /\ UNCHANGED <<borrowed, last_emitted, outVars, sinkVars>>
           \/ r = "err" /\ Fail /\ UNCHANGED <<borrowed, last_emitted, sinkVars>>
           \/ /\ r = "parsed"
              /\ Surface(Whole(recv_buf))
              /\ Emit("Borrowed")
              /\ borrowed' = FrameLen(At(recv_buf))
              /\ UNCHANGED outVars
        /\ UNCHANGED <<peerVars, recv_buf, msgVars, curVars, parser, call, ingress>>

\* advance
Advances == pc = "poll" /\ (TryBorrow => BorrowedFrame(recv_buf) = "fallback")

\* advance_handshake
AdvanceHandshake ==
    /\ Advances
    /\ state = "Connecting"
    /\ \/ /\ Len(recv_buf) < 2
          /\ pc' = "ready"
          /\ UNCHANGED <<recv_buf, last_emitted, state, failed>>
       \/ /\ Len(recv_buf) >= 2
          /\ BadHeader(recv_buf)
          /\ state' = "Closed"
          /\ failed' = TRUE
          /\ pc' = "ready"
          /\ UNCHANGED <<recv_buf, last_emitted>>
       \/ /\ Len(recv_buf) >= 2
          /\ ~BadHeader(recv_buf)
          /\ recv_buf' = Drop(recv_buf, 2)
          /\ state' = "Open"
          /\ Emit("Handshake")
          /\ UNCHANGED failed
    /\ UNCHANGED <<peerVars, borrowed, msgVars, curVars, tx_buf, sinkVars, parser, call, ingress>>

\* Mutant: a continuation is taken without a message to continue.
RefusedNoStart(f) ==
    \/ f.len > MaxFrame
    \/ f.op = "Cont" /\ Len(msg_buf) + f.len > MaxMessage
    \/ f.op \in Data /\ (msg_opcode # "None" \/ f.len > MaxMessage)

\* on_frame_start, a frame the client refuses.
Refused(f) ==
    \/ f.len > MaxFrame
    \/ f.op = "Cont" /\ (msg_opcode = "None" \/ Len(msg_buf) + f.len > MaxMessage)
    \/ f.op \in Data /\ (msg_opcode # "None" \/ f.len > MaxMessage)

\* Mutant: a control frame takes the place of the message in progress.
StartMessageAny(f) ==
    IF f.op # "Cont" /\ f.len <= MaxFrame
    THEN msg_opcode' = f.op /\ msg_buf' = <<>>
    ELSE UNCHANGED msgVars

\* on_frame_start, the message a frame begins.
StartMessage(f) ==
    IF f.op \in Data /\ msg_opcode = "None" /\ f.len <= MaxFrame
    THEN msg_opcode' = f.op /\ msg_buf' = <<>>
    ELSE UNCHANGED msgVars

\* advance_frame, feed_one in a header: bytes move to the parser until the header is
\* complete, also if there are none.
AdvanceHeader ==
    LET h == parser.partial \o recv_buf
        need == IF Len(h) < 2 \/ h[1][2] # 1 THEN 2 ELSE HeaderLen(At(h))
        f == At(h)
    IN  /\ Advances
        /\ state \in {"Open", "Closing"}
        /\ parser.st \in {"Idle", "Header"}
        /\ \/ /\ Len(h) < need
              /\ parser' = [Idle EXCEPT !.st = "Header", !.partial = h]
              /\ recv_buf' = <<>>
              /\ pc' = "ready"
              /\ UNCHANGED <<msgVars, curVars, outVars>>
           \/ /\ Len(h) >= need
              /\ BadHeader(h)
              /\ parser' = [Idle EXCEPT !.st = "Header", !.partial = Prefix(h, need)]
              /\ Fail
              /\ UNCHANGED <<recv_buf, msgVars, curVars>>
           \/ /\ Len(h) >= need
              /\ ~BadHeader(h)
              /\ parser' = [Idle EXCEPT !.st = "Payload", !.remaining = f.len]
              /\ recv_buf' = Drop(h, need)
              /\ StartMessage(f)
              /\ IF Refused(f)
                 THEN Fail /\ UNCHANGED curVars
                 ELSE /\ cur_opcode' = f.op
                      /\ cur_fin' = f.fin
                      /\ ctl_buf' = IF f.op \in Control THEN <<>> ELSE ctl_buf
                      /\ UNCHANGED <<pc, outVars>>
        /\ UNCHANGED <<peerVars, borrowed, last_emitted, sinkVars, call, ingress>>

\* advance_frame, feed_one in a payload.
AdvancePayload ==
    LET n == IF Len(recv_buf) < parser.remaining THEN Len(recv_buf) ELSE parser.remaining
        chunk == Prefix(recv_buf, n)
    IN  /\ Advances
        /\ state \in {"Open", "Closing"}
        /\ parser.st = "Payload"
        /\ parser.remaining > 0
        /\ \/ n = 0 /\ pc' = "ready" /\ UNCHANGED <<parser, recv_buf, msg_buf, ctl_buf>>
           \/ /\ n > 0
              /\ parser' = [parser EXCEPT !.remaining = @ - n]
              /\ recv_buf' = Drop(recv_buf, n)
              /\ IF cur_opcode \in Control
                 THEN ctl_buf' = ctl_buf \o chunk /\ UNCHANGED msg_buf
                 ELSE msg_buf' = msg_buf \o chunk /\ UNCHANGED ctl_buf
              /\ UNCHANGED pc
        /\ UNCHANGED <<peerVars, borrowed, last_emitted, msg_opcode, cur_opcode, cur_fin, outVars,
                       sinkVars, call, ingress>>

\* Some byte of s belongs to a payload that is not valid.
Invalid(s) == \E k \in 1 .. Len(s) : frames[s[k][1]].bad = "payload"

FrameEnds == Advances /\ parser.st = "Payload" /\ parser.remaining = 0 /\ state # "Connecting"

\* Mutant: the answer to a Ping is written only while Open.
PongOpen == AutoPong /\ state = "Open"

\* Whether a Ping is answered, in Closing too.
PongAuto == AutoPong

\* on_frame_end of a Ping or a Pong.
EndPing ==
    /\ FrameEnds
    /\ cur_opcode \in {"Ping", "Pong"}
    /\ tx_buf' = IF cur_opcode = "Ping" /\ PongAuto
                 THEN Append(tx_buf, Written("Pong", ctl_buf)) ELSE tx_buf
    /\ Emit("Control")
    /\ cur_opcode' = "None"
    /\ parser' = Idle
    /\ UNCHANGED <<peerVars, recv_buf, borrowed, msgVars, cur_fin, ctl_buf, state, failed, sinkVars,
                   call, ingress>>

\* on_received_close: a Close frame in answer, unless one was sent before.
EchoClose ==
    tx_buf' = IF state = "Open" THEN Append(tx_buf, Written("Close", <<>>)) ELSE tx_buf

\* on_frame_end of a Close, on_received_close.
EndClose ==
    /\ FrameEnds
    /\ cur_opcode = "Close"
    /\ IF Invalid(ctl_buf)
       THEN Fail /\ UNCHANGED last_emitted
       ELSE EchoClose /\ state' = "Closed" /\ Emit("Control") /\ UNCHANGED failed
    /\ cur_opcode' = "None"
    /\ parser' = Idle
    /\ UNCHANGED <<peerVars, recv_buf, borrowed, msgVars, cur_fin, ctl_buf, sinkVars, call, ingress>>

\* on_frame_end of a fragment that is not the last.
EndFragment ==
    /\ FrameEnds
    /\ cur_opcode \notin Control
    /\ ~cur_fin
    /\ cur_opcode' = "None"
    /\ parser' = Idle
    /\ UNCHANGED <<peerVars, bufVars, msgVars, cur_fin, ctl_buf, outVars, sinkVars, call, pc,
                   ingress>>

\* on_frame_end of the last frame of a message.
EndMessage ==
    /\ FrameEnds
    /\ cur_opcode \notin Control
    /\ cur_fin
    /\ IF msg_opcode = "Text" /\ Invalid(msg_buf)
       THEN Fail /\ UNCHANGED <<last_emitted, sinkVars>>
       ELSE Surface(Message(msg_opcode, msg_buf)) /\ Emit("Message") /\ UNCHANGED outVars
    /\ msg_opcode' = "None"
    /\ cur_opcode' = "None"
    /\ parser' = Idle
    /\ UNCHANGED <<peerVars, recv_buf, borrowed, msg_buf, cur_fin, ctl_buf, call, ingress>>

-----------------------------------------------------------------------------
\* new_client; the peer's bytes are on their way.
Init ==
    /\ \E u \in Upgrades, rest \in Scripts : frames = <<u>> \o rest
    /\ LET wire[i \in 0 .. Len(frames)] ==
              IF i = 0 THEN <<>>
              ELSE wire[i - 1] \o [k \in 1 .. FrameLen(frames[i]) |-> <<i, k>>]
       IN  stream = wire[Len(frames)]
    /\ state = "Connecting"
    /\ parser = Idle
    /\ recv_buf = <<>>
    /\ borrowed = 0
    /\ msg_opcode = "None"
    /\ msg_buf = <<>>
    /\ cur_opcode = "None"
    /\ cur_fin = FALSE
    /\ ctl_buf = <<>>
    /\ last_emitted = "None"
    /\ tx_buf = <<>>
    /\ call = "none"
    /\ pc = "ready"
    /\ ingress = <<>>
    /\ batch = <<>>
    /\ delivered = <<>>
    /\ marks = <<>>
    /\ failed = FALSE

Call ==
    \/ FeedRecv \/ SendFrame \/ SendClose
    \/ \E c \in {"poll", "data", "batch"} : Begin(c)
    \/ \E c \in {"data", "batch"} : BeginIngress(c)

Step ==
    \/ IngressFrame \/ IngressEnd \/ Loop \/ DirectFrame \/ DirectEnd
    \/ PollClosed \/ PollBorrowed
    \/ AdvanceHandshake \/ AdvanceHeader \/ AdvancePayload
    \/ EndPing \/ EndClose \/ EndFragment \/ EndMessage

Next == Call \/ Step

\* A call that has begun runs on.
Spec == Init /\ [][Next]_vars /\ WF_vars(Step)

-----------------------------------------------------------------------------
(* Properties.                                                              *)

Byte == Seq(Nat)
MessageType == [op : Data, payload : Seq(Byte)]

\* The state of the client stays within its types.
TypeOK ==
    /\ state \in {"Connecting", "Open", "Closing", "Closed"}
    /\ parser \in [st : {"Idle", "Header", "Payload"}, partial : Seq(Byte), remaining : Nat]
    /\ stream \in Seq(Byte)
    /\ recv_buf \in Seq(Byte)
    /\ borrowed \in 0 .. Len(recv_buf)
    /\ msg_opcode \in Data \cup {"None"}
    /\ msg_buf \in Seq(Byte)
    /\ cur_opcode \in Data \cup Control \cup {"Cont", "None"}
    /\ cur_fin \in BOOLEAN
    /\ ctl_buf \in Seq(Byte)
    /\ last_emitted \in {"None", "Handshake", "Message", "Borrowed", "Control"}
    /\ tx_buf \in Seq([op : {"Sent", "Pong", "Close"}, payload : Seq(Byte)])
    /\ call \in {"none", "feed", "poll", "data", "batch"}
    /\ pc \in {"ready", "loop", "direct", "ingress", "poll"}
    /\ ingress \in Seq(Byte)
    /\ batch \in Seq(MessageType)
    /\ Len(batch) <= BatchCapacity
    /\ delivered \in Seq(MessageType)
    /\ marks \in Seq(BOOLEAN)
    /\ failed \in BOOLEAN

\* The reference: what a reader of whole frames knows.  out are the messages, pings the
\* payloads to answer, op and acc the message in progress; over: nothing is read after
\* a Close frame or an error.
Unread == [out |-> <<>>, pings |-> <<>>, op |-> "None", acc |-> <<>>, over |-> FALSE]

\* The opcode of the message that f belongs to.
OpOf(m, f) == IF f.op = "Cont" THEN m.op ELSE f.op

\* Frame i is an error, after what is known.
Wrong(m, i) ==
    LET f == frames[i]
        acc == m.acc \o Payload(i)
    IN  \/ HeaderBad(f)
        \/ f.op \in Control /\ ~f.fin
        \/ f.len > MaxFrame
        \/ f.op \notin Control \cup {"Upgrade"}
           /\ \/ (f.op = "Cont") # (m.op # "None")
              \/ Len(acc) > MaxMessage
              \/ f.fin /\ OpOf(m, f) = "Text" /\ Invalid(acc)

\* What it knows when it has read frame i, from what it knew before.
Read(m, i) ==
    LET f == frames[i]
        acc == m.acc \o Payload(i)
    IN  IF m.over \/ Wrong(m, i) \/ f.op = "Close" THEN [m EXCEPT !.over = TRUE]
        ELSE IF f.op = "Ping" THEN [m EXCEPT !.pings = Append(@, Payload(i))]
        ELSE IF f.op \in {"Pong", "Upgrade"} THEN m
        ELSE IF f.fin
        THEN [m EXCEPT !.out = Append(@, Message(OpOf(m, f), acc)), !.op = "None", !.acc = <<>>]
        ELSE [m EXCEPT !.op = OpOf(m, f), !.acc = acc]

\* What the first i frames mean, read one after the other.
Meaning ==
    LET meaning[i \in 0 .. Len(frames)] == IF i = 0 THEN Unread ELSE Read(meaning[i - 1], i)
    IN  meaning

\* How many frames have arrived completely.
Arrived == IF stream = <<>> THEN Len(frames) ELSE stream[1][1] - 1

\* A drain leaves no complete frame unread; an error means that everything before the
\* frame in error was read.
AllRead == pc = "ready" /\ (call \in {"data", "batch"} \/ failed)

\* The sink is given exactly the messages the frames mean, whatever chunks they came
\* in, through whichever of the paths, with poll_event and the drains mixed
\* (drain_data_events: "same semantics as the general path").
DeliveredAsSent ==
    /\ Len(delivered) <= Len(Meaning[Len(frames)].out)
    /\ delivered = Prefix(Meaning[Len(frames)].out, Len(delivered))
    /\ AllRead => delivered = Meaning[Arrived].out

Pongs == {k \in 1 .. Len(tx_buf) : tx_buf[k].op = "Pong"}

\* The Pongs written are one for each element of pings, in order, with its payload.
Answers(pings) ==
    \E at \in [1 .. Len(pings) -> Pongs] :
        /\ \A k \in Pongs : \E j \in 1 .. Len(pings) : at[j] = k
        /\ \A j, k \in 1 .. Len(pings) : j < k => at[j] < at[k]
        /\ \A k \in 1 .. Len(pings) : tx_buf[at[k]].payload = pings[k]

\* Each Ping that was read is answered once, in order, with its payload (on_frame_end,
\* auto_pong), and none that was not.
PingsAnswered == AutoPong /\ AllRead => Answers(Meaning[Arrived].pings)

Closes == {k \in 1 .. Len(tx_buf) : tx_buf[k].op = "Close"}

\* "At most one Close per endpoint": one, and exactly one, was written when an open
\* connection is Closing or Closed, whether the caller, the peer or an error began
\* to close it; what the caller sends does not come after it
\* (send_close, queue_close, on_received_close).
OneClose ==
    /\ \A j, k \in Closes : j = k
    /\ state \in {"Connecting", "Open"} => Closes = {}
    /\ state = "Closing" \/ (state = "Closed" /\ Meaning[1].over = FALSE) => Closes # {}
    /\ \A j \in Closes, k \in 1 .. Len(tx_buf) : j < k => tx_buf[k].op = "Pong"

\* The errors called Internal do not happen: at the end of a frame its opcode is known,
\* and that of its message (on_frame_end).
NoInternalError ==
    FrameEnds => /\ cur_opcode # "None"
                 /\ cur_opcode \notin Control => msg_opcode # "None"

\* Every call returns: the loops of poll_event and the drains end.
CallReturns == pc # "ready" ~> pc = "ready"

-----------------------------------------------------------------------------
(* What the documentation says and the code does not do.                    *)

\* "Whether this is the last data batch emitted for the current plaintext chunk": the
\* last batch of a call has is_chunk_end, and no other.  Not so when the scan meets a
\* control frame or a fragment: what it holds is given with FALSE, and no message
\* may follow.
ChunkEndIsLast ==
    pc = "ready" /\ call = "batch" =>
        \A k \in 1 .. Len(marks) : marks[k] = (k = Len(marks))

=============================================================================
