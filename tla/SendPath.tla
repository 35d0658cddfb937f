------------------------------ MODULE SendPath ------------------------------
(***************************************************************************)
(* The send path of one connection, from the frames the WebSocket client   *)
(* writes to the bytes that leave the socket: tx_buf, the records rustls   *)
(* makes of them and the ones it makes by itself while receiving           *)
(* (tls_pending_out), send_buf with its head, and the one Send SQE that    *)
(* reads send_buf while the kernel has it.                                 *)
(*                                                                         *)
(* The kernel reads send_buf when it sends, not when the SQE is submitted, *)
(* so what the driver does to send_buf in between matters.  Bytes are      *)
(* numbered as they are written and TLS records as rustls makes them (one  *)
(* record per byte: records may be split anyway, since sends are partial). *)
(***************************************************************************)
EXTENDS Integers, Sequences

CONSTANTS
    UseTls,     \* the values of cfg.use_tls
    MaxLen,     \* u32::MAX, the most one SQE can send
    MaxBytes,   \* bound of the model: bytes the client writes
    MaxReplies, \* bound of the model: records rustls makes by itself
    MaxFailures \* bound of the model: how often the connection fails

ASSUME SendPathAssumption ==
    /\ UseTls \subseteq BOOLEAN
    /\ MaxLen \in Nat \ {0}
    /\ MaxBytes \in Nat
    /\ MaxReplies \in Nat
    /\ MaxFailures \in Nat

VARIABLES
    \* cfg.use_tls
    tls,
    \* the WebSocket client: bytes written so far, pending_tx
    written, tx,
    \* rustls: records made so far, how many of them by itself, ciphertext not
    \* yet drained
    made, replies, rustls,
    \* ConnectionState
    tls_pending_out, send_buf, send_head, send_inflight, closed,
    \* the kernel: the Send operation or its CQE, and what has left the socket
    op, wire,
    \* ghost: how often the connection has failed
    failures

wsVars == <<written, tx>>
tlsVars == <<made, replies, rustls>>
bufVars == <<tls_pending_out, send_buf, send_head>>
vars == <<tls, wsVars, tlsVars, bufVars, send_inflight, closed, op, wire, failures>>

\* A byte of ciphertext or of plaintext on its way: the record it belongs to and
\* the byte of the client it carries, 0 if none.
Unit(rec, byte) == [rec |-> rec, byte |-> byte]

\* egress_plaintext: what the bytes of q become, after what rustls still has.
Egress(q) ==
    IF tls THEN rustls \o [i \in 1 .. Len(q) |-> Unit(made + i, q[i])]
           ELSE [i \in 1 .. Len(q) |-> Unit(0, q[i])]

NoOp == [state |-> "none", from |-> 0, len |-> 0]

-----------------------------------------------------------------------------
(* The client and the receive path.                                         *)

\* begin_handshake, send_text and the other writers: write_frame appends to tx_buf.
\* The client has a state of its own and writes also while the driver is Closed.
WriteFrame ==
    /\ \E n \in 1 .. 2 :
          /\ written + n <= MaxBytes
          /\ tx' = tx \o [i \in 1 .. n |-> written + i]
          /\ written' = written + n
    /\ UNCHANGED <<tls, tlsVars, bufVars, send_inflight, closed, op, wire, failures>>

\* Mutant: the receive path writes to send_buf.
IngestToSendBuf ==
    /\ tls
    /\ ~closed
    /\ replies < MaxReplies
    /\ replies' = replies + 1
    /\ made' = made + 1
    /\ send_buf' = send_buf \o rustls \o <<Unit(made + 1, 0)>>
    /\ rustls' = <<>>
    /\ UNCHANGED <<tls, wsVars, tls_pending_out, send_head, send_inflight, closed, op,
                   wire, failures>>

\* on_recv_cqe: rustls answers what it received (handshake, key update), and all
\* the ciphertext it has goes to tls_pending_out, a Send in flight or not.
Ingest ==
    /\ tls
    /\ ~closed
    /\ replies < MaxReplies
    /\ replies' = replies + 1
    /\ made' = made + 1
    /\ tls_pending_out' = tls_pending_out \o rustls \o <<Unit(made + 1, 0)>>
    /\ rustls' = <<>>
    /\ UNCHANGED <<tls, wsVars, send_buf, send_head, send_inflight, closed, op, wire, failures>>

\* The connection becomes Closed (fail_conn).
Fail ==
    /\ failures < MaxFailures
    /\ failures' = failures + 1
    /\ closed' = TRUE

\* The receive path fails the connection.
RecvFails ==
    /\ ~closed
    /\ Fail
    /\ UNCHANGED <<tls, wsVars, tlsVars, bufVars, send_inflight, op, wire>>

\* A receive CQE discarded afterwards opens it again, if its client is still Open
\* (sync_ws_open_state).
RecvReopens ==
    /\ closed
    /\ closed' = FALSE
    /\ UNCHANGED <<tls, wsVars, tlsVars, bufVars, send_inflight, op, wire, failures>>

-----------------------------------------------------------------------------
(* The driver.                                                              *)

\* Mutant: what is left of a partial send stays in front, the head too.
CompactedNot == send_buf

\* compact_send_buf_if_needed
Compacted == SubSeq(send_buf, send_head + 1, Len(send_buf))

\* Mutant: records made while a Send was in flight go after new ones.
StagedLate == Compacted \o Egress(tx) \o tls_pending_out

\* send_buf when try_submit_send has gathered everything.
Staged == Compacted \o tls_pending_out \o Egress(tx)

\* Mutant: a rest of send_buf is taken to be with the kernel.
CanSubmitWhenEmpty == ~send_inflight /\ ~closed /\ send_buf = <<>>

CanSubmit == ~send_inflight /\ ~closed

\* try_submit_send: gather, then hand send_buf to the kernel.
TrySubmitSend ==
    LET len == IF Len(Staged) > MaxLen THEN MaxLen ELSE Len(Staged)
    IN  /\ CanSubmit
        /\ send_buf' = Staged
        /\ send_head' = 0
        /\ tls_pending_out' = <<>>
        /\ tx' = <<>>
        /\ IF tls THEN made' = made + Len(tx) /\ rustls' = <<>>
                  ELSE UNCHANGED <<made, rustls>>
        /\ \/ Staged = <<>> /\ UNCHANGED <<send_inflight, closed, op, failures>>
           \/ /\ Staged # <<>>
              /\ op' = [state |-> "sending", from |-> 0, len |-> len]
              /\ send_inflight' = TRUE
              /\ UNCHANGED <<closed, failures>>
           \/ \* the submission queue is full
              /\ Staged # <<>>
              /\ Fail
              /\ UNCHANGED <<send_inflight, op>>
        /\ UNCHANGED <<tls, written, replies, wire>>

\* try_submit_send, rustls refuses bytes: those it took stay in tx_buf too.
EgressFails ==
    /\ CanSubmit
    /\ tls
    /\ tx # <<>>
    /\ send_buf' = Compacted \o tls_pending_out
    /\ send_head' = 0
    /\ tls_pending_out' = <<>>
    /\ \E n \in 0 .. Len(tx) - 1 :
          /\ rustls' = Egress(SubSeq(tx, 1, n))
          /\ made' = made + n
    /\ Fail
    /\ UNCHANGED <<tls, wsVars, replies, send_inflight, op, wire>>

\* Mutant: all of send_buf is taken to be sent.
AckedAll(n) == send_buf' = <<>> /\ send_head' = 0

\* Mutant: send_buf is cleared and its head is not.
AckedNoReset(n) ==
    /\ send_buf' = IF send_head + n >= Len(send_buf) THEN <<>> ELSE send_buf
    /\ send_head' = send_head + n

\* send_head moves past what was sent; send_buf is cleared once all of it was.
Acked(n) ==
    IF send_head + n >= Len(send_buf)
    THEN send_buf' = <<>> /\ send_head' = 0
    ELSE UNCHANGED send_buf /\ send_head' = send_head + n

\* on_send_cqe and discard_completion_after_closed.  A connection that is Closed
\* drops the rest of send_buf; the discarded CQE may open it again.
OnSendCqe ==
    /\ op.state \in {"sent", "failed"}
    /\ op' = NoOp
    /\ send_inflight' = FALSE
    /\ \/ /\ closed
          /\ send_buf' = <<>>
          /\ send_head' = 0
          /\ closed' \in BOOLEAN
       \/ /\ ~closed
          /\ op.state = "sent"
          /\ Acked(op.len)
          /\ UNCHANGED closed
       \/ /\ ~closed
          /\ op.state = "failed"
          /\ closed' = TRUE
          /\ UNCHANGED <<send_buf, send_head>>
    /\ UNCHANGED <<tls, wsVars, tlsVars, tls_pending_out, wire, failures>>

-----------------------------------------------------------------------------
(* The kernel: sends some of the bytes, read from send_buf now, or fails.    *)

KernelSend ==
    /\ op.state = "sending"
    /\ \E n \in 1 .. op.len :
          /\ wire' = wire \o SubSeq(send_buf, op.from + 1, op.from + n)
          /\ op' = [op EXCEPT !.state = "sent", !.len = n]
    /\ UNCHANGED <<tls, wsVars, tlsVars, bufVars, send_inflight, closed, failures>>

KernelFails ==
    /\ failures < MaxFailures
    /\ failures' = failures + 1
    /\ op.state = "sending"
    /\ op' = [op EXCEPT !.state = "failed"]
    /\ UNCHANGED <<tls, wsVars, tlsVars, bufVars, send_inflight, closed, wire>>

-----------------------------------------------------------------------------
\* on_connect_cqe has run: with TLS, rustls has its first flight ready.
Init ==
    /\ tls \in UseTls
    /\ written = 0
    /\ tx = <<>>
    /\ made = IF tls THEN 1 ELSE 0
    /\ replies = 0
    /\ rustls = IF tls THEN <<Unit(1, 0)>> ELSE <<>>
    /\ tls_pending_out = <<>>
    /\ send_buf = <<>>
    /\ send_head = 0
    /\ send_inflight = FALSE
    /\ closed = FALSE
    /\ op = NoOp
    /\ wire = <<>>
    /\ failures = 0

Next ==
    \/ WriteFrame \/ Ingest \/ RecvFails \/ RecvReopens
    \/ TrySubmitSend \/ EgressFails \/ OnSendCqe
    \/ KernelSend \/ KernelFails

\* The caller keeps pumping and the kernel finishes every send.
Fairness == WF_vars(TrySubmitSend) /\ WF_vars(OnSendCqe) /\ WF_vars(KernelSend)

Spec == Init /\ [][Next]_vars /\ Fairness

-----------------------------------------------------------------------------
(* Properties.                                                              *)

\* Bytes that rustls had taken when a submission failed are encrypted again.
MaxRecords == MaxBytes * (MaxFailures + 1) + MaxReplies + 1

UnitType == [rec : 0 .. MaxRecords, byte : 0 .. MaxBytes]

\* The state of the send path stays within its types.
TypeOK ==
    /\ tls \in BOOLEAN
    /\ written \in 0 .. MaxBytes
    /\ tx \in Seq(1 .. MaxBytes)
    /\ made \in 0 .. MaxRecords
    /\ replies \in 0 .. MaxReplies
    /\ rustls \in Seq(UnitType)
    /\ tls_pending_out \in Seq(UnitType)
    /\ send_buf \in Seq(UnitType)
    /\ send_head \in 0 .. Len(send_buf)
    /\ send_inflight \in BOOLEAN
    /\ closed \in BOOLEAN
    /\ op \in [state : {"none", "sending", "sent", "failed"}, from : Nat, len : Nat]
    /\ wire \in Seq(UnitType)
    /\ failures \in 0 .. MaxFailures

\* What is in send_buf and has not left the socket.
Unsent ==
    SubSeq(send_buf, send_head + 1 + (IF op.state = "sent" THEN op.len ELSE 0), Len(send_buf))

Ciphertext == wire \o Unsent \o tls_pending_out \o rustls

\* TLS records leave in the order in which rustls made them, none missing and none
\* twice, until the connection fails: the peer cannot decrypt anything else
\* (try_submit_send, "keep the order").
RecordsInOrder ==
    tls /\ failures = 0 => \A i \in 1 .. Len(Ciphertext) : Ciphertext[i].rec = i

\* "send_inflight: send_buf must not change": while the kernel may read it, it does
\* not, also when the connection has failed in the meantime.
SendBufStable == [][op.state = "sending" => UNCHANGED send_buf]_vars

\* The bytes of the client among the units of s.
Carried(s) ==
    LET c[i \in 0 .. Len(s)] ==
            IF i = 0 THEN <<>>
            ELSE IF s[i].byte = 0 THEN c[i - 1] ELSE Append(c[i - 1], s[i].byte)
    IN  c[Len(s)]

Stream == INSTANCE EgressStream WITH
    Byte <- 1 .. MaxBytes,
    waiting <- Carried(Unsent \o tls_pending_out \o rustls) \o tx,
    wire <- Carried(wire),
    broken <- failures > 0

\* The send path is a stream until the connection fails: neither partial sends nor
\* the records in between reorder, drop or repeat what the client writes.
IsStream == Stream!Spec

\* Nothing written stays behind a partial send: it leaves, or the connection fails.
AllSent ==
    \A n \in 1 .. MaxBytes : (written >= n) ~> (Len(Carried(wire)) >= n \/ failures > 0)

=============================================================================
