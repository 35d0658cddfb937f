------------------------------ MODULE RecvRing ------------------------------
(***************************************************************************)
(* The receive path of one connection: the provided buffer ring shared with *)
(* the kernel (BufferRing), the multishot receive that takes buffers from   *)
(* it, and the driver that reads the buffers named by a CQE and gives them  *)
(* back (for_each_recv_slice, recycle_recv_buffers).                        *)
(*                                                                         *)
(* The kernel consumes ring slots at head while the driver publishes them   *)
(* at tail, both 16-bit counters that wrap around.  In bundle mode one CQE  *)
(* covers several buffers and names only the first: the driver computes the *)
(* others, which is right only while slot i of the ring holds buffer i.     *)
(* Bytes are numbered as the peer sends them, so that what the driver reads *)
(* can be compared with what was sent.                                      *)
(***************************************************************************)
EXTENDS Integers, Sequences, FiniteSets

CONSTANTS
    Entries,    \* buffers in the ring, a power of two
    TailMod,    \* 2^16, where head and tail wrap around
    BufSize,    \* bytes in a buffer
    Bundles,    \* which receive modes: {TRUE} for MultishotBundle
    MaxBytes    \* bound of the model: bytes the peer sends

ASSUME RecvRingAssumption ==
    /\ Entries \in Nat \ {0}
    /\ TailMod \in Nat \ {0}
    /\ TailMod % Entries = 0
    /\ Entries < TailMod
    /\ BufSize \in Nat \ {0}
    /\ Bundles \subseteq BOOLEAN
    /\ MaxBytes \in Nat

Bids == 0 .. Entries - 1

VARIABLES
    \* shared memory: the buffer id in each ring slot, what each buffer holds
    slot, mem, tail,
    \* the kernel: next slot to consume, whether the receive is armed, CQEs
    head, karmed, cq,
    \* the peer: bytes sent, bytes the kernel has moved to buffers, end of stream
    sent, taken, fin,
    \* the driver: multishot_armed, state = Closed, the WebSocket client, where
    \* the pump is, CQEs drained, the slice of the first of them, an error met in it
    armed, closed, ws, phase, buf, index, first_err,
    \* cfg.recv_mode is MultishotBundle
    bundle,
    \* what on_slice was given
    delivered,
    \* ghost: a Send or the TLS layer has failed the connection
    failed

ringVars == <<slot, mem, tail>>
kernelVars == <<head, karmed, cq>>
peerVars == <<sent, taken, fin>>
streamVars == <<bundle, delivered, failed>>
driverVars == <<armed, closed, ws, phase, buf, index, first_err, streamVars>>
vars == <<ringVars, kernelVars, peerVars, driverVars>>

-----------------------------------------------------------------------------
(* The kernel.                                                              *)

Available == (tail - head) % TailMod

\* The i-th slot from head on.
SlotAt(i) == (head + i) % Entries

CeilDiv(n, d) == (n + d - 1) \div d

\* The chunk of n bytes from byte number first on that goes into the i-th buffer.
Chunk(first, n, i) ==
    [j \in 1 .. IF n - i * BufSize < BufSize THEN n - i * BufSize ELSE BufSize |->
        first + i * BufSize + j - 1]

Cqe(res, bid, n, more) == [res |-> res, bid |-> bid, n |-> n, more |-> more]

PeerSend ==
    /\ sent < MaxBytes
    /\ ~fin
    /\ sent' = sent + 1
    /\ UNCHANGED <<taken, fin, ringVars, kernelVars, driverVars>>

PeerClose ==
    /\ ~fin
    /\ fin' = TRUE
    /\ UNCHANGED <<sent, taken, ringVars, kernelVars, driverVars>>

\* Some of the bytes received go to one buffer, or in a bundle to as many as
\* they need, each filled before the next.  The receive may end after any CQE.  So no
\* CQE is for more bytes or buffers than there are, which for_each_recv_slice refuses.
KernelRecv ==
    /\ karmed
    /\ Available > 0
    /\ \E n \in 1 .. sent - taken :
          LET used == CeilDiv(n, BufSize)
          IN  /\ used <= IF bundle THEN Available ELSE 1
              /\ mem' = [b \in Bids |->
                    IF \E i \in 0 .. used - 1 : slot[SlotAt(i)] = b
                    THEN Chunk(taken + 1, n, CHOOSE i \in 0 .. used - 1 : slot[SlotAt(i)] = b)
                    ELSE mem[b]]
              /\ head' = (head + used) % TailMod
              /\ taken' = taken + n
              /\ \E more \in BOOLEAN :
                    /\ karmed' = more
                    /\ cq' = Append(cq, Cqe("data", slot[SlotAt(0)], n, more))
    /\ UNCHANGED <<slot, tail, sent, fin, driverVars>>

\* ENOBUFS: bytes to receive and no buffer; the multishot receive ends.
KernelNoBufs ==
    /\ karmed
    /\ Available = 0
    /\ taken < sent
    /\ karmed' = FALSE
    /\ cq' = Append(cq, Cqe("nobufs", 0, 0, FALSE))
    /\ UNCHANGED <<head, ringVars, peerVars, driverVars>>

\* End of stream, with or without a buffer selected for it.
KernelEof ==
    /\ karmed
    /\ fin
    /\ taken = sent
    /\ karmed' = FALSE
    /\ \/ cq' = Append(cq, Cqe("eof", 0, 0, FALSE)) /\ UNCHANGED head
       \/ /\ Available > 0
          /\ cq' = Append(cq, Cqe("data", slot[SlotAt(0)], 0, FALSE))
          /\ head' = (head + 1) % TailMod
    /\ UNCHANGED <<ringVars, peerVars, driverVars>>

\* Any other error; the multishot receive ends.
KernelError ==
    /\ karmed
    /\ karmed' = FALSE
    /\ cq' = Append(cq, Cqe("err", 0, 0, FALSE))
    /\ UNCHANGED <<head, ringVars, peerVars, driverVars>>

-----------------------------------------------------------------------------
(* The driver.                                                              *)

\* try_rearm_multishot and the rest of submit_conn_ops, then submit.
Rearm ==
    /\ phase = "submit"
    /\ phase' = "wait"
    /\ IF armed \/ closed
       THEN UNCHANGED <<armed, karmed>>
       ELSE armed' = TRUE /\ karmed' = TRUE
    /\ UNCHANGED <<head, cq, closed, ws, buf, index, first_err, streamVars, ringVars, peerVars>>

\* drain_completions
Drain ==
    /\ phase = "wait"
    /\ phase' = "dispatch"
    /\ buf' = cq
    /\ cq' = <<>>
    /\ UNCHANGED <<head, karmed, armed, closed, ws, index, first_err, streamVars,
                   ringVars, peerVars>>

EndPump ==
    /\ phase = "dispatch"
    /\ buf = <<>>
    /\ phase' = "submit"
    /\ UNCHANGED <<armed, closed, ws, buf, index, first_err, streamVars, ringVars,
                   kernelVars, peerVars>>

\* finish_conn_result, closed or not after a handler that failed or not.  The
\* handler of a Closed connection discards the CQE and succeeds, and then
\* sync_ws_open_state opens the connection again if its client is still Open.
AfterCqe(err) == IF closed THEN ws # "Open" ELSE err

\* A Send CQE handled between two receive CQEs; the send may have failed.
OnSendCqe ==
    /\ phase = "dispatch"
    /\ \E err \in BOOLEAN :
          /\ closed' = AfterCqe(err)
          /\ failed' = (failed \/ (err /\ ~closed))
    /\ UNCHANGED <<armed, ws, phase, buf, index, first_err, bundle, delivered, ringVars,
                   kernelVars, peerVars>>


\* on_recv_cqe and discard_recv_completion_after_closed, a CQE without a buffer: only
\* after ENOBUFS the connection goes on.
OnRecvCqeNoBuffer ==
    /\ phase = "dispatch"
    /\ buf # <<>>
    /\ Head(buf).res # "data"
    /\ armed' = FALSE
    /\ closed' = AfterCqe(Head(buf).res # "nobufs")
    /\ buf' = Tail(buf)
    /\ UNCHANGED <<ws, phase, index, first_err, streamVars, ringVars, kernelVars, peerVars>>

\* Mutant: a CQE for a Closed connection is dropped with the buffers it covers.
OnRecvCqeDropClosed ==
    /\ phase = "dispatch"
    /\ buf # <<>>
    /\ Head(buf).res = "data"
    /\ armed' = (armed /\ Head(buf).more)
    /\ IF closed
       THEN buf' = Tail(buf) /\ UNCHANGED phase
       ELSE phase' = (IF Head(buf).n = 0 THEN "recycle" ELSE "read") /\ UNCHANGED buf
    /\ UNCHANGED <<closed, ws, index, first_err, streamVars, ringVars, kernelVars, peerVars>>

\* A CQE with a buffer.  A Closed connection only gives its buffers back.
OnRecvCqe ==
    /\ phase = "dispatch"
    /\ buf # <<>>
    /\ Head(buf).res = "data"
    /\ armed' = (armed /\ Head(buf).more)
    /\ phase' = IF closed \/ Head(buf).n = 0 THEN "recycle" ELSE "read"
    /\ UNCHANGED <<closed, ws, buf, index, first_err, streamVars, ringVars, kernelVars, peerVars>>

\* Mutant: only the buffer named by the CQE of a bundle is given back.
SliceCountOne(c) == 1

\* How many buffers a CQE covers; at least one, a CQE of no bytes too.
SliceCount(c) == IF bundle /\ c.n > 0 THEN CeilDiv(c.n, BufSize) ELSE 1

\* Mutant: the buffer is always the one named by the CQE.
SliceBidFirst(c, i) == c.bid

\* (start_bid + index) & mask
SliceBid(c, i) == (c.bid + i) % Entries

\* What on_slice may do: nothing to the client, the 101 response that opens it, a
\* protocol error after which it is closing, an error of the TLS layer that it
\* does not see.
OnSlice ==
    \/ ws' = ws /\ first_err' = FALSE /\ UNCHANGED failed
    \/ ws = "Connecting" /\ ws' = "Open" /\ first_err' = FALSE /\ UNCHANGED failed
    \/ ws' = "Closing" /\ first_err' = TRUE /\ UNCHANGED failed
    \/ ws' = ws /\ first_err' = TRUE /\ failed' = TRUE

\* for_each_recv_slice, one slice read: on_slice is not called after an error.
ReadSlice ==
    LET c == Head(buf)
        len == IF c.n - index * BufSize < BufSize THEN c.n - index * BufSize ELSE BufSize
    IN  /\ phase = "read"
        /\ phase' = "recycle"
        /\ IF first_err
           THEN UNCHANGED <<delivered, failed, first_err, ws>>
           ELSE /\ delivered' = delivered \o SubSeq(mem[SliceBid(c, index)], 1, len)
                /\ OnSlice
        /\ UNCHANGED <<armed, closed, buf, index, bundle, ringVars, kernelVars, peerVars>>

\* BufferRing::recycle, the entry: the kernel does not look at it yet.
WriteEntry ==
    /\ phase = "recycle"
    /\ phase' = "publish"
    /\ slot' = [slot EXCEPT ![tail % Entries] = SliceBid(Head(buf), index)]
    /\ UNCHANGED <<mem, tail, armed, closed, ws, buf, index, first_err, streamVars,
                   kernelVars, peerVars>>

\* Mutant: the loop over the slices ends at the first error.
MoreSlicesNoError == index + 1 < SliceCount(Head(buf)) /\ ~first_err

MoreSlices == index + 1 < SliceCount(Head(buf))

\* Mutant: the tail is incremented without wrapping around.
PublishTailNoWrap ==
    /\ phase = "publish"
    /\ tail' = tail + 1
    /\ IF MoreSlices
       THEN /\ index' = index + 1
            /\ phase' = IF closed THEN "recycle" ELSE "read"
            /\ UNCHANGED <<buf, closed, first_err>>
       ELSE /\ index' = 0
            /\ phase' = "dispatch"
            /\ buf' = Tail(buf)
            /\ closed' = AfterCqe(first_err \/ Head(buf).n = 0)
            /\ first_err' = FALSE
    /\ UNCHANGED <<slot, mem, armed, ws, streamVars, kernelVars, peerVars>>

\* BufferRing::recycle, the release store of tail; then the next slice, or the
\* next CQE.  A CQE without bytes is end of stream.
PublishTail ==
    /\ phase = "publish"
    /\ tail' = (tail + 1) % TailMod
    /\ IF MoreSlices
       THEN /\ index' = index + 1
            /\ phase' = IF closed THEN "recycle" ELSE "read"
            /\ UNCHANGED <<buf, closed, first_err>>
       ELSE /\ index' = 0
            /\ phase' = "dispatch"
            /\ buf' = Tail(buf)
            /\ closed' = AfterCqe(first_err \/ Head(buf).n = 0)
            /\ first_err' = FALSE
    /\ UNCHANGED <<slot, mem, armed, ws, streamVars, kernelVars, peerVars>>

-----------------------------------------------------------------------------
\* BufferRing::new and on_connect_cqe: every buffer published, receive armed.
Init ==
    /\ slot = [i \in Bids |-> i]
    /\ mem = [b \in Bids |-> <<>>]
    /\ tail = Entries
    /\ head = 0
    /\ karmed = TRUE
    /\ cq = <<>>
    /\ sent = 0
    /\ taken = 0
    /\ fin = FALSE
    /\ armed = TRUE
    /\ closed = FALSE
    /\ ws = "Connecting"
    /\ phase = "wait"
    /\ buf = <<>>
    /\ index = 0
    /\ first_err = FALSE
    /\ bundle \in Bundles
    /\ delivered = <<>>
    /\ failed = FALSE

Kernel == KernelRecv \/ KernelNoBufs \/ KernelEof \/ KernelError

Driver ==
    \/ Rearm \/ Drain \/ EndPump \/ OnRecvCqeNoBuffer \/ OnRecvCqe
    \/ ReadSlice \/ WriteEntry \/ PublishTail

Next == PeerSend \/ PeerClose \/ Kernel \/ OnSendCqe \/ Driver

\* The caller keeps pumping, and the kernel answers an armed receive.
Fairness == WF_vars(Driver) /\ WF_vars(Kernel)

Spec == Init /\ [][Next]_vars /\ Fairness

-----------------------------------------------------------------------------
(* Properties.                                                              *)

CqeType == [res : {"data", "nobufs", "eof", "err"}, bid : Bids, n : 0 .. MaxBytes, more : BOOLEAN]

\* The state of the receive path stays within its types.
TypeOK ==
    /\ slot \in [Bids -> Bids]
    /\ mem \in [Bids -> Seq(1 .. MaxBytes)]
    /\ tail \in 0 .. TailMod - 1
    /\ head \in 0 .. TailMod - 1
    /\ karmed \in BOOLEAN
    /\ cq \in Seq(CqeType)
    /\ sent \in 0 .. MaxBytes
    /\ taken \in 0 .. sent
    /\ fin \in BOOLEAN
    /\ armed \in BOOLEAN
    /\ closed \in BOOLEAN
    /\ ws \in {"Connecting", "Open", "Closing"}
    /\ phase \in {"submit", "wait", "dispatch", "read", "recycle", "publish"}
    /\ buf \in Seq(CqeType)
    /\ index \in 0 .. Entries
    /\ first_err \in BOOLEAN
    /\ bundle \in BOOLEAN
    /\ delivered \in Seq(1 .. MaxBytes)
    /\ failed \in BOOLEAN

\* Until the connection fails, the parser is given the peer's bytes in order, none
\* skipped, none twice, none read from a buffer the kernel has written again
\* (for_each_recv_slice).
DeliveredInOrder == failed \/ \A i \in 1 .. Len(delivered) : delivered[i] = i

\* What bundles rely on: ring slot i always holds buffer i, because buffers
\* come back in the order in which the kernel took them.
SlotHoldsItsBuffer == \A i \in Bids : slot[i] = i

\* The buffers a pending CQE still covers; those of the CQE being handled that
\* were given back already are excluded.
HeldBy(c, from) == {SliceBid(c, i) : i \in from .. SliceCount(c) - 1}

Data(s) == {i \in 1 .. Len(s) : s[i].res = "data"}

\* Every buffer is either with the kernel or covered by exactly one pending CQE:
\* none is lost on any path (a parser error in the middle of a bundle, a
\* connection already Closed, end of stream) and none is given back twice.
EveryBufferOnce ==
    LET all == buf \o cq
        from(i) == IF i = 1 /\ buf # <<>> THEN index ELSE 0
        free == {slot[SlotAt(i)] : i \in 0 .. Available - 1}
    IN  /\ Available <= Entries
        /\ Cardinality(free) = Available
        /\ \A i \in Data(all) : HeldBy(all[i], from(i)) \cap free = {}
        /\ \A i, j \in Data(all) :
              i # j => HeldBy(all[i], from(i)) \cap HeldBy(all[j], from(j)) = {}
        /\ free \cup UNION {HeldBy(all[i], from(i)) : i \in Data(all)} = Bids

\* on_recv_cqe: after ENOBUFS the next receive cannot fail for want of buffers at
\* once, because everything received before it was given back.
RearmFindsFullRing ==
    [][~armed /\ armed' => Available = Entries]_vars


=============================================================================
