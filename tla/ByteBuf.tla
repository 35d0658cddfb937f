------------------------------ MODULE ByteBuf -------------------------------
(***************************************************************************)
(* A buffer of bytes that is read at a cursor: CursorBuf, which holds what  *)
(* was received, and the pair tx_buf, tx_head of the WebSocket client,      *)
(* which holds what is to be sent.  What was read stays in front of head    *)
(* until the buffer is empty, or until it would have to grow.               *)
(***************************************************************************)
EXTENDS Integers, Sequences

\* data: Vec<u8> and its capacity, head
Buf == [data : Seq(Nat), head : Nat, capacity : Nat]

\* What every operation keeps: the cursor is within the data, which are within the
\* capacity, and a buffer that is empty is reset.
BufOK(b) ==
    /\ b \in Buf
    /\ b.head <= Len(b.data)
    /\ b.head = Len(b.data) => b.head = 0
    /\ Len(b.data) <= b.capacity

\* CursorBuf::with_capacity
WithCapacity(n) == [data |-> <<>>, head |-> 0, capacity |-> n]

\* CursorBuf::as_slice, WsClient::pending_tx
AsSlice(b) == SubSeq(b.data, b.head + 1, Len(b.data))

\* CursorBuf::len
BufLen(b) == Len(b.data) - b.head

\* CursorBuf::compact
Compact(b) == [data |-> AsSlice(b), head |-> 0, capacity |-> b.capacity]

\* Mutant: the cursor stays where it was.
CompactIfNeededKeep(b, extra) ==
    IF Len(b.data) + extra > b.capacity /\ b.head > 0 THEN [Compact(b) EXCEPT !.head = b.head] ELSE b

\* WsClient::compact_tx_if_needed, and the beginning of CursorBuf::extend_from_slice
CompactIfNeeded(b, extra) ==
    IF Len(b.data) + extra > b.capacity /\ b.head > 0 THEN Compact(b) ELSE b

\* Vec::extend_from_slice, which doubles the capacity if it must grow
Push(b, bytes) ==
    LET need == Len(b.data) + Len(bytes)
        grown == IF need > 2 * b.capacity THEN need ELSE 2 * b.capacity
    IN  [data |-> b.data \o bytes, head |-> b.head,
         capacity |-> IF need <= b.capacity THEN b.capacity ELSE grown]

\* CursorBuf::extend_from_slice
Extend(b, bytes) == IF bytes = <<>> THEN b ELSE Push(CompactIfNeeded(b, Len(bytes)), bytes)

\* Mutant: a buffer that is empty keeps what was read of it.
ConsumeOnly(b, n) == [data |-> b.data, head |-> b.head + n, capacity |-> b.capacity]

\* CursorBuf::consume, WsClient::ack_tx
Consume(b, n) ==
    IF b.head + n = Len(b.data) THEN WithCapacity(b.capacity)
    ELSE [data |-> b.data, head |-> b.head + n, capacity |-> b.capacity]

=============================================================================
