-------------------------------- MODULE Wire --------------------------------
(***************************************************************************)
(* Bytes: how a frame becomes bytes in the buffer to be sent, masked with a *)
(* key from the pool, how the bytes leave it in pieces, arrive in a         *)
(* CursorBuf, and become a frame again; and the three ways in which a       *)
(* header is read (parse_header, the fast one for complete data frames, the *)
(* streaming one).                                                          *)
(*                                                                         *)
(* In the role "client" the client writes the frames, and a peer that has   *)
(* all of one reads it with parse_header and unmasks it byte by byte.  In   *)
(* the role "server" the peer writes them, perhaps not as the protocol says, *)
(* and the client reads them with its streaming FrameParser.                *)
(*                                                                         *)
(* The widths are parameters: a length of at most Short (125) is in the     *)
(* second byte, one below Base * Base (2 ^ 16) in 2 bytes, any other in 8.  *)
(***************************************************************************)
EXTENDS ByteBuf

CONSTANTS
    Frames,       \* bound of the model: frames that may be written
    Raws,         \* bound of the model: what a peer may write instead of a header
    MaxFrames,    \* bound of the model: frames written
    Pieces,       \* bound of the model: bytes sent at a time, if not all of them
    Random,       \* the bytes that the random number generator gives, in order
    TxCapacity, RecvCapacity,   \* config.initial_tx_buffer_capacity, ..recv..
    PoolBytes,    \* MASK_POOL_BYTES
    Lanes,        \* bytes masked at a time: 8 (mask_scalar) or 32 (mask_avx2)
    Short,        \* the longest length in 7 bits
    Base          \* values of a byte of a length

\* OpCode
Continuation == 0
Text == 1
Binary == 2
Close == 8
Ping == 9
Pong == 10
OpCodes == {Continuation, Text, Binary, Close, Ping, Pong}
IsControl(op) == op \in {Close, Ping, Pong}

Byte == 0 .. 255

\* The longest length whose first bit of 64 is 0; a slice is never longer.
Longest == (Base \div 2) * Base * Base * Base * Base * Base * Base * Base - 1

ASSUME WireAssumption ==
    /\ Frames \subseteq [fin : BOOLEAN, op : OpCodes, payload : Seq(Byte)]
    /\ \A f \in Frames : Len(f.payload) <= Longest
    /\ Pieces \subseteq Nat
    /\ {TxCapacity, RecvCapacity} \subseteq Nat
    /\ MaxFrames \in Nat \ {0}
    /\ PoolBytes \in Nat /\ PoolBytes >= 4
    /\ Random \in [1 .. MaxFrames * PoolBytes -> Byte]
    /\ Lanes \in Nat \ {0} /\ Lanes % 4 = 0
    /\ Short \in 2 .. 125
    /\ Base \in Short .. 256

VARIABLES
    role,
    tx,           \* tx_buf, tx_head
    mask_pool,    \* a random byte is its place in Random
    mask_pool_cursor,
    recv_buf,
    parser,       \* FrameParser: what was gathered of a header, the header, the payload
    \* ghosts: the frames written and not yet read, with their keys; a header that is
    \* none follows them; how often the pool was filled; the places of the keys used
    written, broken, drawn, keys

maskVars == <<mask_pool, mask_pool_cursor, drawn, keys>>
vars == <<role, tx, maskVars, recv_buf, parser, written, broken>>

Prefix(s, n) == SubSeq(s, 1, n)

-----------------------------------------------------------------------------
(* Headers.                                                                 *)

\* n without its last k digits
Without(n, k) ==
    LET rest[i \in 0 .. k] == IF i = 0 THEN n ELSE rest[i - 1] \div Base
    IN  rest[k]

\* u16::to_be_bytes, u64::to_be_bytes, of bytes with Base values
ToBe(n, k) == [i \in 1 .. k |-> Without(n, k - i) % Base]

FromBe(s) ==
    LET value[i \in 0 .. Len(s)] == IF i = 0 THEN 0 ELSE Base * value[i - 1] + s[i]
    IN  value[Len(s)]

\* encode_header; mask is empty for None.
EncodeHeader(fin, op, mask, n) ==
    LET bit == IF mask = <<>> THEN 0 ELSE 128
        len == IF n <= Short THEN <<bit + n>>
               ELSE IF n < Base * Base THEN <<bit + Short + 1>> \o ToBe(n, 2)
               ELSE <<bit + Short + 2>> \o ToBe(n, 8)
    IN  <<IF fin THEN 128 + op ELSE op>> \o len \o mask

More == [result |-> "more"]
Bad == [result |-> "err"]

Rsv(b0) == (b0 % 128) \div 16 # 0
Masked(b1) == b1 >= 128
Len7(b1) == b1 % 128

\* header_size_from_byte1
LenField(b1) == IF Len7(b1) <= Short THEN 0 ELSE IF Len7(b1) = Short + 1 THEN 2 ELSE 8
HeaderSize(b1) == 2 + LenField(b1) + (IF Masked(b1) THEN 4 ELSE 0)

\* The length that a complete length field gives, and whether it is one: encoded in
\* as few bytes as it can be, and below 2 ^ 63.
PayloadLen(b) ==
    IF LenField(b[2]) = 0 THEN Len7(b[2]) ELSE FromBe(SubSeq(b, 3, 2 + LenField(b[2])))

LenOk(b) ==
    /\ LenField(b[2]) = 2 => PayloadLen(b) > Short
    /\ LenField(b[2]) = 8 => (b[3] < Base \div 2 /\ PayloadLen(b) >= Base * Base)

\* parse_header
ParseHeader(b) ==
    IF Len(b) < 2 THEN More
    ELSE IF Rsv(b[1]) \/ b[1] % 16 \notin OpCodes THEN Bad
    ELSE IF Len(b) < 2 + LenField(b[2]) THEN More
    ELSE IF ~LenOk(b) THEN Bad
    ELSE IF IsControl(b[1] % 16) /\ (b[1] < 128 \/ PayloadLen(b) > Short) THEN Bad
    ELSE IF Len(b) < HeaderSize(b[2]) THEN More
    ELSE [result |-> "ok", fin |-> b[1] >= 128, op |-> b[1] % 16, payload_len |-> PayloadLen(b),
          mask |-> SubSeq(b, 3 + LenField(b[2]), HeaderSize(b[2])), size |-> HeaderSize(b[2])]

\* Mutant: a length of 2 bytes may be short.
FastAnyLength(b) ==
    IF Len(b) < 2 THEN More
    ELSE IF Rsv(b[1]) \/ Masked(b[2]) THEN Bad
    ELSE IF b[1] < 128 \/ b[1] % 16 \in OpCodes \ {Text, Binary} THEN [result |-> "fallback"]
    ELSE IF b[1] % 16 \notin OpCodes THEN Bad
    ELSE IF LenField(b[2]) = 8 THEN [result |-> "fallback"]
    ELSE IF Len(b) < 2 + LenField(b[2]) THEN More
    ELSE [result |-> "ok", op |-> b[1] % 16, payload_len |-> PayloadLen(b),
          size |-> HeaderSize(b[2])]

\* parse_server_data_header_fast
FastHeader(b) ==
    IF Len(b) < 2 THEN More
    ELSE IF Rsv(b[1]) \/ Masked(b[2]) THEN Bad
    ELSE IF b[1] < 128 \/ b[1] % 16 \in OpCodes \ {Text, Binary} THEN [result |-> "fallback"]
    ELSE IF b[1] % 16 \notin OpCodes THEN Bad
    ELSE IF LenField(b[2]) = 8 THEN [result |-> "fallback"]
    ELSE IF Len(b) < 2 + LenField(b[2]) THEN More
    ELSE IF ~LenOk(b) THEN Bad
    ELSE [result |-> "ok", op |-> b[1] % 16, payload_len |-> PayloadLen(b),
          size |-> HeaderSize(b[2])]

\* FrameParser::feed_one, while it gathers a header; "unreachable" if parse_header
\* wants more than it gathered.
StreamHeader(b) ==
    IF Len(b) < 2 \/ Len(b) < HeaderSize(b[2]) THEN More
    ELSE LET h == ParseHeader(Prefix(b, HeaderSize(b[2])))
         IN  IF h.result = "more" THEN [result |-> "unreachable"]
             ELSE IF h.result = "ok" /\ h.mask # <<>> THEN Bad ELSE h

\* What the protocol allows: RFC 6455, 5.2 and 5.5.
Legal(fin, op, n) == n <= Longest /\ (IsControl(op) => (fin /\ n <= Short))

StartsWith(b, header) == Len(header) <= Len(b) /\ Prefix(b, Len(header)) = header

\* The bytes of a length have the values that Short and Base leave them; with 125 and 256
\* every byte has.
Scaled(b) ==
    /\ Len(b) >= 2 => Len7(b[2]) <= Short + 2
    /\ \A i \in 3 .. Len(b) : b[i] < Base

\* What a peer may write instead of a header begins with no header that it may write.
ASSUME RawsAssumption ==
    \A raw \in Raws :
        /\ raw \in Seq(Byte)
        /\ Scaled(raw)
        /\ \A fin \in BOOLEAN, op \in OpCodes :
              StartsWith(raw, <<IF fin THEN 128 + op ELSE op>>) =>
                  \A n \in 0 .. Longest :
                      Legal(fin, op, n) => ~StartsWith(raw, EncodeHeader(fin, op, <<>>, n))

-----------------------------------------------------------------------------
(* Masking and Close payloads.                                              *)

\* a ^ b, of the bits with weight w, and of bytes
XorBit(a, b, w) == IF (a \div w) % 2 = (b \div w) % 2 THEN 0 ELSE w

Xor(a, b) ==
    XorBit(a, b, 128) + XorBit(a, b, 64) + XorBit(a, b, 32) + XorBit(a, b, 16)
    + XorBit(a, b, 8) + XorBit(a, b, 4) + XorBit(a, b, 2) + XorBit(a, b, 1)

\* Mutant: the rest is masked with the first byte of the key.
MaskInplaceTail(bytes, key) ==
    LET blocks == Len(bytes) - (Len(bytes) % Lanes)
        wide == [i \in 1 .. Lanes |-> key[((i - 1) % 4) + 1]]
    IN  [i \in 1 .. Len(bytes) |->
            Xor(bytes[i], IF i <= blocks THEN wide[((i - 1) % Lanes) + 1] ELSE key[1])]

\* mask_scalar, mask_avx2: whole blocks of Lanes bytes with the key repeated, then the
\* rest, counted from the beginning of the key.
MaskInplace(bytes, key) ==
    LET blocks == Len(bytes) - (Len(bytes) % Lanes)
        wide == [i \in 1 .. Lanes |-> key[((i - 1) % 4) + 1]]
    IN  [i \in 1 .. Len(bytes) |->
            Xor(bytes[i], IF i <= blocks THEN wide[((i - 1) % Lanes) + 1]
                          ELSE key[((i - blocks - 1) % 4) + 1])]

\* What a peer does: RFC 6455, 5.3.
Unmask(bytes, key) ==
    IF key = <<>> THEN bytes
    ELSE [i \in 1 .. Len(bytes) |-> Xor(bytes[i], key[((i - 1) % 4) + 1])]

\* is_valid_endpoint_sent
IsValidEndpointSent(code) == code \in (1000 .. 1003) \cup (1007 .. 1011) \cup (3000 .. 4999)

\* is_valid_received
IsValidReceived(code) == code \in (1000 .. 1003) \cup (1007 .. 1011) \cup (3000 .. 4999)

CodeOf(payload) == 256 * payload[1] + payload[2]

\* parse_close_payload; the reason is UTF-8 (module WsClient has one that is not).
ParseClosePayload(payload) ==
    IF payload = <<>> THEN "none"
    ELSE IF Len(payload) = 1 \/ ~IsValidReceived(CodeOf(payload)) THEN "err" ELSE "code"

-----------------------------------------------------------------------------
(* Writing.                                                                 *)

\* SystemRandom::fill, after n times: the next bytes of Random, by their places.
Fill(n) == [i \in 1 .. PoolBytes |-> n * PoolBytes + i]

Exhausted == mask_pool_cursor + 4 > PoolBytes

\* Mutant: the pool is read again from its beginning.
PoolAgain == mask_pool

\* The pool that next_mask reads
Pool == IF Exhausted THEN Fill(drawn) ELSE mask_pool

\* next_mask: the places of the key, and the key
NextPlaces == [i \in 1 .. 4 |-> Pool[(IF Exhausted THEN 0 ELSE mask_pool_cursor) + i]]
NextMask == [i \in 1 .. 4 |-> Random[NextPlaces[i]]]

\* send_text, send_binary, send_ping, send_pong, send_close: what they refuse; the
\* client does not fragment.
Sendable(f) ==
    /\ f.fin
    /\ f.op # Continuation
    /\ IsControl(f.op) => Len(f.payload) <= Short
    /\ f.op = Close => (Len(f.payload) >= 2 /\ IsValidEndpointSent(CodeOf(f.payload)))

HeaderOf(f, key) == EncodeHeader(f.fin, f.op, key, Len(f.payload))

\* write_frame
WriteFrame(f) ==
    LET header == HeaderOf(f, NextMask)
        payload == MaskInplace(f.payload, NextMask)
        room == CompactIfNeeded(tx, Len(header) + Len(payload))
    IN  /\ role = "client"
        /\ Sendable(f)
        /\ Len(keys) < MaxFrames
        /\ mask_pool' = Pool
        /\ mask_pool_cursor' = 4 + (IF Exhausted THEN 0 ELSE mask_pool_cursor)
        /\ drawn' = IF Exhausted THEN drawn + 1 ELSE drawn
        /\ keys' = Append(keys, NextPlaces)
        /\ tx' = Push(Push(room, header), payload)
        /\ written' = Append(written, [frame |-> f, key |-> NextMask, bytes |-> header \o payload])
        /\ UNCHANGED <<role, recv_buf, parser, broken>>

\* The peer writes a frame; keys counts them.
PeerFrame(f) ==
    LET bytes == HeaderOf(f, <<>>) \o f.payload
    IN  /\ role = "server"
        /\ ~broken
        /\ Len(keys) < MaxFrames
        /\ Legal(f.fin, f.op, Len(f.payload))
        /\ tx' = Push(tx, bytes)
        /\ keys' = Append(keys, <<>>)
        /\ written' = Append(written, [frame |-> f, key |-> <<>>, bytes |-> bytes])
        /\ UNCHANGED <<role, mask_pool, mask_pool_cursor, drawn, recv_buf, parser, broken>>

\* The peer writes what is not a header.
PeerBreaks(raw) ==
    /\ role = "server"
    /\ ~broken
    /\ broken' = TRUE
    /\ tx' = Push(tx, raw)
    /\ UNCHANGED <<role, maskVars, recv_buf, parser, written>>

-----------------------------------------------------------------------------
(* Reading.                                                                 *)

\* n bytes are sent, ack_tx, and received, feed_recv.
Transfer(n) ==
    /\ n \in 1 .. BufLen(tx)
    /\ recv_buf' = Extend(recv_buf, Prefix(AsSlice(tx), n))
    /\ tx' = Consume(tx, n)
    /\ UNCHANGED <<role, maskVars, parser, written, broken>>

\* ParserState::Idle
Idle == [partial |-> <<>>, header |-> More, payload |-> <<>>]

\* feed_one without a header: it gathers 2 bytes, then as many as the second one says,
\* and reads them.  A header that is refused ends the connection, before advance_frame
\* consumes what was gathered of it.
FeedHeader ==
    LET all == parser.partial \o AsSlice(recv_buf)
        want == IF Len(all) < 2 THEN 2 ELSE HeaderSize(all[2])
        have == Prefix(all, IF want <= Len(all) THEN want ELSE Len(all))
    IN  /\ role = "server"
        /\ parser.header = More
        /\ BufLen(recv_buf) > 0
        /\ recv_buf' = IF StreamHeader(have) = Bad THEN recv_buf
                       ELSE Consume(recv_buf, Len(have) - Len(parser.partial))
        /\ parser' = [partial |-> have, header |-> StreamHeader(have), payload |-> parser.payload]
        /\ UNCHANGED <<role, tx, maskVars, written, broken>>

\* feed_one with a header: the next piece of the payload.
FeedPayload ==
    LET remaining == parser.header.payload_len - Len(parser.payload)
        take == IF remaining <= BufLen(recv_buf) THEN remaining ELSE BufLen(recv_buf)
    IN  /\ parser.header.result = "ok"
        /\ take > 0
        /\ recv_buf' = Consume(recv_buf, take)
        /\ parser' = [parser EXCEPT !.payload = @ \o Prefix(AsSlice(recv_buf), take)]
        /\ UNCHANGED <<role, tx, maskVars, written, broken>>

\* feed_one at the end of the payload: FrameEnd.
FeedEnd ==
    /\ parser.header.result = "ok"
    /\ Len(parser.payload) = parser.header.payload_len
    /\ parser' = Idle
    /\ written' = IF written = <<>> THEN written ELSE Tail(written)
    /\ UNCHANGED <<role, tx, maskVars, recv_buf, broken>>

\* The frame of the client that the peer has received, if it has all of one.
Arrived ==
    LET b == AsSlice(recv_buf)
        h == ParseHeader(b)
        size == h.size + h.payload_len
    IN  IF role = "server" \/ h.result # "ok" THEN {}
        ELSE IF Len(b) < size THEN {}
        ELSE {[frame |-> [fin |-> h.fin, op |-> h.op,
                          payload |-> Unmask(SubSeq(b, h.size + 1, size), h.mask)],
               key |-> h.mask, size |-> size]}

\* The peer reads it.
PeerReads ==
    \E f \in Arrived :
        /\ recv_buf' = Consume(recv_buf, f.size)
        /\ written' = IF written = <<>> THEN written ELSE Tail(written)
        /\ UNCHANGED <<role, tx, maskVars, parser, broken>>

Init ==
    /\ role \in {"client", "server"}
    /\ tx = WithCapacity(TxCapacity)
    /\ mask_pool = Fill(0)
    /\ mask_pool_cursor = 0
    /\ recv_buf = WithCapacity(RecvCapacity)
    /\ parser = Idle
    /\ written = <<>>
    /\ broken = FALSE
    /\ drawn = 1
    /\ keys = <<>>

Next ==
    \/ \E f \in Frames : WriteFrame(f) \/ PeerFrame(f)
    \/ \E raw \in Raws : PeerBreaks(raw)
    \/ \E n \in Pieces \cup {BufLen(tx)} : Transfer(n)
    \/ FeedHeader \/ FeedPayload \/ FeedEnd
    \/ PeerReads

Spec == Init /\ [][Next]_vars

-----------------------------------------------------------------------------
(* Properties.                                                              *)

\* The types of the state; a cursor is within its buffer, at 0 if it is empty, and a
\* buffer is within its capacity.
TypeOK ==
    /\ role \in {"client", "server"}
    /\ \A b \in {tx, recv_buf} :
          /\ BufOK(b)
          /\ \A i \in 1 .. Len(b.data) : b.data[i] \in Byte
    /\ mask_pool_cursor \in 0 .. PoolBytes
    /\ broken => role = "server"

\* The bytes of frames, in order
BytesOf(frames) ==
    LET known[i \in 0 .. Len(frames)] ==
            IF i = 0 THEN <<>> ELSE known[i - 1] \o frames[i].bytes
    IN  known[Len(frames)]

\* What the reader has taken of a frame, what has arrived and what is to be sent
OnTheWay == parser.partial \o parser.payload \o AsSlice(recv_buf) \o AsSlice(tx)

\* The bytes of the frames that are written and not yet read are those that the parser
\* has taken of one and those of the two buffers, in order: no compaction, growth or
\* reset of a buffer loses, repeats or moves a byte, whatever pieces the bytes leave and
\* arrive in.
StreamIntact ==
    IF broken THEN StartsWith(OnTheWay, BytesOf(written)) ELSE OnTheWay = BytesOf(written)

\* What is read is the frame that was written, also at the lengths where the header
\* grows, with its payload unmasked; a header that the protocol does not allow is not
\* read as one, and one that it allows is never refused.  A Close frame that send_close
\* lets through has a payload that parse_close_payload takes.
ReadAsWritten ==
    /\ \A f \in Arrived :
          /\ written # <<>>
          /\ f.frame = Head(written).frame
          /\ f.key = Head(written).key
          /\ f.frame.op = Close => ParseClosePayload(f.frame.payload) = "code"
    /\ parser.header.result = "ok" =>
          /\ written # <<>>
          /\ LET f == Head(written).frame
                 h == parser.header
             IN  <<h.fin, h.op, h.payload_len>> = <<f.fin, f.op, Len(f.payload)>>
    /\ parser.header.result = "err" => (broken /\ written = <<>>)

\* On what has arrived of a header and after it, the three ways to read one agree: what
\* the fast one takes, the others take alike, what it refuses no other takes, it takes
\* every unfragmented data frame but those with 64-bit lengths; the streaming one never
\* gathers less than parse_header wants (the unreachable! of feed_one); and an answer
\* other than "more" is the same one byte later.
HeadersAgree ==
    LET b == parser.partial \o AsSlice(recv_buf)
        before == Prefix(b, Len(b) - 1)
        p == ParseHeader(b)
        f == FastHeader(b)
        s == StreamHeader(b)
        same == <<s.op, s.payload_len, s.size>> = <<f.op, f.payload_len, f.size>>
    IN  (parser.header = More /\ b # <<>>) =>
            /\ s.result # "unreachable"
            /\ (s.result = "ok") = (p.result = "ok" /\ p.mask = <<>>)
            /\ f.result = "ok" => (s.result = "ok" /\ s.fin /\ same)
            /\ f.result = "err" => s.result \in {"more", "err"}
            /\ (s.result = "ok" /\ s.fin /\ s.op \in {Text, Binary} /\ s.size < 10) =>
                  f.result = "ok"
            /\ ParseHeader(before).result # "more" => ParseHeader(before) = p
            /\ FastHeader(before).result # "more" => FastHeader(before) = f

\* No two frames are masked with the same random bytes: the pool is drawn anew before
\* any of it is used again.
MaskKeysFresh ==
    role = "client" =>
        \A i, j \in 1 .. Len(keys) : i # j =>
            {keys[i][k] : k \in 1 .. 4} \cap {keys[j][k] : k \in 1 .. 4} = {}

=============================================================================
