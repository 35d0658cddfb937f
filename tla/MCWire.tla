------------------------------- MODULE MCWire -------------------------------
EXTENDS Wire

Bytes(n) == [i \in 1 .. n |-> (37 * i) % 256]
Code(n) == <<n \div 256, n % 256>>

\* With Short = 3 and Base = 4: the last length of each form of the header and the
\* next one, payloads of whole blocks and not, control frames at and over their
\* limit, Close frames with codes at the ends of their ranges, fragments.
MCFrames ==
    [fin : {TRUE}, op : {Text}, payload : {Bytes(n) : n \in {0, 4, 15, 16}}]
    \cup [fin : {TRUE}, op : {Ping}, payload : {Bytes(3), Bytes(4)}]
    \cup [fin : {TRUE}, op : {Close}, payload : {Code(c) : c \in {1004, 1011}}]
    \cup [fin : {FALSE}, op : {Continuation}, payload : {Bytes(2)}]

\* A reserved bit, a reserved opcode, a mask, a fragmented and a long control frame, a
\* length that is not minimal in 2 and in 8 bytes, a length of 2 ^ 63.
MCRaws == {<<128 + 64 + Text, 0>>, <<128 + 3, 0>>, <<128 + Text, 128, 1, 2, 3, 3>>,
           <<Ping, 0>>, <<128 + Ping, 4, 1, 1>>, <<128 + Text, 4, 0, 3>>,
           <<128 + Text, 5, 0, 0, 0, 0, 0, 0, 3, 3>>, <<128 + Text, 5, 2, 0, 0, 0, 0, 0, 0, 0>>}

MCRandom == [n \in 1 .. MaxFrames * PoolBytes |-> (59 * n) % 256]

=============================================================================
