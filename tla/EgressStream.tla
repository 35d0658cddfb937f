---------------------------- MODULE EgressStream ----------------------------
(***************************************************************************)
(* What the send path of a connection promises: the bytes the WebSocket    *)
(* client writes leave the socket in the order in which they were written, *)
(* none lost, none twice, however sends are split and whatever TLS adds in *)
(* between.  Nothing is promised once the connection has failed.           *)
(***************************************************************************)
EXTENDS Naturals, Sequences

CONSTANT Byte

VARIABLES
    waiting,    \* bytes written that have not left yet
    wire,       \* bytes that have left
    broken      \* the connection has failed

Init == waiting = <<>> /\ wire = <<>> /\ ~broken

Write ==
    /\ \E n \in 1 .. 2 : \E frame \in [1 .. n -> Byte] : waiting' = waiting \o frame
    /\ UNCHANGED wire

Transmit ==
    \E n \in 1 .. Len(waiting) :
        /\ wire' = wire \o SubSeq(waiting, 1, n)
        /\ waiting' = SubSeq(waiting, n + 1, Len(waiting))

\* An intact connection writes, transmits or breaks; a broken one does anything.
Next ==
    \/ ~broken /\ ~broken' /\ (Write \/ Transmit)
    \/ broken'

Spec == Init /\ [][Next]_<<waiting, wire, broken>>

=============================================================================
