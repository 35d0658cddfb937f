----------------------------- MODULE MCWsClient -----------------------------
(* Small instances of WsClient for TLC. *)
EXTENDS WsClient

F(op, fin, len, wide, bad) == [op |-> op, fin |-> fin, len |-> len, wide |-> wide, bad |-> bad]

Text == F("Text", TRUE, 1, FALSE, "no")
Wide == F("Binary", TRUE, 1, TRUE, "no")
Ping == F("Ping", TRUE, 1, FALSE, "no")
First == F("Text", FALSE, 1, FALSE, "no")
Last == F("Cont", TRUE, 1, FALSE, "no")

Others == { F("Pong", TRUE, 0, FALSE, "no"), F("Cont", FALSE, 0, FALSE, "no") }

\* Each way in which a frame can end the connection, alone or after fragments.
Ending ==
    { F("Close", TRUE, 0, FALSE, "no"), F("Close", TRUE, 1, FALSE, "payload"),
      F("Text", TRUE, 1, FALSE, "payload"), F("Cont", TRUE, 1, FALSE, "payload"),
      F("Text", TRUE, 0, FALSE, "header"), F("Text", FALSE, 0, FALSE, "late"),
      F("Ping", FALSE, 0, TRUE, "no"),
      F("Binary", TRUE, 3, FALSE, "no"), F("Cont", TRUE, 2, FALSE, "no") }

\* Three frames are what a control frame between two fragments takes.  Nothing is read
\* after a frame that ends the connection, so it comes last, or before one other frame.
MCScripts ==
    {<<a, b, c>> : a \in {Text, Ping, First}, b \in {Text, Wide, Ping, First, Last} \cup Others,
                   c \in {Text, Ping, Last} \cup Ending}
        \cup {<<b, c>> : b \in {Wide, Last} \cup Others \cup Ending, c \in {Text, Ping}}

\* A message and a Ping, in either order.
FewScripts == {<<Text, Ping>>, <<Ping, Text>>}
=============================================================================
