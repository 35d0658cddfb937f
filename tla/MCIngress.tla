----------------------------- MODULE MCIngress ------------------------------
EXTENDS Ingress

\* Three frames (over the capacity of a batch, and of an index); a message in
\* fragments and a control frame, perhaps a Close frame, between two; a message and
\* an error.
MCContents == {<<>>, <<"Text", "Binary", "Text">>, <<"Text", "Rest", "Control", "Binary">>,
               <<"Binary", "Bad">>}

MCSizes == {<<1>>, <<1, 1>>}

=============================================================================
