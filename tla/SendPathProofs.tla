--------------------------- MODULE SendPathProofs ---------------------------
(***************************************************************************)
(* What the send path promises, for every number of bytes, replies and      *)
(* failures: TLS records leave in the order in which rustls made them,      *)
(* send_buf does not change under a Send, and the whole path implements     *)
(* EgressStream.                                                            *)
(***************************************************************************)
EXTENDS SendPath, BasicLemmas

\* send_inflight says whether the kernel has a Send; what it has is a prefix of
\* send_buf, the head of which is 0 until the CQE is handled.
OpInv ==
    /\ op.from = 0
    /\ op.state = "none" <=> ~send_inflight
    /\ op.state # "none" => /\ send_head = 0
                            /\ op.len \in 1 .. Len(send_buf)

\* How many records rustls can have made: one per byte and reply, and those of tx_buf
\* once more per failure.
MadeInv ==
    /\ Len(tx) <= written
    /\ made + Len(tx) <= 1 + replies + written + failures * MaxBytes

\* A connection that has not failed is not Closed and no Send of it has failed;
\* without TLS there is no ciphertext.
FailInv ==
    /\ failures = 0 => ~closed /\ op.state # "failed"
    /\ ~tls => rustls = <<>>

\* Until the connection fails, every record made is on its way or has left.
RecordInv == tls /\ failures = 0 => Len(Ciphertext) = made

CoreInv == TypeOK /\ OpInv /\ MadeInv /\ FailInv

SendInv == CoreInv /\ RecordsInOrder /\ RecordInv

-----------------------------------------------------------------------------
(* The types of what the actions build.                                     *)

\* The bound of MadeInv is within MaxRecords.
LEMMA RecordBound ==
    ASSUME NEW m \in Nat, NEW t \in Nat, NEW r \in 0 .. MaxReplies,
           NEW w \in 0 .. MaxBytes, NEW f \in 0 .. MaxFailures,
           m + t <= 1 + r + w + f * MaxBytes
    PROVE  MaxRecords \in Nat /\ m + t <= MaxRecords
<1>1. /\ MaxBytes \in Nat /\ MaxReplies \in Nat /\ MaxFailures \in Nat
      /\ f \in Nat /\ f <= MaxFailures /\ w <= MaxBytes /\ r <= MaxReplies
  BY SendPathAssumption
<1>2. f * MaxBytes <= MaxFailures * MaxBytes /\ f * MaxBytes \in Nat
  BY <1>1, Product
<1>3. (MaxFailures + 1) * MaxBytes = MaxFailures * MaxBytes + MaxBytes
      /\ MaxFailures * MaxBytes \in Nat
  BY <1>1, Product
<1>4. MaxRecords = MaxFailures * MaxBytes + MaxBytes + MaxReplies + 1
  BY <1>1, <1>3 DEF MaxRecords
<1>5. m + t <= 1 + MaxReplies + MaxBytes + f * MaxBytes
  BY <1>1, <1>2
<1> QED  BY <1>1, <1>2, <1>3, <1>4, <1>5

\* MadeInv keeps the records to come within MaxRecords.
LEMMA MadeBound ==
    ASSUME TypeOK, MadeInv
    PROVE  /\ Len(tx) \in Nat /\ made \in Nat /\ MaxRecords \in Nat
           /\ made + Len(tx) <= MaxRecords
<1>1. Len(tx) \in Nat
  BY LenProperties DEF TypeOK
<1>2. /\ made \in Nat /\ replies \in 0 .. MaxReplies /\ written \in 0 .. MaxBytes
      /\ failures \in 0 .. MaxFailures
  BY SendPathAssumption DEF TypeOK
<1>3. made + Len(tx) <= 1 + replies + written + failures * MaxBytes
  BY DEF MadeInv
<1> QED  BY <1>1, <1>2, <1>3, RecordBound

\* The units made of the bytes of q, numbered after record k.
Records(k, q) == [i \in 1 .. Len(q) |-> Unit(k + i, q[i])]

Plaintext(q) == [i \in 1 .. Len(q) |-> Unit(0, q[i])]

LEMMA UnitFields == \A k, b : Unit(k, b).rec = k /\ Unit(k, b).byte = b
BY DEF Unit

LEMMA RecordsType ==
    ASSUME NEW k \in Nat, NEW q \in Seq(1 .. MaxBytes), MaxRecords \in Nat,
           k + Len(q) <= MaxRecords
    PROVE  /\ Records(k, q) \in Seq(UnitType)
           /\ Len(Records(k, q)) = Len(q)
           /\ \A i \in 1 .. Len(q) : Records(k, q)[i] = Unit(k + i, q[i])
<1>1. Len(q) \in Nat /\ MaxBytes \in Nat
  BY LenProperties, SendPathAssumption
<1>2. ASSUME NEW i \in 1 .. Len(q) PROVE Unit(k + i, q[i]) \in UnitType
  <2>1. k + i \in 0 .. MaxRecords
    BY <1>1
  <2>2. q[i] \in 0 .. MaxBytes
    BY <1>1, ElementOfSeq
  <2> QED  BY <2>1, <2>2 DEF Unit, UnitType
<1>3. Records(k, q) \in [1 .. Len(q) -> UnitType]
  BY <1>2 DEF Records
<1> QED  BY <1>1, <1>3 DEF Records

LEMMA PlaintextType ==
    ASSUME NEW q \in Seq(1 .. MaxBytes), MaxRecords \in Nat
    PROVE  /\ Plaintext(q) \in Seq(UnitType)
           /\ Len(Plaintext(q)) = Len(q)
           /\ \A i \in 1 .. Len(q) : Plaintext(q)[i] = Unit(0, q[i])
<1>1. Len(q) \in Nat /\ MaxBytes \in Nat
  BY LenProperties, SendPathAssumption
<1>2. ASSUME NEW i \in 1 .. Len(q) PROVE Unit(0, q[i]) \in UnitType
  <2>1. 0 \in 0 .. MaxRecords
    OBVIOUS
  <2>2. q[i] \in 0 .. MaxBytes
    BY <1>1, ElementOfSeq
  <2> QED  BY <2>1, <2>2 DEF Unit, UnitType
<1>3. Plaintext(q) \in [1 .. Len(q) -> UnitType]
  BY <1>2 DEF Plaintext
<1> QED  BY <1>1, <1>3 DEF Plaintext

\* What egress_plaintext makes of the bytes of q.
LEMMA EgressType ==
    ASSUME TypeOK, NEW q \in Seq(1 .. MaxBytes), MaxRecords \in Nat,
           made + Len(q) <= MaxRecords
    PROVE  /\ Egress(q) \in Seq(UnitType)
           /\ Egress(q) = IF tls THEN rustls \o Records(made, q) ELSE Plaintext(q)
<1>1. Egress(q) = IF tls THEN rustls \o Records(made, q) ELSE Plaintext(q)
  BY DEF Egress, Records, Plaintext
<1>2. made \in Nat /\ rustls \in Seq(UnitType)
  BY DEF TypeOK
<1>3. Records(made, q) \in Seq(UnitType) /\ Plaintext(q) \in Seq(UnitType)
  BY <1>2, RecordsType, PlaintextType
<1>4. rustls \o Records(made, q) \in Seq(UnitType)
  BY <1>2, <1>3, Cat
<1> QED  BY <1>1, <1>3, <1>4

\* What is left of send_buf, and what try_submit_send gathers.
LEMMA CompactedType ==
    ASSUME TypeOK
    PROVE  Compacted \in Seq(UnitType) /\ Len(Compacted) = Len(send_buf) - send_head
<1>1. send_buf \in Seq(UnitType) /\ send_head \in 0 .. Len(send_buf)
  BY DEF TypeOK
<1> QED  BY <1>1, Split DEF Compacted

LEMMA StagedType ==
    ASSUME TypeOK, MadeInv
    PROVE  /\ Egress(tx) \in Seq(UnitType)
           /\ Compacted \o tls_pending_out \in Seq(UnitType)
           /\ Staged = (Compacted \o tls_pending_out) \o Egress(tx)
           /\ Staged \in Seq(UnitType)
           /\ Len(Staged) \in Nat
<1>1. tx \in Seq(1 .. MaxBytes) /\ tls_pending_out \in Seq(UnitType)
  BY DEF TypeOK
<1>2. Egress(tx) \in Seq(UnitType)
  BY <1>1, MadeBound, EgressType
<1>3. Compacted \o tls_pending_out \in Seq(UnitType)
  BY <1>1, CompactedType, Cat
<1>4. Staged = (Compacted \o tls_pending_out) \o Egress(tx)
  BY DEF Staged
<1>5. (Compacted \o tls_pending_out) \o Egress(tx) \in Seq(UnitType)
  BY <1>2, <1>3, Cat
<1> QED  BY <1>2, <1>3, <1>4, <1>5, LenProperties

-----------------------------------------------------------------------------
(* Types and bookkeeping: CoreInv is inductive.                             *)

LEMMA CoreInit == Init => CoreInv
<1> SUFFICES ASSUME Init PROVE CoreInv
  OBVIOUS
<1>1. 0 \in Nat /\ MaxRecords \in Nat /\ 1 <= MaxRecords
  <2>1. 0 * MaxBytes = 0 /\ MaxReplies \in Nat /\ MaxBytes \in Nat /\ MaxFailures \in Nat
    BY SendPathAssumption
  <2>2. 0 \in 0 .. MaxReplies /\ 0 \in 0 .. MaxBytes /\ 0 \in 0 .. MaxFailures
    BY <2>1
  <2>3. 1 + 0 <= 1 + 0 + 0 + 0 * MaxBytes
    BY <2>1
  <2>4. MaxRecords \in Nat /\ 1 + 0 <= MaxRecords
    BY <2>2, <2>3, RecordBound
  <2> QED  BY <2>4
<1>2. Unit(1, 0) \in UnitType
  BY <1>1, SendPathAssumption DEF Unit, UnitType
<1>3. rustls \in Seq(UnitType)
  BY <1>2, Single, EmptySeq DEF Init
<1>4. TypeOK
  <2>1. /\ MaxBytes \in Nat /\ MaxReplies \in Nat /\ MaxFailures \in Nat
        /\ tls \in BOOLEAN /\ Len(send_buf) = 0 /\ made \in 0 .. MaxRecords
    BY <1>1, SendPathAssumption, EmptySeq DEF Init
  <2>2. /\ tx \in Seq(1 .. MaxBytes) /\ tls_pending_out \in Seq(UnitType)
        /\ send_buf \in Seq(UnitType) /\ wire \in Seq(UnitType)
    BY EmptySeq DEF Init
  <2>3. op \in [state : {"none", "sending", "sent", "failed"}, from : Nat, len : Nat]
    BY DEF Init, NoOp
  <2>4. send_inflight \in BOOLEAN /\ closed \in BOOLEAN
    BY DEF Init
  <2>5. send_head = 0 /\ written = 0 /\ replies = 0 /\ failures = 0
    BY DEF Init
  <2>6. /\ send_head \in 0 .. Len(send_buf) /\ written \in 0 .. MaxBytes
        /\ replies \in 0 .. MaxReplies /\ failures \in 0 .. MaxFailures
    BY <2>1, <2>5
  <2> QED  BY <1>3, <2>1, <2>2, <2>3, <2>4, <2>6 DEF TypeOK
<1>5. OpInv
  BY DEF Init, OpInv, NoOp
<1>6. MadeInv
  <2>1. Len(tx) = 0 /\ failures * MaxBytes = 0
    BY SendPathAssumption, EmptySeq DEF Init
  <2> QED  BY <2>1 DEF Init, MadeInv
<1>7. FailInv
  BY DEF Init, FailInv, NoOp
<1> QED  BY <1>4, <1>5, <1>6, <1>7 DEF CoreInv

\* The numbers that the steps below calculate with.
Nums ==
    /\ Len(tx) \in Nat /\ made \in Nat /\ MaxRecords \in Nat
    /\ made + Len(tx) <= MaxRecords
    /\ written \in Nat /\ replies \in Nat /\ failures \in Nat
    /\ written <= MaxBytes /\ replies <= MaxReplies /\ failures <= MaxFailures
    /\ MaxBytes \in Nat /\ MaxReplies \in Nat /\ MaxFailures \in Nat
    /\ MaxLen \in Nat /\ MaxLen > 0
    /\ Len(send_buf) \in Nat

LEMMA CoreNums ==
    ASSUME CoreInv
    PROVE  Nums
<1>1. TypeOK /\ MadeInv
  BY DEF CoreInv
<1>2. /\ written \in Nat /\ replies \in Nat /\ failures \in Nat
      /\ written <= MaxBytes /\ replies <= MaxReplies /\ failures <= MaxFailures
      /\ MaxBytes \in Nat /\ MaxReplies \in Nat /\ MaxFailures \in Nat /\ MaxLen \in Nat
      /\ MaxLen > 0
  BY <1>1, SendPathAssumption DEF TypeOK
<1>3. Len(send_buf) \in Nat
  BY <1>1, LenProperties DEF TypeOK
<1> QED  BY <1>1, <1>2, <1>3, MadeBound DEF Nums

LEMMA WriteFrameCore ==
    ASSUME CoreInv, WriteFrame
    PROVE  CoreInv'
<1>0. Nums
  BY CoreNums
<1>1. PICK n \in 1 .. 2 : /\ written + n <= MaxBytes
                          /\ tx' = tx \o [i \in 1 .. n |-> written + i]
                          /\ written' = written + n
  BY DEF WriteFrame
<1>2. UNCHANGED <<tls, tlsVars, bufVars, send_inflight, closed, op, wire, failures>>
  BY DEF WriteFrame
<1> DEFINE frame == [i \in 1 .. n |-> written + i]
<1>3. frame \in Seq(1 .. MaxBytes) /\ Len(frame) = n
  <2>1. frame \in [1 .. n -> 1 .. MaxBytes]
    BY <1>0, <1>1 DEF Nums
  <2> QED  BY <2>1
<1>4. tx' = tx \o frame
  BY <1>1
<1>5. tx \in Seq(1 .. MaxBytes)
  BY DEF CoreInv, TypeOK
<1> HIDE DEF frame
<1>6. tx' \in Seq(1 .. MaxBytes) /\ Len(tx') = Len(tx) + n
  BY <1>3, <1>4, <1>5, Cat
<1>7. TypeOK'
  BY <1>0, <1>1, <1>2, <1>6 DEF Nums, CoreInv, TypeOK, tlsVars, bufVars
<1>8. OpInv'
  BY <1>2 DEF CoreInv, OpInv, bufVars
<1>9. MadeInv'
  <2>1. failures' = failures /\ made' = made /\ replies' = replies
    BY <1>2 DEF tlsVars
  <2>2. Len(tx) <= written /\ made + Len(tx) <= 1 + replies + written + failures * MaxBytes
    BY DEF CoreInv, MadeInv
  <2>3. Len(tx') <= written'
    BY <1>0, <1>1, <1>6, <2>2 DEF Nums
  <2>4. made' + Len(tx') <= 1 + replies' + written' + failures * MaxBytes
    BY <1>0, <1>1, <1>6, <2>1, <2>2 DEF Nums
  <2> QED  BY <2>1, <2>3, <2>4 DEF MadeInv
<1>10. FailInv'
  BY <1>2 DEF CoreInv, FailInv, tlsVars
<1> QED  BY <1>7, <1>8, <1>9, <1>10 DEF CoreInv

LEMMA IngestCore ==
    ASSUME CoreInv, Ingest
    PROVE  CoreInv'
<1>0. Nums
  BY CoreNums
<1>1. /\ tls /\ replies < MaxReplies /\ replies' = replies + 1 /\ made' = made + 1
      /\ tls_pending_out' = (tls_pending_out \o rustls) \o <<Unit(made + 1, 0)>>
      /\ rustls' = <<>>
      /\ UNCHANGED <<tls, wsVars, send_buf, send_head, send_inflight, closed, op, wire, failures>>
  BY DEF Ingest
<1>2. MadeInv'
  <2>1. failures' = failures /\ written' = written /\ tx' = tx
    BY <1>1 DEF wsVars
  <2>2. Len(tx) <= written /\ made + Len(tx) <= 1 + replies + written + failures * MaxBytes
    BY DEF CoreInv, MadeInv
  <2>3. made' + Len(tx') <= 1 + replies' + written' + failures * MaxBytes
    BY <1>0, <1>1, <2>1, <2>2 DEF Nums
  <2> QED  BY <2>1, <2>2, <2>3 DEF MadeInv
<1>3. made + 1 <= MaxRecords
  <2>1. /\ made' \in Nat /\ Len(tx) \in Nat /\ replies' \in 0 .. MaxReplies
        /\ written \in 0 .. MaxBytes /\ failures \in 0 .. MaxFailures
    BY <1>0, <1>1 DEF Nums, CoreInv, TypeOK
  <2>2. made' + Len(tx) <= 1 + replies' + written + failures * MaxBytes
    BY <1>1, <1>2 DEF MadeInv, wsVars
  <2>3. made' + Len(tx) <= MaxRecords
    BY <2>1, <2>2, RecordBound
  <2> QED  BY <1>0, <1>1, <2>1, <2>3 DEF Nums
<1>4. Unit(made + 1, 0) \in UnitType
  BY <1>0, <1>3 DEF Nums, Unit, UnitType
<1>5. tls_pending_out \in Seq(UnitType) /\ rustls \in Seq(UnitType)
  BY DEF CoreInv, TypeOK
<1>6. tls_pending_out \o rustls \in Seq(UnitType)
  BY <1>5, Cat
<1>7. <<Unit(made + 1, 0)>> \in Seq(UnitType)
  BY <1>4, Single
<1>8. (tls_pending_out \o rustls) \o <<Unit(made + 1, 0)>> \in Seq(UnitType)
  BY <1>6, <1>7, Cat
<1>9. rustls' \in Seq(UnitType)
  BY <1>1, EmptySeq
<1>10. TypeOK'
  BY <1>0, <1>1, <1>3, <1>8, <1>9 DEF Nums, CoreInv, TypeOK, wsVars
<1>11. OpInv'
  BY <1>1 DEF CoreInv, OpInv
<1>12. FailInv'
  BY <1>1 DEF CoreInv, FailInv
<1> QED  BY <1>2, <1>10, <1>11, <1>12 DEF CoreInv

\* A failure leaves room for the bytes of tx_buf to be encrypted once more.
LEMMA FailMade ==
    ASSUME CoreInv, Fail, UNCHANGED <<wsVars, replies>>,
           NEW n \in Nat, n <= Len(tx), made' = made + n
    PROVE  MadeInv'
<1>0. Nums
  BY CoreNums
<1>1. failures' = failures + 1 /\ written' = written /\ tx' = tx /\ replies' = replies
  BY DEF Fail, wsVars
<1>2. Len(tx) <= written /\ made + Len(tx) <= 1 + replies + written + failures * MaxBytes
  BY DEF CoreInv, MadeInv
<1>3. written \in Nat /\ written <= MaxBytes /\ failures \in Nat /\ MaxBytes \in Nat
  BY <1>0 DEF Nums, CoreInv, TypeOK
<1> DEFINE f == failures * MaxBytes
<1>4. failures' * MaxBytes = f + MaxBytes /\ f \in Nat
  BY <1>1, <1>3, Product
<1>5. made + Len(tx) <= 1 + replies + written + f
  BY <1>2
<1> HIDE DEF f
<1>6. made' + Len(tx') <= 1 + replies' + written' + (f + MaxBytes)
  BY <1>0, <1>1, <1>2, <1>3, <1>4, <1>5 DEF Nums
<1> QED  BY <1>1, <1>2, <1>4, <1>6 DEF MadeInv

LEMMA RecvFailsCore ==
    ASSUME CoreInv, RecvFails
    PROVE  CoreInv'
<1>0. Nums
  BY CoreNums
<1>1. /\ Fail /\ failures' = failures + 1 /\ failures < MaxFailures /\ closed' = TRUE
      /\ UNCHANGED <<tls, wsVars, tlsVars, bufVars, send_inflight, op, wire>>
  BY DEF RecvFails, Fail
<1>2. TypeOK'
  BY <1>0, <1>1 DEF Nums, CoreInv, TypeOK, wsVars, tlsVars, bufVars
<1>3. OpInv'
  BY <1>1 DEF CoreInv, OpInv, bufVars
<1>4. MadeInv'
  <2>1. 0 \in Nat /\ 0 <= Len(tx) /\ made' = made + 0 /\ UNCHANGED <<wsVars, replies>>
    BY <1>0, <1>1 DEF Nums, tlsVars
  <2> QED  BY <1>1, <2>1, FailMade
<1>5. FailInv'
  BY <1>0, <1>1 DEF Nums, CoreInv, FailInv, tlsVars
<1> QED  BY <1>2, <1>3, <1>4, <1>5 DEF CoreInv

LEMMA RecvReopensCore ==
    ASSUME CoreInv, RecvReopens
    PROVE  CoreInv'
<1>0. Nums
  BY CoreNums
<1>1. /\ closed' = FALSE
      /\ UNCHANGED <<tls, wsVars, tlsVars, bufVars, send_inflight, op, wire, failures>>
  BY DEF RecvReopens
<1>2. TypeOK'
  BY <1>1 DEF CoreInv, TypeOK, wsVars, tlsVars, bufVars
<1>3. OpInv'
  BY <1>1 DEF CoreInv, OpInv, bufVars
<1>4. MadeInv'
  BY <1>1 DEF CoreInv, MadeInv, wsVars, tlsVars
<1>5. FailInv'
  BY <1>1 DEF CoreInv, FailInv, tlsVars
<1> QED  BY <1>2, <1>3, <1>4, <1>5 DEF CoreInv

\* The three ways in which try_submit_send ends: nothing to send, a Send submitted,
\* the submission queue full.
SubmitEmpty == Staged = <<>> /\ UNCHANGED <<send_inflight, closed, op, failures>>

SubmitSends ==
    /\ Staged # <<>>
    /\ op' = [state |-> "sending", from |-> 0,
              len |-> IF Len(Staged) > MaxLen THEN MaxLen ELSE Len(Staged)]
    /\ send_inflight' = TRUE
    /\ UNCHANGED <<closed, failures>>

SubmitFails == Staged # <<>> /\ Fail /\ UNCHANGED <<send_inflight, op>>

LEMMA TrySubmitCases ==
    ASSUME TrySubmitSend
    PROVE  /\ ~send_inflight /\ ~closed
           /\ send_buf' = Staged /\ send_head' = 0 /\ tls_pending_out' = <<>> /\ tx' = <<>>
           /\ tls => made' = made + Len(tx) /\ rustls' = <<>>
           /\ ~tls => UNCHANGED <<made, rustls>>
           /\ SubmitEmpty \/ SubmitSends \/ SubmitFails
           /\ UNCHANGED <<tls, written, replies, wire>>
BY DEF TrySubmitSend, CanSubmit, SubmitEmpty, SubmitSends, SubmitFails

LEMMA TrySubmitSendCore ==
    ASSUME CoreInv, TrySubmitSend
    PROVE  CoreInv'
<1>0. Nums
  BY CoreNums
<1>1. /\ ~send_inflight /\ ~closed
      /\ send_buf' = Staged /\ send_head' = 0 /\ tls_pending_out' = <<>> /\ tx' = <<>>
      /\ tls => made' = made + Len(tx) /\ rustls' = <<>>
      /\ ~tls => UNCHANGED <<made, rustls>>
      /\ SubmitEmpty \/ SubmitSends \/ SubmitFails
      /\ UNCHANGED <<tls, written, replies, wire>>
  BY TrySubmitCases
<1>2. Staged \in Seq(UnitType) /\ Len(Staged) \in Nat /\ (Staged # <<>> => Len(Staged) # 0)
  BY StagedType, EmptySeq DEF CoreInv
<1>3. /\ tx' \in Seq(1 .. MaxBytes) /\ tls_pending_out' \in Seq(UnitType) /\ Len(tx') = 0
      /\ rustls' \in Seq(UnitType)
  BY <1>1, EmptySeq DEF CoreInv, TypeOK
<1>4. made' \in Nat /\ made' <= made + Len(tx) /\ made' <= MaxRecords
  BY <1>0, <1>1 DEF Nums, CoreInv, TypeOK
<1>5. op.state = "none" /\ op.from = 0
  BY <1>1 DEF CoreInv, OpInv
<1>6. /\ send_inflight' \in BOOLEAN /\ closed' \in BOOLEAN
      /\ failures' \in 0 .. MaxFailures
      /\ op' \in [state : {"none", "sending", "sent", "failed"}, from : Nat, len : Nat]
      /\ OpInv'
  <2>1. CASE SubmitEmpty
    BY <1>1, <1>5, <2>1 DEF SubmitEmpty, CoreInv, TypeOK, OpInv
  <2>2. CASE SubmitSends
    <3> DEFINE len == IF Len(Staged) > MaxLen THEN MaxLen ELSE Len(Staged)
    <3>1. len \in 1 .. Len(Staged)
      BY <1>0, <1>2, <2>2 DEF Nums, SubmitSends
    <3>2. op' = [state |-> "sending", from |-> 0, len |-> len]
      BY <2>2 DEF SubmitSends
    <3> HIDE DEF len
    <3> QED  BY <1>1, <1>2, <2>2, <3>1, <3>2 DEF SubmitSends, CoreInv, TypeOK, OpInv
  <2>3. CASE SubmitFails
    BY <1>0, <1>1, <1>5, <2>3 DEF Nums, SubmitFails, Fail, CoreInv, TypeOK, OpInv
  <2> QED  BY <1>1, <2>1, <2>2, <2>3
<1>7. TypeOK'
  <2>1. send_head' \in 0 .. Len(send_buf')
    BY <1>1, <1>2
  <2> QED  BY <1>0, <1>1, <1>2, <1>3, <1>4, <1>6, <2>1 DEF Nums, CoreInv, TypeOK
<1>8. MadeInv'
  <2> DEFINE f == failures * MaxBytes
  <2>1. made + Len(tx) <= 1 + replies + written + f
    BY DEF CoreInv, MadeInv
  <2>2. f \in Nat /\ (failures + 1) * MaxBytes = f + MaxBytes
    BY <1>0, Product DEF Nums
  <2>3. failures' = failures \/ failures' = failures + 1
    BY <1>1 DEF SubmitEmpty, SubmitSends, SubmitFails, Fail
  <2>4. failures' * MaxBytes = f \/ failures' * MaxBytes = f + MaxBytes
    BY <2>2, <2>3
  <2> DEFINE f2 == failures' * MaxBytes
  <2>5. f2 = f \/ f2 = f + MaxBytes
    BY <2>4
  <2> HIDE DEF f, f2
  <2>6. made' + Len(tx') <= 1 + replies' + written' + f2
    BY <1>0, <1>1, <1>3, <1>4, <2>1, <2>2, <2>5 DEF Nums
  <2>7. Len(tx') <= written'
    BY <1>0, <1>1, <1>3 DEF Nums
  <2> QED  BY <2>6, <2>7 DEF MadeInv, f2
<1>9. FailInv'
  <2>1. ~tls => rustls' = <<>>
    BY <1>1 DEF CoreInv, FailInv
  <2>2. failures' = 0 => ~closed' /\ op'.state # "failed"
    <3>1. CASE SubmitEmpty
      BY <1>1, <1>5, <3>1 DEF SubmitEmpty
    <3>2. CASE SubmitSends
      BY <1>1, <3>2 DEF SubmitSends
    <3>3. CASE SubmitFails
      BY <1>0, <3>3 DEF Nums, SubmitFails, Fail
    <3> QED  BY <1>1, <3>1, <3>2, <3>3
  <2> QED  BY <1>1, <2>1, <2>2 DEF FailInv
<1> QED  BY <1>6, <1>7, <1>8, <1>9 DEF CoreInv

LEMMA EgressFailsCore ==
    ASSUME CoreInv, EgressFails
    PROVE  CoreInv'
<1>0. Nums
  BY CoreNums
<1>1. /\ ~send_inflight /\ ~closed /\ tls
      /\ send_buf' = Compacted \o tls_pending_out
      /\ send_head' = 0 /\ tls_pending_out' = <<>>
      /\ Fail /\ failures < MaxFailures /\ failures' = failures + 1 /\ closed' = TRUE
      /\ UNCHANGED <<tls, wsVars, replies, send_inflight, op, wire>>
  BY DEF EgressFails, CanSubmit, Fail
<1>2. PICK n \in 0 .. Len(tx) - 1 : /\ rustls' = Egress(SubSeq(tx, 1, n))
                                    /\ made' = made + n
  BY DEF EgressFails
<1>3. n \in Nat /\ n <= Len(tx) /\ n \in 0 .. Len(tx)
  BY <1>0 DEF Nums
<1>4. rustls' \in Seq(UnitType)
  <2>1. tx \in Seq(1 .. MaxBytes)
    BY DEF CoreInv, TypeOK
  <2>2. SubSeq(tx, 1, n) \in Seq(1 .. MaxBytes) /\ Len(SubSeq(tx, 1, n)) = n
    BY <1>3, <2>1, Split
  <2>3. made + Len(SubSeq(tx, 1, n)) <= MaxRecords /\ MaxRecords \in Nat
    BY <1>0, <1>3, <2>2 DEF Nums
  <2> QED  BY <1>2, <2>2, <2>3, EgressType DEF CoreInv
<1>5. send_buf' \in Seq(UnitType) /\ Len(send_buf') \in Nat
  BY <1>1, StagedType, LenProperties DEF CoreInv
<1>6. tls_pending_out' \in Seq(UnitType)
  BY <1>1, EmptySeq
<1>7. TypeOK'
  <2>1. made' \in 0 .. MaxRecords
    BY <1>0, <1>2, <1>3 DEF Nums
  <2>2. send_head' \in 0 .. Len(send_buf')
    BY <1>1, <1>5
  <2>3. failures' \in 0 .. MaxFailures
    BY <1>0, <1>1 DEF Nums
  <2> QED  BY <1>1, <1>4, <1>5, <1>6, <2>1, <2>2, <2>3 DEF CoreInv, TypeOK, wsVars
<1>8. OpInv'
  BY <1>1 DEF CoreInv, OpInv
<1>9. MadeInv'
  BY <1>1, <1>2, <1>3, FailMade
<1>10. FailInv'
  BY <1>0, <1>1 DEF Nums, FailInv
<1> QED  BY <1>7, <1>8, <1>9, <1>10 DEF CoreInv

LEMMA OnSendCqeCore ==
    ASSUME CoreInv, OnSendCqe
    PROVE  CoreInv'
<1>0. Nums
  BY CoreNums
<1>1. /\ op.state \in {"sent", "failed"} /\ op' = NoOp /\ send_inflight' = FALSE
      /\ UNCHANGED <<tls, wsVars, tlsVars, tls_pending_out, wire, failures>>
  BY DEF OnSendCqe
<1>2. send_head = 0 /\ op.len \in 1 .. Len(send_buf)
  BY <1>1 DEF CoreInv, OpInv
<1>3. /\ send_buf' \in Seq(UnitType) /\ send_head' \in 0 .. Len(send_buf')
      /\ closed' \in BOOLEAN
      /\ failures = 0 => ~closed'
  <2>1. CASE closed
    <3>1. send_buf' = <<>> /\ send_head' = 0 /\ closed' \in BOOLEAN /\ failures # 0
      BY <2>1 DEF OnSendCqe, CoreInv, FailInv
    <3> QED  BY <3>1, EmptySeq
  <2>2. CASE ~closed /\ op.state = "sent"
    <3>1. Acked(op.len) /\ closed' = closed
      BY <2>2 DEF OnSendCqe
    <3>2. CASE send_head + op.len >= Len(send_buf)
      <4>1. send_buf' = <<>> /\ send_head' = 0
        BY <3>1, <3>2 DEF Acked
      <4>2. send_buf' \in Seq(UnitType) /\ Len(send_buf') = 0
        BY <4>1, EmptySeq
      <4>3. send_head' \in 0 .. Len(send_buf')
        BY <4>1, <4>2
      <4>4. closed' \in BOOLEAN /\ ~closed'
        BY <2>2, <3>1 DEF CoreInv, TypeOK
      <4> QED  BY <4>2, <4>3, <4>4
    <3>3. CASE ~(send_head + op.len >= Len(send_buf))
      <4>1. send_buf' = send_buf /\ send_head' = op.len
        BY <1>0, <1>2, <3>1, <3>3 DEF Nums, Acked
      <4> QED  BY <1>0, <1>2, <2>2, <3>1, <4>1 DEF Nums, CoreInv, TypeOK
    <3> QED  BY <3>2, <3>3
  <2>3. CASE ~closed /\ op.state = "failed"
    BY <2>3 DEF OnSendCqe, CoreInv, TypeOK, FailInv
  <2> QED  BY <1>1, <2>1, <2>2, <2>3
<1>4. TypeOK'
  BY <1>1, <1>3 DEF CoreInv, TypeOK, wsVars, tlsVars, NoOp
<1>5. OpInv'
  BY <1>1 DEF OpInv, NoOp
<1>6. MadeInv'
  BY <1>1 DEF CoreInv, MadeInv, wsVars, tlsVars
<1>7. FailInv'
  BY <1>1, <1>3 DEF CoreInv, FailInv, tlsVars, NoOp
<1> QED  BY <1>4, <1>5, <1>6, <1>7 DEF CoreInv

\* What the kernel sends is a prefix of send_buf.
LEMMA KernelSendPart ==
    ASSUME CoreInv, KernelSend
    PROVE  \E n \in 1 .. Len(send_buf) :
              /\ n <= op.len
              /\ wire' = wire \o SubSeq(send_buf, 1, n)
              /\ op' = [state |-> "sent", from |-> 0, len |-> n]
              /\ send_head = 0 /\ op.state = "sending"
<1>0. Nums
  BY CoreNums
<1>1. PICK n \in 1 .. op.len : /\ wire' = wire \o SubSeq(send_buf, op.from + 1, op.from + n)
                               /\ op' = [op EXCEPT !.state = "sent", !.len = n]
  BY DEF KernelSend
<1>2. op.state = "sending" /\ op.from = 0 /\ send_head = 0 /\ op.len \in 1 .. Len(send_buf)
  BY DEF KernelSend, CoreInv, OpInv
<1>3. op \in [state : {"none", "sending", "sent", "failed"}, from : Nat, len : Nat]
  BY DEF CoreInv, TypeOK
<1>4. op' = [state |-> "sent", from |-> 0, len |-> n]
  BY <1>1, <1>2, <1>3
<1>5. n \in 1 .. Len(send_buf) /\ n <= op.len /\ op.from + 1 = 1 /\ op.from + n = n
  BY <1>0, <1>2 DEF Nums
<1> QED  BY <1>1, <1>2, <1>4, <1>5

LEMMA KernelSendCore ==
    ASSUME CoreInv, KernelSend
    PROVE  CoreInv'
<1>0. Nums
  BY CoreNums
<1>1. PICK n \in 1 .. Len(send_buf) :
              /\ wire' = wire \o SubSeq(send_buf, 1, n)
              /\ op' = [state |-> "sent", from |-> 0, len |-> n]
              /\ send_head = 0 /\ op.state = "sending"
  BY KernelSendPart
<1>2. UNCHANGED <<tls, wsVars, tlsVars, bufVars, send_inflight, closed, failures>>
  BY DEF KernelSend
<1>3. n \in Nat /\ n \in 0 .. Len(send_buf)
  BY <1>0 DEF Nums
<1>4. wire' \in Seq(UnitType)
  <2>1. wire \in Seq(UnitType) /\ send_buf \in Seq(UnitType)
    BY DEF CoreInv, TypeOK
  <2>2. SubSeq(send_buf, 1, n) \in Seq(UnitType)
    BY <1>3, <2>1, Split
  <2> QED  BY <1>1, <2>1, <2>2, Cat
<1>5. TypeOK'
  BY <1>1, <1>2, <1>3, <1>4 DEF CoreInv, TypeOK, wsVars, tlsVars, bufVars
<1>6. OpInv'
  BY <1>1, <1>2 DEF CoreInv, OpInv, bufVars
<1>7. MadeInv'
  BY <1>2 DEF CoreInv, MadeInv, wsVars, tlsVars
<1>8. FailInv'
  BY <1>1, <1>2 DEF CoreInv, FailInv, tlsVars
<1> QED  BY <1>5, <1>6, <1>7, <1>8 DEF CoreInv

LEMMA KernelFailsCore ==
    ASSUME CoreInv, KernelFails
    PROVE  CoreInv'
<1>0. Nums
  BY CoreNums
<1>1. /\ failures < MaxFailures /\ failures' = failures + 1 /\ op.state = "sending"
      /\ UNCHANGED <<tls, wsVars, tlsVars, bufVars, send_inflight, closed, wire>>
  BY DEF KernelFails
<1>2. op' = [state |-> "failed", from |-> op.from, len |-> op.len]
      /\ op.from \in Nat /\ op.len \in Nat
  <2>1. op \in [state : {"none", "sending", "sent", "failed"}, from : Nat, len : Nat]
    BY DEF CoreInv, TypeOK
  <2> QED  BY <2>1 DEF KernelFails
<1>3. TypeOK'
  BY <1>0, <1>1, <1>2 DEF Nums, CoreInv, TypeOK, wsVars, tlsVars, bufVars
<1>4. OpInv'
  BY <1>1, <1>2 DEF CoreInv, OpInv, bufVars
<1>5. MadeInv'
  <2> DEFINE f == failures * MaxBytes
  <2>1. Len(tx) <= written /\ made + Len(tx) <= 1 + replies + written + f
    BY DEF CoreInv, MadeInv
  <2>2. failures' * MaxBytes = f + MaxBytes /\ f \in Nat
    BY <1>0, <1>1, Product DEF Nums
  <2> HIDE DEF f
  <2>3. made + Len(tx) <= 1 + replies + written + (f + MaxBytes)
    BY <1>0, <2>1, <2>2 DEF Nums
  <2> QED  BY <1>1, <2>1, <2>2, <2>3 DEF MadeInv, wsVars, tlsVars
<1>6. FailInv'
  BY <1>0, <1>1 DEF Nums, CoreInv, FailInv, tlsVars
<1> QED  BY <1>3, <1>4, <1>5, <1>6 DEF CoreInv

\* A step that changes nothing.
LEMMA StutterCore ==
    ASSUME CoreInv, UNCHANGED vars
    PROVE  CoreInv'
<1>1. UNCHANGED <<tls, written, tx, made, replies, rustls, tls_pending_out, send_buf, send_head,
                  send_inflight, closed, op, wire, failures>>
  BY DEF vars, wsVars, tlsVars, bufVars
<1> QED  BY <1>1 DEF CoreInv, TypeOK, OpInv, MadeInv, FailInv

LEMMA CoreNext == CoreInv /\ [Next]_vars => CoreInv'
BY WriteFrameCore, IngestCore, RecvFailsCore, RecvReopensCore, TrySubmitSendCore,
   EgressFailsCore, OnSendCqeCore, KernelSendCore, KernelFailsCore, StutterCore DEF Next

\* The state of the send path stays within its types, whatever the bounds are: no
\* index runs past send_buf, and rustls makes no more records than bytes, replies
\* and failed submissions account for.
THEOREM SendPathTypeOK == Spec => []TypeOK
<1>1. Spec => []CoreInv
  BY CoreInit, CoreNext, PTL DEF Spec
<1>2. CoreInv => TypeOK
  BY DEF CoreInv
<1> QED  BY <1>1, <1>2, PTL

LEMMA CoreAlways == Spec => []CoreInv
BY CoreInit, CoreNext, PTL DEF Spec

-----------------------------------------------------------------------------
(* The kernel reads a buffer that does not change.                          *)

LEMMA StableStep == CoreInv /\ [Next]_vars => [op.state = "sending" => UNCHANGED send_buf]_vars
<1> SUFFICES ASSUME CoreInv, Next, op.state = "sending"
             PROVE  UNCHANGED send_buf
  OBVIOUS
<1>1. send_inflight
  BY DEF CoreInv, OpInv
<1>2. ~TrySubmitSend /\ ~EgressFails
  BY <1>1 DEF TrySubmitSend, EgressFails, CanSubmit
<1>3. ~OnSendCqe
  BY DEF OnSendCqe
<1>4. CASE WriteFrame
  BY <1>4 DEF WriteFrame, bufVars
<1>5. CASE Ingest
  BY <1>5 DEF Ingest
<1>6. CASE RecvFails
  BY <1>6 DEF RecvFails, bufVars
<1>7. CASE RecvReopens
  BY <1>7 DEF RecvReopens, bufVars
<1>8. CASE KernelSend
  BY <1>8 DEF KernelSend, bufVars
<1>9. CASE KernelFails
  BY <1>9 DEF KernelFails, bufVars
<1> QED  BY <1>2, <1>3, <1>4, <1>5, <1>6, <1>7, <1>8, <1>9 DEF Next

\* While the kernel has the Send, send_buf does not change: not by records that rustls
\* makes meanwhile, not by frames the client writes, not by a failure of the
\* connection ("send_inflight: send_buf must not change").
THEOREM SendPathBufStable == Spec => SendBufStable
BY CoreAlways, StableStep, PTL DEF Spec, SendBufStable

-----------------------------------------------------------------------------
(* What the actions do to the bytes on their way.                           *)

\* The number of units at the front of send_buf that have left.
Gone == send_head + (IF op.state = "sent" THEN op.len ELSE 0)

LEMMA UnsentIsRest ==
    ASSUME CoreInv
    PROVE  /\ Gone \in 0 .. Len(send_buf)
           /\ Unsent = SubSeq(send_buf, Gone + 1, Len(send_buf))
           /\ Unsent \in Seq(UnitType)
<1>0. Nums
  BY CoreNums
<1>1. send_buf \in Seq(UnitType) /\ send_head \in 0 .. Len(send_buf)
  BY DEF CoreInv, TypeOK
<1>2. op.state = "sent" => send_head = 0 /\ op.len \in 1 .. Len(send_buf)
  BY DEF CoreInv, OpInv
<1>3. Gone \in 0 .. Len(send_buf)
  BY <1>0, <1>1, <1>2 DEF Gone, Nums
<1>4. Unsent = SubSeq(send_buf, Gone + 1, Len(send_buf))
  <2>1. CASE op.state = "sent"
    <3>1. Gone = op.len /\ send_head + 1 + op.len = Gone + 1
      BY <1>0, <1>2, <2>1 DEF Gone, Nums
    <3> QED  BY <2>1, <3>1 DEF Unsent
  <2>2. CASE op.state # "sent"
    <3>1. Gone = send_head /\ send_head + 1 + 0 = Gone + 1
      BY <1>0, <1>1, <2>2 DEF Gone, Nums
    <3> QED  BY <2>2, <3>1 DEF Unsent
  <2> QED  BY <2>1, <2>2
<1> QED  BY <1>1, <1>3, <1>4, Split

\* A Send takes what it sends from the front of what has not left.
LEMMA KernelSendMoves ==
    ASSUME CoreInv, CoreInv', KernelSend
    PROVE  \E part \in Seq(UnitType) : wire' = wire \o part /\ Unsent = part \o Unsent'
<1>0. Nums
  BY CoreNums
<1>1. PICK n \in 1 .. Len(send_buf) :
              /\ wire' = wire \o SubSeq(send_buf, 1, n)
              /\ op' = [state |-> "sent", from |-> 0, len |-> n]
              /\ send_head = 0 /\ op.state = "sending"
  BY KernelSendPart
<1>2. send_buf' = send_buf /\ send_head' = 0
  BY <1>1 DEF KernelSend, bufVars
<1>3. send_buf \in Seq(UnitType) /\ n \in 0 .. Len(send_buf)
  BY <1>0 DEF CoreInv, TypeOK, Nums
<1>4. Gone = 0 /\ Gone' = n
  BY <1>1, <1>2 DEF Gone
<1>5. Unsent = SubSeq(send_buf, 1, Len(send_buf))
  BY <1>4, UnsentIsRest
<1>6. Unsent' = SubSeq(send_buf, n + 1, Len(send_buf))
  <2>1. (Unsent = SubSeq(send_buf, Gone + 1, Len(send_buf)))'
    BY UnsentIsRest, PTL
  <2> QED  BY <1>2, <1>4, <2>1
<1>7. /\ SubSeq(send_buf, 1, n) \in Seq(UnitType)
      /\ SubSeq(send_buf, 1, n) \o SubSeq(send_buf, n + 1, Len(send_buf)) = send_buf
  BY <1>3, Split
<1>8. SubSeq(send_buf, 1, Len(send_buf)) = send_buf
  BY <1>3, SubSeqFull
<1> QED  BY <1>1, <1>5, <1>6, <1>7, <1>8

\* The CQE moves the head past what has left: nothing else changes, however much of
\* send_buf was sent.
LEMMA OnSendCqeKeeps ==
    ASSUME CoreInv, CoreInv', OnSendCqe, failures = 0
    PROVE  Unsent' = Unsent
<1>0. Nums
  BY CoreNums
<1>1. op.state = "sent" /\ Acked(op.len)
  BY DEF OnSendCqe, CoreInv, FailInv
<1>2. send_head = 0 /\ op.len \in 1 .. Len(send_buf)
  BY <1>1 DEF CoreInv, OpInv
<1>3. Gone = op.len
  BY <1>0, <1>1, <1>2 DEF Gone, Nums
<1>4. Unsent = SubSeq(send_buf, op.len + 1, Len(send_buf))
  BY <1>3, UnsentIsRest
<1>5. (Unsent = SubSeq(send_buf, Gone + 1, Len(send_buf)))'
  BY UnsentIsRest, PTL
<1>6. op'.state = "none"
  BY DEF OnSendCqe, NoOp
<1>7. CASE send_head + op.len >= Len(send_buf)
  <2>1. send_buf' = <<>> /\ send_head' = 0
    BY <1>1, <1>7 DEF Acked
  <2>2. Gone' = 0
    BY <1>6, <2>1 DEF Gone
  <2>3. Unsent' = SubSeq(<<>>, 1, 0)
    BY <1>5, <2>1, <2>2, EmptySeq
  <2>4. op.len + 1 \in Int /\ Len(send_buf) \in Int /\ Len(send_buf) < op.len + 1
    BY <1>0, <1>2, <1>7 DEF Nums
  <2>5. SubSeq(send_buf, op.len + 1, Len(send_buf)) = <<>>
    BY <2>4, SubSeqEmpty
  <2>6. SubSeq(<<>>, 1, 0) = <<>>
    BY SubSeqEmpty
  <2> QED  BY <1>4, <2>3, <2>5, <2>6
<1>8. CASE ~(send_head + op.len >= Len(send_buf))
  <2>1. send_buf' = send_buf /\ send_head' = op.len
    BY <1>0, <1>1, <1>2, <1>8 DEF Acked, Nums
  <2>2. Gone' = op.len
    BY <1>0, <1>2, <1>6, <2>1 DEF Gone, Nums
  <2> QED  BY <1>4, <1>5, <2>1, <2>2
<1> QED  BY <1>7, <1>8

\* try_submit_send puts everything that waits behind what has not left, in the order
\* in which it was made.
LEMMA TrySubmitGathers ==
    ASSUME CoreInv, CoreInv', TrySubmitSend, failures' = 0
    PROVE  /\ Unsent' = (Unsent \o tls_pending_out) \o Egress(tx)
           /\ tls_pending_out' = <<>> /\ rustls' = <<>> /\ tx' = <<>>
           /\ wire' = wire /\ tls' = tls /\ failures = 0
           /\ made' = IF tls THEN made + Len(tx) ELSE made
<1>0. Nums
  BY CoreNums
<1>1. /\ ~send_inflight /\ ~closed
      /\ send_buf' = Staged /\ send_head' = 0 /\ tls_pending_out' = <<>> /\ tx' = <<>>
      /\ tls => made' = made + Len(tx) /\ rustls' = <<>>
      /\ ~tls => UNCHANGED <<made, rustls>>
      /\ SubmitEmpty \/ SubmitSends \/ SubmitFails
      /\ UNCHANGED <<tls, written, replies, wire>>
  BY TrySubmitCases
<1>2. op.state = "none" /\ (~tls => rustls = <<>>)
  BY <1>1 DEF CoreInv, OpInv, FailInv
<1>3. ~SubmitFails
  BY <1>0 DEF SubmitFails, Fail, Nums
<1>4. op'.state # "sent" /\ failures = 0
  BY <1>1, <1>2, <1>3 DEF SubmitEmpty, SubmitSends
<1>5. Gone' = 0
  BY <1>1, <1>4 DEF Gone
<1>6. (Unsent = SubSeq(send_buf, Gone + 1, Len(send_buf)))'
  BY UnsentIsRest, PTL
<1>7. Unsent' = SubSeq(Staged, 1, Len(Staged))
  BY <1>1, <1>5, <1>6
<1>8. Staged \in Seq(UnitType) /\ Staged = (Compacted \o tls_pending_out) \o Egress(tx)
  BY StagedType DEF CoreInv
<1>9. SubSeq(Staged, 1, Len(Staged)) = Staged
  BY <1>8, SubSeqFull
<1>10. Gone = send_head
  <2>1. send_head \in Nat
    BY <1>0 DEF CoreInv, TypeOK, Nums
  <2> QED  BY <1>2, <2>1 DEF Gone
<1>11. Unsent = Compacted
  BY <1>10, UnsentIsRest DEF Compacted
<1> QED  BY <1>1, <1>2, <1>4, <1>7, <1>8, <1>9, <1>11

\* The other steps leave send_buf and the Send alone.
LEMMA UnsentSame ==
    ASSUME UNCHANGED <<send_buf, send_head, op>>
    PROVE  Unsent' = Unsent
BY DEF Unsent

\* Records that go from rustls to tls_pending_out stay behind what was there.
LEMMA Regroup ==
    ASSUME NEW S, NEW x \in Seq(S), NEW c \in Seq(S), NEW d \in Seq(S), NEW u \in Seq(S)
    PROVE  (x \o ((c \o d) \o u)) \o <<>> = ((x \o c) \o d) \o u
<1>1. c \o d \in Seq(S) /\ (c \o d) \o u \in Seq(S) /\ x \o ((c \o d) \o u) \in Seq(S)
  BY Cat
<1>2. (x \o ((c \o d) \o u)) \o <<>> = x \o ((c \o d) \o u)
  BY <1>1, ConcatEmptySeq
<1>3. (x \o (c \o d)) \o u = x \o ((c \o d) \o u)
  <2> DEFINE y == c \o d
  <2>1. y \in Seq(S)
    BY <1>1
  <2> HIDE DEF y
  <2>2. (x \o y) \o u = x \o (y \o u)
    BY <2>1, Assoc
  <2> QED  BY <2>2 DEF y
<1>4. (x \o c) \o d = x \o (c \o d)
  BY Assoc
<1> QED  BY <1>2, <1>3, <1>4

\* Numbers that go on where those of s end.
LEMMA NumberedCat ==
    ASSUME NEW s \in Seq(UnitType), \A i \in 1 .. Len(s) : s[i].rec = i,
           NEW t \in Seq(UnitType), \A i \in 1 .. Len(t) : t[i].rec = Len(s) + i
    PROVE  \A i \in 1 .. Len(s \o t) : (s \o t)[i].rec = i
<1>1. /\ Len(s) \in Nat /\ Len(t) \in Nat
      /\ Len(s \o t) = Len(s) + Len(t)
      /\ \A i \in 1 .. Len(s) : (s \o t)[i] = s[i]
      /\ \A i \in 1 .. Len(t) : (s \o t)[Len(s) + i] = t[i]
  BY Cat
<1> TAKE i \in 1 .. Len(s \o t)
<1>2. CASE i <= Len(s)
  BY <1>1, <1>2
<1>3. CASE ~(i <= Len(s))
  <2> DEFINE j == i - Len(s)
  <2>1. j \in 1 .. Len(t) /\ i = Len(s) + j
    BY <1>1, <1>3
  <2> HIDE DEF j
  <2>2. (s \o t)[Len(s) + j] = t[j]
    BY <1>1, <2>1
  <2> QED  BY <2>1, <2>2
<1> QED  BY <1>2, <1>3

-----------------------------------------------------------------------------
(* TLS records leave in order.                                              *)

LEMMA CiphertextType ==
    ASSUME CoreInv
    PROVE  /\ wire \in Seq(UnitType) /\ Unsent \in Seq(UnitType)
           /\ tls_pending_out \in Seq(UnitType) /\ rustls \in Seq(UnitType)
           /\ wire \o Unsent \in Seq(UnitType)
           /\ (wire \o Unsent) \o tls_pending_out \in Seq(UnitType)
           /\ Ciphertext = ((wire \o Unsent) \o tls_pending_out) \o rustls
           /\ Ciphertext \in Seq(UnitType)
<1>1. /\ wire \in Seq(UnitType) /\ tls_pending_out \in Seq(UnitType) /\ rustls \in Seq(UnitType)
  BY DEF CoreInv, TypeOK
<1>2. Unsent \in Seq(UnitType)
  BY UnsentIsRest
<1>3. wire \o Unsent \in Seq(UnitType)
  BY <1>1, <1>2, Cat
<1>4. (wire \o Unsent) \o tls_pending_out \in Seq(UnitType)
  BY <1>1, <1>3, Cat
<1>5. ((wire \o Unsent) \o tls_pending_out) \o rustls \in Seq(UnitType)
  BY <1>1, <1>4, Cat
<1>6. Ciphertext = ((wire \o Unsent) \o tls_pending_out) \o rustls
  BY DEF Ciphertext
<1> QED  BY <1>1, <1>2, <1>3, <1>4, <1>5, <1>6

\* New records at the end of the ciphertext, numbered as rustls makes them.
LEMMA CipherGrows ==
    ASSUME CoreInv, RecordsInOrder, RecordInv, tls, failures = 0,
           NEW t \in Seq(UnitType), \A i \in 1 .. Len(t) : t[i].rec = made + i,
           Ciphertext' = Ciphertext \o t, made' = made + Len(t)
    PROVE  RecordsInOrder' /\ RecordInv'
<1>1. Ciphertext \in Seq(UnitType)
  BY CiphertextType
<1>2. (\A i \in 1 .. Len(Ciphertext) : Ciphertext[i].rec = i) /\ Len(Ciphertext) = made
  BY DEF RecordsInOrder, RecordInv
<1> DEFINE c == Ciphertext
<1>3. c \in Seq(UnitType) /\ (\A i \in 1 .. Len(c) : c[i].rec = i) /\ Len(c) = made
  BY <1>1, <1>2
<1>4. Ciphertext' = c \o t
  OBVIOUS
<1> HIDE DEF c
<1>5. \A i \in 1 .. Len(t) : t[i].rec = Len(c) + i
  BY <1>3
<1>6. \A i \in 1 .. Len(c \o t) : (c \o t)[i].rec = i
  BY <1>3, <1>5, NumberedCat
<1>7. Len(c \o t) = Len(c) + Len(t)
  BY <1>3, Cat
<1>8. RecordsInOrder'
  BY <1>4, <1>6 DEF RecordsInOrder
<1>9. RecordInv'
  BY <1>3, <1>4, <1>7 DEF RecordInv
<1> QED  BY <1>8, <1>9

\* The ciphertext and the records made are the same.
LEMMA CipherSame ==
    ASSUME RecordsInOrder, RecordInv,
           tls' /\ failures' = 0 => /\ tls /\ failures = 0
                                    /\ Ciphertext' = Ciphertext /\ made' = made
    PROVE  RecordsInOrder' /\ RecordInv'
<1>1. RecordsInOrder'
  BY DEF RecordsInOrder
<1>2. RecordInv'
  BY DEF RecordInv
<1> QED  BY <1>1, <1>2

LEMMA IngestRecords ==
    ASSUME CoreInv, CoreInv', RecordsInOrder, RecordInv, Ingest
    PROVE  RecordsInOrder' /\ RecordInv'
<1>0. Nums /\ Nums'
  BY CoreNums, PTL
<1>1. /\ tls' = tls /\ failures' = failures /\ tls /\ made' = made + 1 /\ wire' = wire
      /\ tls_pending_out' = (tls_pending_out \o rustls) \o <<Unit(made + 1, 0)>>
      /\ rustls' = <<>> /\ UNCHANGED <<send_buf, send_head, op>>
  BY DEF Ingest
<1>2. CASE failures = 0
  <2> DEFINE u == Unit(made + 1, 0)
             x == wire \o Unsent
             c == tls_pending_out
             d == rustls
  <2>1. Unsent' = Unsent
    BY <1>1, UnsentSame
  <2>2. u \in UnitType /\ u.rec = made + 1
    <3>1. made + 1 \in 0 .. MaxRecords /\ 0 \in 0 .. MaxBytes
      BY <1>0, <1>1 DEF Nums
    <3> QED  BY <3>1 DEF Unit, UnitType
  <2>3. Ciphertext' = (x \o ((c \o d) \o <<u>>)) \o <<>>
    BY <1>1, <2>1 DEF Ciphertext
  <2>4. Ciphertext = (x \o c) \o d
    BY DEF Ciphertext
  <2>5. x \in Seq(UnitType) /\ c \in Seq(UnitType) /\ d \in Seq(UnitType)
    BY CiphertextType
  <2> HIDE DEF u, x, c, d
  <2>6. <<u>> \in Seq(UnitType) /\ Len(<<u>>) = 1 /\ <<u>>[1] = u
    BY <2>2, Single
  <2>7. Ciphertext' = Ciphertext \o <<u>>
    BY <2>3, <2>4, <2>5, <2>6, Regroup
  <2>8. \A i \in 1 .. Len(<<u>>) : <<u>>[i].rec = made + i
    BY <2>2, <2>6
  <2>9. made' = made + Len(<<u>>)
    BY <1>1, <2>6
  <2> DEFINE t == <<u>>
  <2>10. /\ t \in Seq(UnitType) /\ \A i \in 1 .. Len(t) : t[i].rec = made + i
         /\ Ciphertext' = Ciphertext \o t /\ made' = made + Len(t)
    BY <2>6, <2>7, <2>8, <2>9
  <2> HIDE DEF t
  <2> QED  BY <1>1, <1>2, <2>10, CipherGrows
<1>3. CASE failures # 0
  BY <1>1, <1>3 DEF RecordsInOrder, RecordInv
<1> QED  BY <1>2, <1>3

LEMMA TrySubmitRecords ==
    ASSUME CoreInv, CoreInv', RecordsInOrder, RecordInv, TrySubmitSend
    PROVE  RecordsInOrder' /\ RecordInv'
<1>0. Nums
  BY CoreNums
<1>1. CASE tls' /\ failures' = 0
  <2>1. /\ Unsent' = (Unsent \o tls_pending_out) \o Egress(tx)
        /\ tls_pending_out' = <<>> /\ rustls' = <<>> /\ tx' = <<>>
        /\ wire' = wire /\ tls' = tls /\ failures = 0
        /\ made' = IF tls THEN made + Len(tx) ELSE made
    BY <1>1, TrySubmitGathers
  <2> DEFINE a == wire
             b == Unsent
             c == tls_pending_out
             d == rustls
             t == Records(made, tx)
  <2>2. tls /\ made' = made + Len(tx)
    BY <1>1, <2>1
  <2>3. tx \in Seq(1 .. MaxBytes) /\ made \in Nat /\ MaxRecords \in Nat
        /\ made + Len(tx) <= MaxRecords
    BY <1>0 DEF Nums, CoreInv, TypeOK
  <2>4. Egress(tx) = d \o t
    BY <2>2, <2>3, EgressType DEF CoreInv
  <2>5. /\ t \in Seq(UnitType) /\ Len(t) = Len(tx)
        /\ \A i \in 1 .. Len(tx) : t[i] = Unit(made + i, tx[i])
    BY <2>3, RecordsType
  <2>6. \A i \in 1 .. Len(t) : t[i].rec = made + i
    <3> HIDE DEF t
    <3> QED  BY <2>5, UnitFields
  <2>7. /\ a \in Seq(UnitType) /\ b \in Seq(UnitType) /\ c \in Seq(UnitType)
        /\ d \in Seq(UnitType)
    BY CiphertextType
  <2>8. Ciphertext' = ((a \o ((b \o c) \o (d \o t))) \o <<>>) \o <<>>
    BY <2>1, <2>4 DEF Ciphertext
  <2>9. Ciphertext = ((a \o b) \o c) \o d
    BY DEF Ciphertext
  <2> HIDE DEF a, b, c, d, t
  <2>10. ((a \o ((b \o c) \o (d \o t))) \o <<>>) \o <<>> = (((a \o b) \o c) \o d) \o t
    <3> DEFINE e == d \o t
               bc == b \o c
    <3>1. e \in Seq(UnitType) /\ bc \in Seq(UnitType)
      BY <2>5, <2>7, Cat
    <3>2. ((a \o b) \o c) = a \o bc
      BY <2>7, Assoc
    <3> HIDE DEF e, bc
    <3>3. (a \o (bc \o e)) \o <<>> = (a \o bc) \o e
      <4>1. bc \o e \in Seq(UnitType)
        BY <3>1, Cat
      <4>2. a \o (bc \o e) \in Seq(UnitType)
        BY <2>7, <4>1, Cat
      <4>3. (a \o (bc \o e)) \o <<>> = a \o (bc \o e)
        BY <4>2, ConcatEmptySeq
      <4>4. (a \o bc) \o e = a \o (bc \o e)
        BY <2>7, <3>1, Assoc, SMTT(40)
      <4> QED  BY <4>3, <4>4
    <3> DEFINE abc == a \o bc
    <3>4. abc \in Seq(UnitType)
      BY <2>7, <3>1, Cat
    <3> HIDE DEF abc
    <3>5. abc \o e \in Seq(UnitType)
      BY <3>1, <3>4, Cat
    <3>6. (abc \o e) \o <<>> = abc \o e
      BY <3>5, ConcatEmptySeq
    <3>7. (abc \o d) \o t = abc \o e
      <4>1. (abc \o d) \o t = abc \o (d \o t)
        <5>1. t \in Seq(UnitType) /\ d \in Seq(UnitType)
          BY <2>5, <2>7
        <5> QED  BY <3>4, <5>1, Assoc
      <4> QED  BY <4>1 DEF e
    <3> QED  BY <3>2, <3>3, <3>6, <3>7 DEF e, bc, abc
  <2>11. Ciphertext' = Ciphertext \o t /\ made' = made + Len(t)
    BY <2>2, <2>5, <2>8, <2>9, <2>10
  <2> QED  BY <2>1, <2>2, <2>5, <2>6, <2>11, CipherGrows
<1>2. CASE ~(tls' /\ failures' = 0)
  BY <1>2 DEF RecordsInOrder, RecordInv
<1> QED  BY <1>1, <1>2

LEMMA KernelSendRecords ==
    ASSUME CoreInv, CoreInv', RecordsInOrder, RecordInv, KernelSend
    PROVE  RecordsInOrder' /\ RecordInv'
<1>1. PICK part \in Seq(UnitType) : wire' = wire \o part /\ Unsent = part \o Unsent'
  BY KernelSendMoves
<1>2. /\ tls' = tls /\ failures' = failures /\ made' = made
      /\ tls_pending_out' = tls_pending_out /\ rustls' = rustls
  BY DEF KernelSend, bufVars, tlsVars
<1>3. wire \in Seq(UnitType)
  BY CiphertextType
<1>4. (Unsent \in Seq(UnitType))'
  BY UnsentIsRest, PTL
<1>5. wire' \o Unsent' = wire \o Unsent
  <2> DEFINE r == Unsent'
  <2>1. r \in Seq(UnitType) /\ Unsent = part \o r
    BY <1>1, <1>4
  <2> HIDE DEF r
  <2>2. (wire \o part) \o r = wire \o (part \o r)
    BY <1>3, <2>1, Assoc, SMTT(40)
  <2> QED  BY <1>1, <2>1, <2>2 DEF r
<1>6. Ciphertext' = Ciphertext
  BY <1>2, <1>5 DEF Ciphertext
<1> QED  BY <1>2, <1>6, CipherSame

LEMMA RecordsNext ==
    ASSUME CoreInv, CoreInv', RecordsInOrder, RecordInv, [Next]_vars
    PROVE  RecordsInOrder' /\ RecordInv'
<1>1. CASE WriteFrame \/ RecvReopens
  <2>1. /\ UNCHANGED <<send_buf, send_head, op>> /\ wire' = wire /\ made' = made
        /\ tls_pending_out' = tls_pending_out /\ rustls' = rustls
        /\ tls' = tls /\ failures' = failures
    BY <1>1 DEF WriteFrame, RecvReopens, bufVars, tlsVars
  <2>2. Ciphertext' = Ciphertext
    BY <2>1, UnsentSame DEF Ciphertext
  <2> QED  BY <2>1, <2>2, CipherSame
<1>2. CASE Ingest
  BY <1>2, IngestRecords
<1>3. CASE RecvFails \/ EgressFails \/ KernelFails
  <2>1. failures' # 0
    <3>1. Nums
      BY CoreNums
    <3>2. failures' = failures + 1 /\ failures \in Nat
      BY <1>3, <3>1 DEF RecvFails, EgressFails, KernelFails, Fail, Nums
    <3> QED  BY <3>2
  <2> QED  BY <2>1 DEF RecordsInOrder, RecordInv
<1>4. CASE TrySubmitSend
  BY <1>4, TrySubmitRecords
<1>5. CASE OnSendCqe
  <2>1. /\ tls' = tls /\ failures' = failures /\ made' = made /\ wire' = wire
        /\ tls_pending_out' = tls_pending_out /\ rustls' = rustls
    BY <1>5 DEF OnSendCqe, tlsVars
  <2>2. failures = 0 => Ciphertext' = Ciphertext
    BY <1>5, <2>1, OnSendCqeKeeps DEF Ciphertext
  <2> QED  BY <2>1, <2>2, CipherSame
<1>6. CASE KernelSend
  BY <1>6, KernelSendRecords
<1>7. CASE UNCHANGED vars
  <2>1. /\ UNCHANGED <<send_buf, send_head, op>> /\ wire' = wire /\ made' = made
        /\ tls_pending_out' = tls_pending_out /\ rustls' = rustls
        /\ tls' = tls /\ failures' = failures
    BY <1>7 DEF vars, bufVars, tlsVars
  <2>2. Ciphertext' = Ciphertext
    BY <2>1, UnsentSame DEF Ciphertext
  <2> QED  BY <2>1, <2>2, CipherSame
<1> QED  BY <1>1, <1>2, <1>3, <1>4, <1>5, <1>6, <1>7 DEF Next

LEMMA RecordsInit == Init => RecordsInOrder /\ RecordInv
<1> SUFFICES ASSUME Init, tls
             PROVE  /\ \A i \in 1 .. Len(Ciphertext) : Ciphertext[i].rec = i
                    /\ Len(Ciphertext) = made
  BY DEF RecordsInOrder, RecordInv
<1> DEFINE u == Unit(1, 0)
<1>1. /\ wire = <<>> /\ tls_pending_out = <<>> /\ rustls = <<u>> /\ made = 1
      /\ send_buf = <<>> /\ send_head = 0 /\ op.state = "none"
  BY DEF Init, NoOp
<1>2. Unsent = <<>>
  <2>1. Unsent = SubSeq(<<>>, 1, 0)
    BY <1>1, EmptySeq DEF Unsent
  <2> QED  BY <2>1, SubSeqEmpty
<1>3. Ciphertext = ((<<>> \o <<>>) \o <<>>) \o <<u>>
  BY <1>1, <1>2 DEF Ciphertext
<1>4. u.rec = 1
  BY DEF Unit
<1> HIDE DEF u
<1>5. Ciphertext = <<u>>
  BY <1>3
<1> QED  BY <1>1, <1>4, <1>5

\* Until the connection fails, what has left, what is in send_buf, in tls_pending_out
\* and in rustls is every record made so far, in the order in which rustls numbered
\* them: partial sends, records made while a Send is in flight and try_submit_send's
\* gathering neither reorder, drop nor repeat one ("keep the order").
THEOREM SendPathRecordsInOrder == Spec => []RecordsInOrder
<1>1. Init => SendInv
  BY CoreInit, RecordsInit DEF SendInv
<1>2. SendInv /\ [Next]_vars => SendInv'
  BY CoreNext, RecordsNext DEF SendInv
<1>3. SendInv => RecordsInOrder
  BY DEF SendInv
<1> QED  BY <1>1, <1>2, <1>3, PTL DEF Spec

-----------------------------------------------------------------------------
(* The bytes of the client among the units.                                 *)

\* c counts up the units of s and gathers the bytes they carry.
Gathers(c, s) ==
    /\ c \in [0 .. Len(s) -> Seq(1 .. MaxBytes)]
    /\ c[0] = <<>>
    /\ \A i \in 1 .. Len(s) :
          c[i] = IF s[i].byte = 0 THEN c[i - 1] ELSE Append(c[i - 1], s[i].byte)

\* The recursive definition of Carried has a solution.
LEMMA CarriedGathers ==
    ASSUME NEW s \in Seq(UnitType)
    PROVE  \E c : Gathers(c, s) /\ Carried(s) = c[Len(s)]
<1>1. Len(s) \in Nat
  BY LenProperties
<1> DEFINE B == Seq(1 .. MaxBytes)
           step == [x \in B \X Nat |->
                      IF x[2] \in 1 .. Len(s) /\ s[x[2]].byte # 0
                      THEN Append(x[1], s[x[2]].byte) ELSE x[1]]
           body(f) == [i \in 0 .. Len(s) |->
                         IF i = 0 THEN <<>>
                         ELSE IF s[i].byte = 0 THEN f[i - 1] ELSE Append(f[i - 1], s[i].byte)]
<1>2. \A i \in 1 .. Len(s) : s[i].byte # 0 => s[i].byte \in 1 .. MaxBytes
  <2> SUFFICES ASSUME NEW i \in 1 .. Len(s), s[i].byte # 0
               PROVE  s[i].byte \in 1 .. MaxBytes
    OBVIOUS
  <2>1. s[i] \in UnitType
    BY ElementOfSeq
  <2>2. s[i].byte \in 0 .. MaxBytes
    BY <2>1 DEF UnitType
  <2> QED  BY <2>2, SendPathAssumption
<1>3. <<>> \in B
  BY EmptySeq
<1>4. step \in [B \X Nat -> B]
  <2> SUFFICES ASSUME NEW b \in B, NEW k \in Nat, k \in 1 .. Len(s), s[k].byte # 0
               PROVE  Append(b, s[k].byte) \in B
    OBVIOUS
  <2> QED  BY <1>2, AppendProperties
<1>5. PICK f \in [0 .. Len(s) -> B] :
         f[0] = <<>> /\ \A i \in 1 .. Len(s) : f[i] = step[<<f[i - 1], i>>]
  <2> DEFINE e == <<>>
             N == Len(s)
  <2>1. e \in B /\ N \in Nat
    BY <1>1, <1>3
  <2> HIDE DEF step, B, e, N
  <2>2. \E f : Recursion(f, B, e, N, step)
    BY <1>4, <2>1, RecursiveFunction
  <2> QED  BY <2>2 DEF e, N, Recursion
<1>6. ASSUME NEW i \in 1 .. Len(s)
      PROVE  f[i] = IF s[i].byte = 0 THEN f[i - 1] ELSE Append(f[i - 1], s[i].byte)
  <2>1. f[i - 1] \in B /\ i \in Nat
    BY <1>1, <1>5
  <2>2. step[<<f[i - 1], i>>] = IF s[i].byte = 0 THEN f[i - 1] ELSE Append(f[i - 1], s[i].byte)
    BY <2>1
  <2> QED  BY <1>5, <2>2
<1>7. f = body(f)
  <2>1. f = [i \in 0 .. Len(s) |-> f[i]]
    BY <1>5
  <2>2. ASSUME NEW i \in 0 .. Len(s) PROVE f[i] = body(f)[i]
    <3>1. CASE i = 0
      BY <1>5, <3>1
    <3>2. CASE i # 0
      <4>1. i \in 1 .. Len(s)
        BY <1>1, <3>2
      <4> HIDE DEF step
      <4> QED  BY <1>6, <3>2, <4>1
    <3> QED  BY <3>1, <3>2
  <2> QED  BY <2>1, <2>2
<1> DEFINE c == CHOOSE g : g = body(g)
<1>8. c = body(c)
  <2> HIDE DEF body
  <2> QED  BY <1>7
<1>9. Carried(s) = c[Len(s)]
  BY DEF Carried
<1> HIDE DEF c
<1>10. c[0] = <<>>
  <2>1. body(c)[0] = <<>>
    BY <1>1
  <2> QED  BY <1>8, <2>1
<1>11. ASSUME NEW i \in 1 .. Len(s)
       PROVE  c[i] = IF s[i].byte = 0 THEN c[i - 1] ELSE Append(c[i - 1], s[i].byte)
  <2>1. body(c)[i] = IF s[i].byte = 0 THEN c[i - 1] ELSE Append(c[i - 1], s[i].byte)
    BY <1>1
  <2> HIDE DEF body
  <2> QED  BY <1>8, <2>1
<1>12. c = [i \in 0 .. Len(s) |-> c[i]]
  <2>1. DOMAIN c = 0 .. Len(s)
    BY <1>8
  <2> QED  BY <1>8, <2>1
<1>13. \A i \in Nat : i <= Len(s) => c[i] \in B
  <2> DEFINE T == {i \in Nat : i <= Len(s) => c[i] \in B}
  <2>1. 0 \in T
    BY <1>3, <1>10
  <2>2. ASSUME NEW n \in Nat, n \in T PROVE n + 1 \in T
    <3> SUFFICES ASSUME n + 1 <= Len(s) PROVE c[n + 1] \in B
      OBVIOUS
    <3>1. c[n] \in B /\ n + 1 \in 1 .. Len(s) /\ (n + 1) - 1 = n
      BY <1>1, <2>2
    <3>2. c[n + 1] = IF s[n + 1].byte = 0 THEN c[n] ELSE Append(c[n], s[n + 1].byte)
      BY <1>11, <3>1
    <3>3. s[n + 1].byte # 0 => Append(c[n], s[n + 1].byte) \in B
      BY <1>2, <3>1, AppendProperties
    <3> QED  BY <3>1, <3>2, <3>3
  <2> HIDE DEF T
  <2>3. Nat \subseteq T
    BY <2>1, <2>2, Induct
  <2> QED  BY <2>3 DEF T
<1>14. Gathers(c, s)
  <2>1. c \in [0 .. Len(s) -> B]
    <3>1. \A i \in 0 .. Len(s) : c[i] \in B
      BY <1>1, <1>13
    <3> HIDE DEF B
    <3> QED  BY <1>12, <3>1
  <2> QED  BY <1>10, <1>11, <2>1 DEF Gathers
<1> QED  BY <1>9, <1>14

LEMMA CarriedType ==
    ASSUME NEW s \in Seq(UnitType)
    PROVE  Carried(s) \in Seq(1 .. MaxBytes)
<1>1. PICK c : Gathers(c, s) /\ Carried(s) = c[Len(s)]
  BY CarriedGathers
<1>2. Len(s) \in 0 .. Len(s)
  BY LenProperties
<1> QED  BY <1>1, <1>2 DEF Gathers

\* Nothing carries nothing.
LEMMA CarriedEmpty == Carried(<<>>) = <<>>
<1>1. <<>> \in Seq(UnitType) /\ Len(<<>>) = 0
  BY EmptySeq
<1>2. PICK c : Gathers(c, <<>>) /\ Carried(<<>>) = c[Len(<<>>)]
  BY <1>1, CarriedGathers
<1> QED  BY <1>1, <1>2 DEF Gathers

\* A record of rustls' own carries no byte of the client.
LEMMA CarriedReply ==
    ASSUME NEW u \in UnitType, u.byte = 0
    PROVE  Carried(<<u>>) = <<>>
<1> DEFINE s == <<u>>
<1>1. s \in Seq(UnitType) /\ Len(s) = 1 /\ s[1] = u
  BY Single
<1> HIDE DEF s
<1>2. PICK c : Gathers(c, s) /\ Carried(s) = c[Len(s)]
  BY <1>1, CarriedGathers
<1>3. c[0] = <<>> /\ c[1] = c[0]
  BY <1>1, <1>2 DEF Gathers
<1> QED  BY <1>1, <1>2, <1>3 DEF s

\* The units made of the bytes of q carry them.
LEMMA CarriedBytes ==
    ASSUME NEW q \in Seq(1 .. MaxBytes), NEW t \in Seq(UnitType), Len(t) = Len(q),
           \A i \in 1 .. Len(q) : t[i].byte = q[i]
    PROVE  Carried(t) = q
<1>1. Len(q) \in Nat
  BY LenProperties
<1>2. PICK c : Gathers(c, t) /\ Carried(t) = c[Len(t)]
  BY CarriedGathers
<1> DEFINE T == {n \in Nat : n <= Len(q) => c[n] = SubSeq(q, 1, n)}
<1>3. 0 \in T
  <2>1. SubSeq(q, 1, 0) = <<>>
    BY SubSeqEmpty
  <2> QED  BY <1>2, <2>1 DEF Gathers
<1>4. ASSUME NEW n \in Nat, n \in T PROVE n + 1 \in T
  <2> SUFFICES ASSUME n + 1 <= Len(q) PROVE c[n + 1] = SubSeq(q, 1, n + 1)
    OBVIOUS
  <2>1. n + 1 \in 1 .. Len(q) /\ (n + 1) - 1 = n /\ c[n] = SubSeq(q, 1, n) /\ n \in 0 .. Len(q)
    BY <1>1, <1>4
  <2>2. q[n + 1] \in 1 .. MaxBytes /\ q[n + 1] # 0
    <3>1. q[n + 1] \in 1 .. MaxBytes
      BY <2>1, ElementOfSeq
    <3> QED  BY <3>1, SendPathAssumption
  <2>3. t[n + 1].byte = q[n + 1]
    BY <2>1
  <2>4. c[n + 1] = Append(SubSeq(q, 1, n), q[n + 1])
    BY <1>2, <2>1, <2>2, <2>3 DEF Gathers
  <2>5. SubSeq(q, 1, n) \in Seq(1 .. MaxBytes)
    BY <2>1, Split
  <2>6. Append(SubSeq(q, 1, n), q[n + 1]) = SubSeq(q, 1, n) \o <<q[n + 1]>>
    BY <2>2, <2>5, AppendIsConcat
  <2>7. SubSeq(q, 1, n + 1) = SubSeq(q, 1, n) \o <<q[n + 1]>>
    <3>1. 1 \in 1 .. Len(q) /\ n + 1 \in 1 .. Len(q)
      BY <1>1, <2>1
    <3>2. SubSeq(q, 1, n + 1) = SubSeq(q, 1, (n + 1) - 1) \o <<q[n + 1]>>
      BY <3>1, SubSeqRecursiveSecond
    <3> QED  BY <2>1, <3>2
  <2> QED  BY <2>4, <2>6, <2>7
<1> HIDE DEF T
<1>5. Nat \subseteq T
  BY <1>3, <1>4, Induct
<1>6. c[Len(q)] = SubSeq(q, 1, Len(q))
  BY <1>1, <1>5 DEF T
<1>7. SubSeq(q, 1, Len(q)) = q
  BY SubSeqFull
<1> QED  BY <1>2, <1>6, <1>7

\* What a concatenation carries.
LEMMA CarriedCat ==
    ASSUME NEW s \in Seq(UnitType), NEW t \in Seq(UnitType)
    PROVE  Carried(s \o t) = Carried(s) \o Carried(t)
<1>1. /\ s \o t \in Seq(UnitType)
      /\ Len(s) \in Nat /\ Len(t) \in Nat
      /\ Len(s \o t) = Len(s) + Len(t)
      /\ \A i \in 1 .. Len(s) : (s \o t)[i] = s[i]
      /\ \A i \in 1 .. Len(t) : (s \o t)[Len(s) + i] = t[i]
  BY Cat
<1> DEFINE w == s \o t
           B == 1 .. MaxBytes
<1>2. PICK a : Gathers(a, s) /\ Carried(s) = a[Len(s)]
  BY CarriedGathers
<1>3. PICK b : Gathers(b, t) /\ Carried(t) = b[Len(t)]
  BY CarriedGathers
<1>4. PICK c : Gathers(c, w) /\ Carried(w) = c[Len(w)]
  BY <1>1, CarriedGathers
<1>5. /\ Len(w) = Len(s) + Len(t)
      /\ \A i \in 1 .. Len(s) : w[i] = s[i]
      /\ \A i \in 1 .. Len(t) : w[Len(s) + i] = t[i]
  BY <1>1
<1> HIDE DEF w
<1> DEFINE T == {n \in Nat : n <= Len(s) => c[n] = a[n]}
<1>6. Nat \subseteq T
  <2>1. 0 \in T
    BY <1>2, <1>4 DEF Gathers
  <2>2. ASSUME NEW n \in Nat, n \in T PROVE n + 1 \in T
    <3> SUFFICES ASSUME n + 1 <= Len(s) PROVE c[n + 1] = a[n + 1]
      OBVIOUS
    <3> DEFINE m == n + 1
    <3>1. m \in 1 .. Len(s) /\ m \in 1 .. Len(w) /\ m - 1 = n /\ c[n] = a[n] /\ w[m] = s[m]
      BY <1>1, <1>5, <2>2
    <3> HIDE DEF m
    <3>2. a[m] = IF s[m].byte = 0 THEN a[n] ELSE Append(a[n], s[m].byte)
      BY <1>2, <3>1 DEF Gathers
    <3>3. c[m] = IF w[m].byte = 0 THEN c[n] ELSE Append(c[n], w[m].byte)
      BY <1>4, <3>1 DEF Gathers
    <3> QED  BY <3>1, <3>2, <3>3 DEF m
  <2> HIDE DEF T
  <2> QED  BY <2>1, <2>2, Induct
<1>7. c[Len(s)] = Carried(s)
  BY <1>1, <1>2, <1>6
<1> HIDE DEF T
<1>8. Carried(s) \in Seq(B)
  BY CarriedType
<1> DEFINE U == {n \in Nat : n <= Len(t) => c[Len(s) + n] = Carried(s) \o b[n]}
<1>9. Nat \subseteq U
  <2>1. 0 \in U
    <3>1. Carried(s) \o <<>> = Carried(s)
      BY <1>8, ConcatEmptySeq
    <3>2. b[0] = <<>> /\ Len(s) + 0 = Len(s)
      BY <1>1, <1>3 DEF Gathers
    <3> QED  BY <1>7, <3>1, <3>2
  <2>2. ASSUME NEW n \in Nat, n \in U PROVE n + 1 \in U
    <3> SUFFICES ASSUME n + 1 <= Len(t) PROVE c[Len(s) + (n + 1)] = Carried(s) \o b[n + 1]
      OBVIOUS
    <3> DEFINE m == n + 1
               k == Len(s) + m
               p == Carried(s)
    <3>1. /\ m \in 1 .. Len(t) /\ m - 1 = n /\ k \in 1 .. Len(w) /\ k - 1 = Len(s) + n
          /\ n \in 0 .. Len(t)
      BY <1>1, <1>5
    <3>2. c[Len(s) + n] = p \o b[n]
      BY <1>1, <2>2
    <3>3. w[k] = t[m]
      BY <1>5, <3>1
    <3>4. p \in Seq(B)
      BY <1>8
    <3> HIDE DEF m, k, p
    <3>5. b[m] = IF t[m].byte = 0 THEN b[n] ELSE Append(b[n], t[m].byte)
      BY <1>3, <3>1 DEF Gathers
    <3>6. c[k] = IF w[k].byte = 0 THEN c[k - 1] ELSE Append(c[k - 1], w[k].byte)
      BY <1>4, <3>1 DEF Gathers
    <3>7. b[n] \in Seq(B)
      BY <1>3, <3>1 DEF Gathers
    <3>8. c[k] = p \o b[m]
      <4>1. CASE t[m].byte = 0
        BY <3>1, <3>2, <3>3, <3>5, <3>6, <4>1
      <4>2. CASE t[m].byte # 0
        <5> DEFINE x == t[m].byte
                   r == b[n]
        <5>1. x \in B
          <6>1. t[m] \in UnitType
            BY <3>1, ElementOfSeq
          <6>2. t[m].byte \in 0 .. MaxBytes
            BY <6>1 DEF UnitType
          <6> QED  BY <4>2, <6>2, SendPathAssumption
        <5>2. c[k] = Append(p \o r, x) /\ b[m] = Append(r, x)
          BY <3>1, <3>2, <3>3, <3>5, <3>6, <4>2
        <5>3. r \in Seq(B)
          BY <3>7
        <5> HIDE DEF x, r, B
        <5>4. p \o r \in Seq(B)
          BY <3>4, <5>3, Cat
        <5>5. Append(p \o r, x) = (p \o r) \o <<x>>
          BY <5>1, <5>4, AppendIsConcat
        <5>6. Append(r, x) = r \o <<x>>
          BY <5>1, <5>3, AppendIsConcat
        <5>7. <<x>> \in Seq(B)
          BY <5>1, Single
        <5>8. (p \o r) \o <<x>> = p \o (r \o <<x>>)
          BY <3>4, <5>3, <5>7, Assoc
        <5> QED  BY <5>2, <5>5, <5>6, <5>8
      <4> QED  BY <4>1, <4>2
    <3> QED  BY <3>8 DEF m, k, p
  <2> HIDE DEF U
  <2> QED  BY <2>1, <2>2, Induct
<1>10. c[Len(w)] = Carried(s) \o b[Len(t)]
  BY <1>1, <1>5, <1>9
<1> QED  BY <1>3, <1>4, <1>10 DEF w

-----------------------------------------------------------------------------
(* The send path implements EgressStream.                                   *)

\* The refinement mapping: what the client has written and has not left.
Rest == (Unsent \o tls_pending_out) \o rustls

Waiting == Carried(Rest) \o tx

LEMMA WaitingType ==
    ASSUME CoreInv
    PROVE  /\ wire \in Seq(UnitType) /\ Unsent \in Seq(UnitType)
           /\ tls_pending_out \in Seq(UnitType) /\ rustls \in Seq(UnitType)
           /\ Unsent \o tls_pending_out \in Seq(UnitType)
           /\ Rest \in Seq(UnitType)
           /\ Carried(Rest) \in Seq(1 .. MaxBytes)
           /\ tx \in Seq(1 .. MaxBytes)
           /\ Waiting \in Seq(1 .. MaxBytes)
           /\ Carried(wire) \in Seq(1 .. MaxBytes)
<1>1. /\ wire \in Seq(UnitType) /\ Unsent \in Seq(UnitType)
      /\ tls_pending_out \in Seq(UnitType) /\ rustls \in Seq(UnitType)
  BY CiphertextType
<1>2. Unsent \o tls_pending_out \in Seq(UnitType)
  BY <1>1, Cat
<1>3. Rest \in Seq(UnitType)
  BY <1>1, <1>2, Cat DEF Rest
<1>4. tx \in Seq(1 .. MaxBytes)
  BY DEF CoreInv, TypeOK
<1>5. Carried(Rest) \in Seq(1 .. MaxBytes)
  BY <1>3, CarriedType
<1>6. Waiting \in Seq(1 .. MaxBytes)
  BY <1>4, <1>5, Cat DEF Waiting
<1>7. Carried(wire) \in Seq(1 .. MaxBytes)
  BY <1>1, CarriedType
<1> QED  BY <1>1, <1>2, <1>3, <1>4, <1>5, <1>6, <1>7

\* What an intact connection may do to the bytes that wait and to those that have left.
StreamStep ==
    \/ UNCHANGED <<Waiting, Carried(wire)>>
    \/ /\ \E n \in 1 .. 2 : \E frame \in [1 .. n -> 1 .. MaxBytes] : Waiting' = Waiting \o frame
       /\ UNCHANGED Carried(wire)
    \/ \E n \in 1 .. Len(Waiting) :
          /\ Carried(wire)' = Carried(wire) \o SubSeq(Waiting, 1, n)
          /\ Waiting' = SubSeq(Waiting, n + 1, Len(Waiting))

LEMMA WriteFrameStream ==
    ASSUME CoreInv, WriteFrame
    PROVE  StreamStep
<1>0. Nums
  BY CoreNums
<1>1. PICK n \in 1 .. 2 : /\ written + n <= MaxBytes
                          /\ tx' = tx \o [i \in 1 .. n |-> written + i]
  BY DEF WriteFrame
<1>2. UNCHANGED <<send_buf, send_head, op, tls_pending_out, rustls, wire>>
  BY DEF WriteFrame, bufVars, tlsVars
<1> DEFINE frame == [i \in 1 .. n |-> written + i]
           p == Carried(Rest)
<1>3. frame \in [1 .. n -> 1 .. MaxBytes]
  BY <1>0, <1>1 DEF Nums
<1>4. frame \in Seq(1 .. MaxBytes)
  BY <1>3
<1>5. p \in Seq(1 .. MaxBytes) /\ tx \in Seq(1 .. MaxBytes)
  BY WaitingType
<1>6. Rest' = Rest /\ Carried(wire)' = Carried(wire)
  BY <1>2, UnsentSame DEF Rest
<1>7. Waiting = p \o tx
  BY DEF Waiting
<1>8. Waiting' = p \o (tx \o frame)
  BY <1>1, <1>6 DEF Waiting
<1> HIDE DEF frame, p
<1>9. (p \o tx) \o frame = p \o (tx \o frame)
  BY <1>4, <1>5, Assoc
<1>10. Waiting' = Waiting \o frame
  BY <1>7, <1>8, <1>9
<1> QED  BY <1>3, <1>6, <1>10 DEF StreamStep

LEMMA IngestStream ==
    ASSUME CoreInv, CoreInv', Ingest
    PROVE  StreamStep
<1>0. Nums /\ Nums'
  BY CoreNums, PTL
<1>1. /\ made' = made + 1 /\ wire' = wire /\ tx' = tx
      /\ tls_pending_out' = (tls_pending_out \o rustls) \o <<Unit(made + 1, 0)>>
      /\ rustls' = <<>> /\ UNCHANGED <<send_buf, send_head, op>>
  BY DEF Ingest, wsVars
<1> DEFINE u == Unit(made + 1, 0)
           x == Unsent
           c == tls_pending_out
           d == rustls
<1>2. u \in UnitType /\ u.byte = 0
  <2>1. made + 1 \in 0 .. MaxRecords /\ 0 \in 0 .. MaxBytes
    BY <1>0, <1>1 DEF Nums
  <2> QED  BY <2>1 DEF Unit, UnitType
<1>3. Rest' = (x \o ((c \o d) \o <<u>>)) \o <<>>
  BY <1>1, UnsentSame DEF Rest
<1>4. Rest = (x \o c) \o d
  BY DEF Rest
<1>5. x \in Seq(UnitType) /\ c \in Seq(UnitType) /\ d \in Seq(UnitType) /\ Rest \in Seq(UnitType)
      /\ Carried(Rest) \in Seq(1 .. MaxBytes)
  BY WaitingType
<1> HIDE DEF u, x, c, d
<1>6. <<u>> \in Seq(UnitType)
  BY <1>2, Single
<1>7. Rest' = Rest \o <<u>>
  BY <1>3, <1>4, <1>5, <1>6, Regroup, SMTT(40)
<1>8. Carried(Rest \o <<u>>) = Carried(Rest) \o Carried(<<u>>)
  BY <1>5, <1>6, CarriedCat
<1>9. Carried(<<u>>) = <<>>
  BY <1>2, CarriedReply
<1>10. Carried(Rest) \o <<>> = Carried(Rest)
  BY <1>5, ConcatEmptySeq
<1>11. Carried(Rest') = Carried(Rest)
  BY <1>7, <1>8, <1>9, <1>10
<1> QED  BY <1>1, <1>11 DEF StreamStep, Waiting

LEMMA TrySubmitStream ==
    ASSUME CoreInv, CoreInv', TrySubmitSend, failures' = 0
    PROVE  StreamStep
<1>0. Nums
  BY CoreNums
<1>1. /\ Unsent' = (Unsent \o tls_pending_out) \o Egress(tx)
      /\ tls_pending_out' = <<>> /\ rustls' = <<>> /\ tx' = <<>>
      /\ wire' = wire
  BY TrySubmitGathers
<1> DEFINE b == Unsent \o tls_pending_out
           d == rustls
           e == Egress(tx)
<1>2. /\ b \in Seq(UnitType) /\ d \in Seq(UnitType) /\ tx \in Seq(1 .. MaxBytes)
      /\ Rest \in Seq(UnitType) /\ Carried(Rest) \in Seq(1 .. MaxBytes)
  BY WaitingType
<1>3. e \in Seq(UnitType)
  BY StagedType DEF CoreInv
<1>4. Rest' = ((b \o e) \o <<>>) \o <<>> /\ Rest = b \o d
  BY <1>1 DEF Rest
<1>5. \E t \in Seq(UnitType) : /\ Len(t) = Len(tx)
                               /\ \A i \in 1 .. Len(tx) : t[i].byte = tx[i]
                               /\ e = d \o t
  <2>1. /\ made \in Nat /\ MaxRecords \in Nat /\ made + Len(tx) <= MaxRecords
    BY <1>0 DEF Nums
  <2>2. e = IF tls THEN d \o Records(made, tx) ELSE Plaintext(tx)
    BY <1>2, <2>1, EgressType DEF CoreInv
  <2>3. CASE tls
    <3> DEFINE t == Records(made, tx)
    <3>1. /\ t \in Seq(UnitType) /\ Len(t) = Len(tx)
          /\ \A i \in 1 .. Len(tx) : t[i] = Unit(made + i, tx[i])
      BY <1>2, <2>1, RecordsType
    <3>2. e = d \o t
      BY <2>2, <2>3
    <3> HIDE DEF t, d, e
    <3>3. \A i \in 1 .. Len(tx) : t[i].byte = tx[i]
      BY <3>1, UnitFields
    <3> QED  BY <3>1, <3>2, <3>3
  <2>4. CASE ~tls
    <3> DEFINE t == Plaintext(tx)
    <3>1. /\ t \in Seq(UnitType) /\ Len(t) = Len(tx)
          /\ \A i \in 1 .. Len(tx) : t[i] = Unit(0, tx[i])
      BY <1>2, <2>1, PlaintextType
    <3>2. e = t /\ d = <<>>
      BY <2>2, <2>4 DEF CoreInv, FailInv
    <3> HIDE DEF t, d, e
    <3>3. \A i \in 1 .. Len(tx) : t[i].byte = tx[i]
      BY <3>1, UnitFields
    <3>4. <<>> \o t = t
      BY <3>1, ConcatEmptySeq
    <3> QED  BY <3>1, <3>2, <3>3, <3>4
  <2> QED  BY <2>3, <2>4
<1>6. Waiting' = Carried(Rest') \o <<>> /\ Waiting = Carried(Rest) \o tx
  BY <1>1 DEF Waiting
<1> HIDE DEF b, d, e
<1>7. PICK t \in Seq(UnitType) : /\ Len(t) = Len(tx)
                                 /\ \A i \in 1 .. Len(tx) : t[i].byte = tx[i]
                                 /\ e = d \o t
  BY <1>5
<1>8. b \o e \in Seq(UnitType)
  BY <1>2, <1>3, Cat
<1>9. (b \o e) \o <<>> = b \o e
  BY <1>8, ConcatEmptySeq
<1>10. Rest' = b \o e
  BY <1>4, <1>9
<1>11. (b \o d) \o t = b \o (d \o t)
  BY <1>2, Assoc, SMTT(40)
<1>12. Rest' = Rest \o t
  BY <1>4, <1>7, <1>10, <1>11
<1>13. Carried(t) = tx
  BY <1>2, <1>7, CarriedBytes
<1>14. Carried(Rest') = Waiting
  BY <1>2, <1>6, <1>12, <1>13, CarriedCat
<1>15. Waiting \in Seq(1 .. MaxBytes)
  BY WaitingType
<1>16. Waiting \o <<>> = Waiting
  BY <1>15, ConcatEmptySeq
<1>17. Waiting' = Waiting
  BY <1>6, <1>14, <1>16
<1> QED  BY <1>1, <1>17 DEF StreamStep

LEMMA KernelSendStream ==
    ASSUME CoreInv, CoreInv', KernelSend
    PROVE  StreamStep
<1>1. PICK part \in Seq(UnitType) : wire' = wire \o part /\ Unsent = part \o Unsent'
  BY KernelSendMoves
<1>2. tls_pending_out' = tls_pending_out /\ rustls' = rustls /\ tx' = tx
  BY DEF KernelSend, bufVars, tlsVars, wsVars
<1> DEFINE r == Unsent'
           c == tls_pending_out
           d == rustls
           p == Carried(part)
           q == Carried((r \o c) \o d)
<1>3. /\ wire \in Seq(UnitType) /\ c \in Seq(UnitType) /\ d \in Seq(UnitType)
      /\ tx \in Seq(1 .. MaxBytes)
  BY WaitingType
<1>4. r \in Seq(UnitType)
  <2>1. (Unsent \in Seq(UnitType))'
    BY UnsentIsRest, PTL
  <2> QED  BY <2>1
<1>5. Rest = ((part \o r) \o c) \o d /\ Rest' = (r \o c) \o d
  BY <1>1, <1>2 DEF Rest
<1> HIDE DEF r, c, d
<1>6. r \o c \in Seq(UnitType) /\ (r \o c) \o d \in Seq(UnitType)
  <2>1. r \o c \in Seq(UnitType)
    BY <1>3, <1>4, Cat
  <2> QED  BY <1>3, <2>1, Cat
<1>7. (part \o r) \o c = part \o (r \o c)
  BY <1>3, <1>4, Assoc
<1>8. (part \o (r \o c)) \o d = part \o ((r \o c) \o d)
  <2> DEFINE y == r \o c
  <2>1. y \in Seq(UnitType)
    BY <1>6
  <2> HIDE DEF y
  <2>2. (part \o y) \o d = part \o (y \o d)
    BY <1>3, <2>1, Assoc
  <2> QED  BY <2>2 DEF y
<1>9. Carried(Rest) = p \o q
  <2> DEFINE y == (r \o c) \o d
  <2>1. y \in Seq(UnitType) /\ Rest = part \o y
    BY <1>5, <1>6, <1>7, <1>8
  <2> HIDE DEF y
  <2>2. Carried(part \o y) = Carried(part) \o Carried(y)
    BY <2>1, CarriedCat
  <2> QED  BY <2>1, <2>2 DEF y
<1>10. Carried(wire)' = Carried(wire) \o p
  BY <1>1, <1>3, CarriedCat
<1>11. p \in Seq(1 .. MaxBytes) /\ q \in Seq(1 .. MaxBytes)
  BY <1>6, CarriedType
<1>12. Waiting = (p \o q) \o tx /\ Waiting' = q \o tx
  BY <1>2, <1>5, <1>9 DEF Waiting
<1> HIDE DEF p, q
<1> DEFINE v == q \o tx
<1>13. v \in Seq(1 .. MaxBytes)
  BY <1>3, <1>11, Cat
<1>14. Waiting = p \o v /\ Waiting' = v
  <2>1. (p \o q) \o tx = p \o (q \o tx)
    BY <1>3, <1>11, Assoc, SMTT(40)
  <2> QED  BY <1>12, <2>1
<1> HIDE DEF v
<1>15. /\ Len(p) \in Nat /\ Len(v) \in Nat /\ Len(p \o v) = Len(p) + Len(v)
       /\ SubSeq(p \o v, 1, Len(p)) = p
       /\ SubSeq(p \o v, Len(p) + 1, Len(p \o v)) = v
  BY <1>11, <1>13, Cat, SplitCat
<1>16. CASE p = <<>>
  <2>1. Carried(wire) \in Seq(1 .. MaxBytes)
    BY WaitingType
  <2>2. Carried(wire)' = Carried(wire)
    BY <1>10, <1>16, <2>1, ConcatEmptySeq
  <2>3. Waiting' = Waiting
    BY <1>13, <1>14, <1>16, ConcatEmptySeq
  <2> QED  BY <2>2, <2>3 DEF StreamStep
<1>17. CASE p # <<>>
  <2>1. Len(p) \in 1 .. Len(Waiting)
    <3>1. Len(p) # 0
      BY <1>11, <1>17, EmptySeq
    <3> QED  BY <1>14, <1>15, <3>1
  <2>2. /\ Carried(wire)' = Carried(wire) \o SubSeq(Waiting, 1, Len(p))
        /\ Waiting' = SubSeq(Waiting, Len(p) + 1, Len(Waiting))
    BY <1>10, <1>14, <1>15
  <2> QED  BY <2>1, <2>2 DEF StreamStep
<1> QED  BY <1>16, <1>17

LEMMA StreamNext ==
    ASSUME CoreInv, CoreInv', [Next]_vars, failures' = 0
    PROVE  failures = 0 /\ StreamStep
<1>0. Nums
  BY CoreNums
<1>1. CASE WriteFrame
  BY <1>1, WriteFrameStream DEF WriteFrame
<1>2. CASE Ingest
  BY <1>2, IngestStream DEF Ingest
<1>3. CASE RecvFails \/ EgressFails \/ KernelFails
  <2>1. failures' = failures + 1 /\ failures \in Nat
    BY <1>0, <1>3 DEF RecvFails, EgressFails, KernelFails, Fail, Nums
  <2> QED  BY <2>1
<1>4. CASE RecvReopens \/ UNCHANGED vars
  <2>1. /\ UNCHANGED <<send_buf, send_head, op>> /\ wire' = wire /\ tx' = tx
        /\ tls_pending_out' = tls_pending_out /\ rustls' = rustls /\ failures' = failures
    BY <1>4 DEF RecvReopens, vars, bufVars, tlsVars, wsVars
  <2>2. Rest' = Rest
    BY <2>1, UnsentSame DEF Rest
  <2> QED  BY <2>1, <2>2 DEF StreamStep, Waiting
<1>5. CASE TrySubmitSend
  BY <1>5, TrySubmitStream, TrySubmitGathers
<1>6. CASE OnSendCqe
  <2>1. /\ wire' = wire /\ tx' = tx /\ tls_pending_out' = tls_pending_out /\ rustls' = rustls
        /\ failures' = failures
    BY <1>6 DEF OnSendCqe, tlsVars, wsVars
  <2>2. Rest' = Rest
    BY <1>6, <2>1, OnSendCqeKeeps DEF Rest
  <2> QED  BY <2>1, <2>2 DEF StreamStep, Waiting
<1>7. CASE KernelSend
  BY <1>7, KernelSendStream DEF KernelSend
<1> QED  BY <1>1, <1>2, <1>3, <1>4, <1>5, <1>6, <1>7 DEF Next

\* The send path implements EgressStream: until the connection fails, what the client
\* writes leaves the socket in order, none lost and none twice, whatever the kernel
\* sends of a buffer at a time and whatever records TLS puts in between.
THEOREM SendPathIsStream == Spec => IsStream
<1>1. Init => Stream!Init
  <2> SUFFICES ASSUME Init PROVE Stream!Init
    OBVIOUS
  <2>1. CoreInv
    BY CoreInit
  <2>2. wire = <<>> /\ tx = <<>> /\ failures = 0
    BY DEF Init
  <2>3. Carried(wire) = <<>>
    BY <2>2, CarriedEmpty
  <2>4. Carried(Rest) = <<>>
    <3>1. Unsent = <<>>
      <4>1. Unsent = SubSeq(<<>>, 1, 0)
        BY EmptySeq DEF Unsent, Init, NoOp
      <4> QED  BY <4>1, SubSeqEmpty
    <3>2. rustls \in Seq(UnitType)
      BY <2>1, WaitingType
    <3>3. Rest = rustls
      <4>1. Rest = (<<>> \o <<>>) \o rustls
        BY <3>1 DEF Rest, Init
      <4>2. <<>> \o rustls = rustls /\ <<>> \o <<>> = <<>>
        BY <3>2, ConcatEmptySeq, EmptySeq
      <4> QED  BY <4>1, <4>2
    <3>4. CASE tls
      <4> DEFINE u == Unit(1, 0)
      <4>1. rustls = <<u>> /\ u.byte = 0
        BY <3>4, UnitFields DEF Init
      <4> HIDE DEF u
      <4>2. u \in UnitType
        <5>1. Len(rustls) = 1 /\ rustls[1] = u
          BY <4>1
        <5> QED  BY <3>2, <5>1, ElementOfSeq
      <4> QED  BY <3>3, <4>1, <4>2, CarriedReply
    <3>5. CASE ~tls
      BY <3>3, <3>5, CarriedEmpty DEF Init
    <3> QED  BY <3>4, <3>5
  <2>5. Waiting = <<>>
    <3>1. <<>> \o <<>> = <<>>
      BY ConcatEmptySeq, EmptySeq
    <3> QED  BY <2>2, <2>4, <3>1 DEF Waiting
  <2> QED  BY <2>2, <2>3, <2>5 DEF Stream!Init, Waiting, Rest
<1>2. CoreInv /\ CoreInv' /\ [Next]_vars => [Stream!Next]_<<Waiting, Carried(wire), failures > 0>>
  <2> SUFFICES ASSUME CoreInv, CoreInv', [Next]_vars
               PROVE  [Stream!Next]_<<Waiting, Carried(wire), failures > 0>>
    OBVIOUS
  <2>1. failures \in Nat /\ failures' \in Nat
    <3>1. Nums /\ Nums'
      BY CoreNums, PTL
    <3> QED  BY <3>1 DEF Nums
  <2>2. CASE failures' # 0
    BY <2>1, <2>2 DEF Stream!Next
  <2>3. CASE failures' = 0
    <3>1. failures = 0 /\ StreamStep
      BY <2>3, StreamNext
    <3> QED  BY <2>3, <3>1 DEF StreamStep, Stream!Next, Stream!Write, Stream!Transmit, Waiting, Rest
  <2> QED  BY <2>2, <2>3
<1>3. CoreInv /\ CoreInv' /\ [Next]_vars
      => [Stream!Next]_<<Carried(Unsent \o tls_pending_out \o rustls) \o tx,
                         Carried(wire), failures > 0>>
  BY <1>2 DEF Waiting, Rest
<1> QED  BY <1>1, <1>3, CoreAlways, PTL DEF Spec, IsStream, Stream!Spec

=============================================================================
