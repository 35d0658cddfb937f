----------------------------- MODULE PoolProofs -----------------------------
(***************************************************************************)
(* The safety of the pool's identities, for every number of slots, of      *)
(* generations and of buffer groups, and every size of the queues.         *)
(*                                                                         *)
(* The generation guard compares a token with the generation of the slot's *)
(* occupant, whereas NoAliasing speaks of which connection that is.  Inv   *)
(* ties the two together: the n-th occupant of a slot has generation n - 1 *)
(* (OccupantInv), and everything outstanding carries the token of its n-th *)
(* occupant (KernelInv).  Keeping that needs the free lists: a free slot   *)
(* has had exactly as many occupants as its generation says                *)
(* (OccupantInv), it is free once and not occupied (SlotsAccounted), and   *)
(* a blocking connect that fails retires a slot that is occupied           *)
(* (TargetLive).                                                           *)
(***************************************************************************)
EXTENDS Pool, SequenceTheorems, TLAPS

Result == [conn : Conn, err : BOOLEAN]

\* k2 is the same connection as k, whatever happened to it.
Same(k, k2) == k2 \in Conn /\ k2.gen = k.gen /\ k2.inc = k.inc /\ k2.bgid = k.bgid

\* fail_conn changes the state of a connection and nothing of its identity.
LEMMA FailedSame == \A k \in Conn : Same(k, Failed(k))
  BY DEF Same, Failed, Conn, State

\* Nor do sync_ws_open_state and sync_ws_close_state.
LEMMA SyncSame == \A k \in Conn : Same(k, SyncClose(SyncOpen(k)))
  BY DEF Same, SyncOpen, SyncClose, Conn, State

\* The WebSocket client stays within its states.
LEMMA WsOutcomesType ==
  ASSUME NEW ws, NEW o \in WsOutcomes(ws)
  PROVE  o.ws \in WsState /\ o.err \in BOOLEAN
  BY DEF WsOutcomes, WsResult

\* discard_completion_after_closed keeps the identity of the connection.
LEMMA DiscardSame ==
  ASSUME NEW k \in Conn, NEW c \in CqeType
  PROVE  Discard(k, c) \in Result /\ Same(k, Discard(k, c).conn)
  BY DEF Same, Discard, Ok, Res, Conn, Result, CqeType, Kind

\* So does on_send_cqe.
LEMMA SendSame ==
  ASSUME NEW k \in Conn, NEW c \in CqeType
  PROVE  OnSendCqe(k, c) \in Result /\ Same(k, OnSendCqe(k, c).conn)
  BY DEF Same, OnSendCqe, Res, Conn, Result, CqeType, Kind

\* So does the end of the TLS handshake.
LEMMA TlsAdvancedSame ==
  ASSUME NEW k \in Conn, NEW a \in TlsAdvanced(k)
  PROVE  Same(k, a)
  BY DEF TlsAdvanced, Same, Conn, State

\* So does a close_notify.
LEMMA CloseNotifySame ==
  ASSUME NEW k \in Conn, NEW cn \in BOOLEAN
  PROVE  Same(k, CloseNotify(k, cn))
  BY DEF CloseNotify, Same, Conn, State

\* So does feeding bytes to the client.
LEMMA FedSame ==
  ASSUME NEW k \in Conn
  PROVE  Same(k, Fed(k))
  BY DEF Same, Conn, Fed

\* So does draining the client.
LEMMA DrainedSame ==
  ASSUME NEW k \in Conn, NEW ws \in WsState
  PROVE  Same(k, Drained(k, ws))
  BY DEF Same, Conn, Drained

\* A handler that returns the same connection, with an error or not.
LEMMA ResSame ==
  ASSUME NEW k, NEW j, Same(k, j), NEW e \in BOOLEAN
  PROVE  Res(j, e) \in Result /\ Same(k, Res(j, e).conn)
  BY DEF Same, Res, Result

\* Being the same connection is transitive.
LEMMA SameTrans ==
  ASSUME NEW j, NEW k, NEW l, Same(j, k), Same(k, l)
  PROVE  Same(j, l)
  BY DEF Same

\* on_recv_cqe with bytes keeps the identity of the connection.
LEMMA RecvFeedSame ==
  ASSUME NEW k \in Conn, NEW r \in RecvFeed(k)
  PROVE  r \in Result /\ Same(k, r.conn)
<1>1. CASE r = Ok(Fed(k))
  BY <1>1, FedSame, ResSame DEF Ok
<1>2. CASE r = Err(k)
  BY <1>2, ResSame DEF Err, Same
<1>3. ASSUME NEW a \in TlsAdvanced(k), NEW cn \in BOOLEAN,
             r = Ok(CloseNotify(a, cn)) \/ r = Ok(CloseNotify(Fed(a), cn))
      PROVE  r \in Result /\ Same(k, r.conn)
  <2>1. Same(k, a) BY TlsAdvancedSame
  <2>2. Same(k, Fed(a)) BY <2>1, FedSame, SameTrans DEF Same
  <2>3. Same(k, CloseNotify(a, cn)) /\ Same(k, CloseNotify(Fed(a), cn))
    BY <2>1, <2>2, CloseNotifySame, SameTrans DEF Same
  <2> QED BY <1>3, <2>3, ResSame DEF Ok
<1>4. CASE r \in RecvFeedTls(k)
  BY <1>2, <1>3, <1>4 DEF RecvFeedTls
<1> QED BY <1>1, <1>4 DEF RecvFeed, RecvFeedPlain

\* So do the handlers of the data pumps.
LEMMA RecvDrainSame ==
  ASSUME NEW k \in Conn, NEW r \in RecvDrain(k)
  PROVE  r \in Result /\ Same(k, r.conn)
<1>1. CASE r \in RecvDrainPlain(k)
  <2>1. PICK o \in WsOutcomes(k.ws) : r = Res(Drained(k, o.ws), o.err)
    BY <1>1 DEF RecvDrainPlain
  <2>2. o.ws \in WsState /\ o.err \in BOOLEAN
    BY WsOutcomesType
  <2> QED BY <2>1, <2>2, DrainedSame, ResSame
<1>2. CASE r = Err(k)
  BY <1>2, ResSame DEF Err, Same
<1>3. CASE \E a \in TlsAdvanced(k), cn \in BOOLEAN : r = Ok(CloseNotify(a, cn))
  <2>1. PICK a \in TlsAdvanced(k), cn \in BOOLEAN : r = Ok(CloseNotify(a, cn))
    BY <1>3
  <2>2. Same(k, a) BY TlsAdvancedSame
  <2>3. Same(k, CloseNotify(a, cn)) BY <2>2, CloseNotifySame, SameTrans DEF Same
  <2> QED BY <2>1, <2>3, ResSame DEF Ok
<1>4. CASE \E a \in TlsAdvanced(k), o \in WsOutcomes(k.ws), cn \in BOOLEAN, e \in BOOLEAN :
              r = Res(CloseNotify(Drained(a, o.ws), cn), e)
  <2>1. PICK a \in TlsAdvanced(k), o \in WsOutcomes(k.ws), cn \in BOOLEAN, e \in BOOLEAN :
              r = Res(CloseNotify(Drained(a, o.ws), cn), e)
    BY <1>4
  <2>2. Same(k, a) BY TlsAdvancedSame
  <2>3. o.ws \in WsState BY WsOutcomesType
  <2>4. Same(k, Drained(a, o.ws)) BY <2>2, <2>3, DrainedSame, SameTrans DEF Same
  <2>5. Same(k, CloseNotify(Drained(a, o.ws), cn))
    BY <2>4, CloseNotifySame, SameTrans DEF Same
  <2> QED BY <2>1, <2>5, ResSame
<1>5. CASE \E a \in TlsAdvanced(k), o \in WsOutcomes(k.ws) : r = Err(Drained(a, o.ws))
  <2>1. PICK a \in TlsAdvanced(k), o \in WsOutcomes(k.ws) : r = Err(Drained(a, o.ws))
    BY <1>5
  <2>2. Same(k, a) /\ o.ws \in WsState BY TlsAdvancedSame, WsOutcomesType
  <2>3. Same(k, Drained(a, o.ws)) BY <2>2, DrainedSame, SameTrans DEF Same
  <2> QED BY <2>1, <2>3, ResSame DEF Err
<1>6. CASE r \in RecvDrainTls(k)
  <2>1. \A o \in WsOutcomes(k.ws) :
          (o.err \/ (k.state = "TlsHandshake" /\ o.ws # "Connecting")) \in BOOLEAN
    BY WsOutcomesType
  <2>2. \/ r = Err(k)
        \/ \E a \in TlsAdvanced(k), cn \in BOOLEAN : r = Ok(CloseNotify(a, cn))
        \/ \E a \in TlsAdvanced(k), o \in WsOutcomes(k.ws), cn \in BOOLEAN :
             r = Res(CloseNotify(Drained(a, o.ws), cn),
                     o.err \/ (k.state = "TlsHandshake" /\ o.ws # "Connecting"))
        \/ \E a \in TlsAdvanced(k), o \in WsOutcomes(k.ws) : r = Err(Drained(a, o.ws))
    BY <1>6 DEF RecvDrainTls
  <2> QED BY <1>2, <1>3, <1>4, <1>5, <2>1, <2>2
<1> QED BY <1>1, <1>6 DEF RecvDrain

\* Whatever handle_completion does, the connection stays the same one.
LEMMA HandleCompletionSame ==
  ASSUME NEW k \in Conn, NEW c \in CqeType, NEW r \in HandleCompletion(k, c)
  PROVE  r \in Result /\ Same(k, r.conn)
<1> DEFINE seen == [k EXCEPT !.armed = @ /\ c.more]
<1>1. Same(k, seen) BY DEF Same, Conn, CqeType
<1>2. CASE r \in OnRecvCqe(k, c)
  <2>1. CASE c.res = "eof"
    <3>1. r = Err(Failed(seen)) BY <1>2, <2>1 DEF OnRecvCqe
    <3>2. Same(k, Failed(seen)) BY <1>1, FailedSame, SameTrans DEF Same
    <3> QED BY <3>1, <3>2, ResSame DEF Err
  <2>2. CASE c.res = "nobufs"
    <3>1. r = Ok([seen EXCEPT !.armed = FALSE]) BY <1>2, <2>2 DEF OnRecvCqe
    <3>2. Same(k, [seen EXCEPT !.armed = FALSE]) BY <1>1 DEF Same, Conn
    <3> QED BY <3>1, <3>2, ResSame DEF Ok
  <2>3. CASE c.res = "err"
    <3>1. r = Err(seen) BY <1>2, <2>3 DEF OnRecvCqe
    <3> QED BY <3>1, <1>1, ResSame DEF Err
  <2>4. CASE c.res \notin {"eof", "nobufs", "err"}
    <3>1. r \in RecvDrain(seen) \/ r \in RecvFeed(seen)
      BY <1>2, <2>4 DEF OnRecvCqe
    <3> QED BY <3>1, <1>1, RecvDrainSame, RecvFeedSame DEF Same
  <2> QED BY <2>1, <2>2, <2>3, <2>4
<1> QED BY <1>2, DiscardSame, SendSame DEF HandleCompletion
-----------------------------------------------------------------------------
(* The inductive invariant. *)

SlotType ==
    /\ conns \in [ConnIds -> Conn \cup {None}]
    /\ generations \in [ConnIds -> Generations]
    /\ born \in [ConnIds -> Nat]
    /\ free_conn_ids \in Seq(ConnIds)
    /\ free_bgids \in Seq(Bgids)
    /\ active_count \in Nat
    /\ next_conn_id \in 0 .. ConnIdMask + 1
    /\ next_bgid \in 0 .. BgidMax
    /\ refused \subseteq Bgids

PumpType ==
    /\ phase \in {"idle", "resubmit", "submit", "wait", "dispatch", "poll", "target",
                  "failed", "dropped"}
    /\ mode \in {"none", "general", "data", "spin", "open"}
    /\ cur \in Nat
    /\ target \in ConnIds
    /\ first_err \in BOOLEAN
    /\ registered \subseteq Bgids

\* A blocking connect has its connection until it returns.
TargetLive ==
    /\ phase = "idle" => mode = "none"
    /\ phase \in {"target", "failed"} => mode = "open"
    /\ mode = "open" /\ phase # "resubmit" => IsLive(target)

\* The token of an operation says which occupant of which slot submitted it: the
\* n-th occupant of a slot has generation n - 1.
Own(c) == \E s \in ConnIds : /\ c.inc \in 1 .. GenerationMask + 1
                             /\ c.token = Token(s, c.inc - 1)

OwnOps == {o \in OpType : Own(o)}
OwnCqes == {c \in CqeType : Own(c)}

KernelInv ==
    /\ sq \in Seq(OwnOps)
    /\ ops \subseteq OwnOps
    /\ cq \in Seq(OwnCqes)
    /\ buf \in Seq(OwnCqes)

FreeConnId(s) == \E i \in 1 .. Len(free_conn_ids) : free_conn_ids[i] = s

\* Generations count the occupants of a slot.
OccupantInv ==
    \A s \in ConnIds :
        /\ IsLive(s) => /\ conns[s].gen = generations[s]
                        /\ conns[s].inc = generations[s] + 1
                        /\ born[s] = generations[s] + 1
        /\ (s >= next_conn_id \/ FreeConnId(s)) => born[s] = generations[s]

BgidInv ==
    /\ BgidExclusive
    /\ \A s \in LiveIds : conns[s].bgid < next_bgid

Inv ==
    /\ SlotType
    /\ PumpType
    /\ TargetLive
    /\ KernelInv
    /\ SlotsAccounted
    /\ OccupantInv
    /\ BgidInv

\* The ghosts nothing else depends on.
GhostType ==
    /\ reopened \in BOOLEAN
    /\ leaked \subseteq Bgids

\* The inductive invariant contains the type invariant.
LEMMA InvTypeOK == Inv /\ GhostType => TypeOK
<1> SUFFICES ASSUME Inv, GhostType PROVE TypeOK OBVIOUS
<1>1. sq \in Seq(OpType) BY DEF Inv, KernelInv, OwnOps
<1>2. cq \in Seq(CqeType) /\ buf \in Seq(CqeType) BY DEF Inv, KernelInv, OwnCqes
<1>3. ops \subseteq OpType BY DEF Inv, KernelInv, OwnOps
<1> QED BY <1>1, <1>2, <1>3 DEF Inv, SlotType, PumpType, GhostType, TypeOK

\* encode_conn_token: different slots or generations give different tokens.
LEMMA TokenInjective ==
  ASSUME NEW s \in ConnIds, NEW t \in ConnIds, NEW g \in Nat, NEW h \in Nat,
         Token(s, g) = Token(t, h)
  PROVE  s = t /\ g = h
  BY PoolAssumption, SMTT(30) DEF Token, ConnIds

\* A token is a number.
LEMMA TokenType ==
  ASSUME NEW s \in ConnIds, NEW g \in Nat
  PROVE  Token(s, g) \in Nat
  BY PoolAssumption DEF Token, ConnIds

\* The occupant an operation routes to has the generation in its token, and a
\* generation has one occupant: the one that submitted the operation.
LEMMA InvNoAliasing == Inv => NoAliasing
<1> SUFFICES ASSUME Inv, NEW c \in Outstanding, NEW s \in ConnIds, Routes(c, s)
             PROVE  c.inc = conns[s].inc
  BY DEF NoAliasing
<1>1. Own(c)
  BY DEF Inv, KernelInv, Outstanding, OwnOps, OwnCqes
<1>2. PICK t \in ConnIds : c.inc \in 1 .. GenerationMask + 1 /\ c.token = Token(t, c.inc - 1)
  BY <1>1 DEF Own
<1>3. conns[s] \in Conn /\ Token(s, conns[s].gen) = Token(t, c.inc - 1)
  BY <1>2 DEF Routes, Inv, SlotType, IsLive
<1>4. conns[s].gen = c.inc - 1
  BY <1>2, <1>3, TokenInjective, PoolAssumption DEF Conn, Generations
<1>5. conns[s].inc = conns[s].gen + 1
  BY DEF Inv, OccupantInv, Routes
<1> QED BY <1>2, <1>4, <1>5, PoolAssumption

\* An empty pool satisfies the invariant.
LEMMA InitInv == Init => Inv
<1> SUFFICES ASSUME Init PROVE Inv OBVIOUS
<1> USE PoolAssumption
<1>1. SlotType /\ PumpType /\ TargetLive
  BY DEF Init, SlotType, PumpType, TargetLive, ConnIds, Generations
<1>2. KernelInv
  BY DEF Init, KernelInv
<1>3. SlotsAccounted /\ OccupantInv
  BY DEF Init, SlotsAccounted, OccupantInv, IsLive, FreeConnId, ConnIds
<1>4. BgidInv
  BY DEF Init, BgidInv, BgidExclusive, LiveIds, IsLive, ConnIds
<1> QED BY <1>1, <1>2, <1>3, <1>4 DEF Inv

-----------------------------------------------------------------------------
(* Steps that leave every slot with its occupant. *)

ConnsKept ==
    /\ conns' \in [ConnIds -> Conn \cup {None}]
    /\ \A s \in ConnIds : /\ conns[s] = None <=> conns'[s] = None
                          /\ conns[s] # None => Same(conns[s], conns'[s])

\* A step that leaves the slot table alone keeps its occupants.
LEMMA UnchangedKept == SlotType /\ UNCHANGED conns => ConnsKept
  BY DEF SlotType, ConnsKept, Same

\* So does one that changes one connection and not its identity.
LEMMA UpdateKept ==
  ASSUME SlotType, NEW s \in ConnIds, IsLive(s), NEW k, Same(conns[s], k),
         conns' = [conns EXCEPT ![s] = k]
  PROVE  ConnsKept
<1>1. k \in Conn /\ k # None BY PoolAssumption DEF Same
<1> QED BY <1>1 DEF SlotType, ConnsKept, Same, IsLive

\* finish_conn_result and fail_conn_and_account keep every occupant, and the
\* count of active connections does not go below zero.
LEMMA FinishKept ==
  ASSUME SlotType, PumpType, NEW s \in ConnIds, IsLive(s),
         NEW r \in Result, Same(conns[s], r.conn), FinishConnResult(s, conns[s], r)
  PROVE  ConnsKept /\ active_count' \in Nat /\ first_err' \in BOOLEAN
<1> DEFINE done == IF r.err THEN Failed(r.conn) ELSE SyncClose(SyncOpen(r.conn))
<1>1. Same(r.conn, done) BY FailedSame, SyncSame DEF Result
<1>2. Same(conns[s], done) BY <1>1, SameTrans
<1>3. conns' = [conns EXCEPT ![s] = done] BY DEF FinishConnResult
<1>4. ConnsKept BY <1>2, <1>3, UpdateKept
<1>5. active_count' \in Nat BY DEF FinishConnResult, Dec, SlotType
<1>6. first_err' \in BOOLEAN BY DEF FinishConnResult, Result, PumpType
<1> QED BY <1>4, <1>5, <1>6

\* What concerns slots, generations and buffer groups is kept with the occupants.
LEMMA KeptInv ==
  ASSUME Inv, ConnsKept, UNCHANGED idVars, active_count' \in Nat
  PROVE  SlotType' /\ SlotsAccounted' /\ OccupantInv' /\ BgidInv'
<1>1. SlotType' BY DEF Inv, SlotType, idVars, ConnsKept
<1>2. SlotsAccounted'
  BY DEF Inv, SlotsAccounted, idVars, ConnsKept, IsLive
<1>3. OccupantInv'
  BY DEF Inv, OccupantInv, idVars, ConnsKept, IsLive, FreeConnId, Same
<1>4. \A s \in ConnIds : s \in LiveIds' => s \in LiveIds /\ conns'[s].bgid = conns[s].bgid
  BY DEF LiveIds, IsLive, ConnsKept, Same
<1>5. BgidInv'
  BY <1>4 DEF Inv, BgidInv, BgidExclusive, idVars, LiveIds
<1> QED BY <1>1, <1>2, <1>3, <1>5

\* The SQE of a live connection carries the token of its occupant.
LEMMA OpOwn ==
  ASSUME Inv, NEW s \in ConnIds, IsLive(s), NEW k, Same(conns[s], k), NEW kind \in Kind
  PROVE  Op(kind, s, k) \in OwnOps
<1> DEFINE o == Op(kind, s, k)
<1>1. /\ o.kind = kind
      /\ o.token = Token(s, k.gen)
      /\ o.bgid = k.bgid
      /\ o.inc = k.inc
      /\ o = [kind |-> kind, token |-> Token(s, k.gen), bgid |-> k.bgid, inc |-> k.inc]
  BY DEF Op
<1>2. k \in Conn /\ k.inc = k.gen + 1 /\ k.gen \in 0 .. GenerationMask
  BY DEF Same, Inv, OccupantInv, Conn, Generations
<1>3. k.inc \in 1 .. GenerationMask + 1 /\ k.inc - 1 = k.gen
  BY <1>2, PoolAssumption
<1>4. Own(o) BY <1>1, <1>3 DEF Own
<1>5. Token(s, k.gen) \in Nat /\ k.bgid \in Bgids /\ k.inc \in Nat
  BY <1>2, TokenType DEF Conn
<1>6. o \in OpType BY <1>1, <1>5 DEF OpType
<1> QED BY <1>4, <1>6 DEF OwnOps

CqeRes == {"ok", "err", "data", "eof", "nobufs"}

\* A CQE carries the token of its operation.
LEMMA CqeOwn ==
  ASSUME NEW op \in OwnOps, NEW res \in CqeRes, NEW more \in BOOLEAN
  PROVE  Cqe(op, res, more) \in OwnCqes
<1>1. op \in OpType BY DEF OwnOps
<1>2. Cqe(op, res, more) \in CqeType BY <1>1 DEF Cqe, CqeType, CqeRes, OpType
<1>3. Own(op) BY DEF OwnOps
<1>4. Own(Cqe(op, res, more)) BY <1>3 DEF Own, Cqe
<1> QED BY <1>2, <1>4 DEF OwnCqes

-----------------------------------------------------------------------------
(* One lemma per action. *)

\* initiate_close preserves the invariant.
LEMMA InitiateCloseInv ==
  ASSUME Inv, NEW s \in ConnIds, InitiateClose(s)
  PROVE  Inv'
<1> DEFINE k == [conns[s] EXCEPT !.ws = IF @ = "Open" THEN "Closing" ELSE @,
                                 !.state = IF @ = "Open" THEN "Closing" ELSE @]
<1>1. conns[s] \in Conn BY DEF Inv, SlotType, InitiateClose, IsLive
<1>2. Same(conns[s], k) BY <1>1 DEF Same, Conn, State, WsState
<1>3. conns' = [conns EXCEPT ![s] = k] BY DEF InitiateClose
<1>4. ConnsKept BY <1>2, <1>3, UpdateKept DEF InitiateClose, Inv
<1>5. UNCHANGED idVars /\ UNCHANGED <<active_count, pumpVars, kernelVars>>
  BY DEF InitiateClose, idVars
<1>6. SlotType' /\ SlotsAccounted' /\ OccupantInv' /\ BgidInv'
  BY <1>4, <1>5, KeptInv DEF Inv, SlotType
<1>7. PumpType' BY <1>5 DEF Inv, PumpType, pumpVars, kernelVars
<1>8. TargetLive' BY <1>4, <1>5 DEF Inv, TargetLive, pumpVars, ConnsKept, IsLive, PumpType
<1>9. KernelInv' BY <1>5 DEF Inv, KernelInv, pumpVars, kernelVars
<1> QED BY <1>6, <1>7, <1>8, <1>9 DEF Inv

\* Steps of the pump and of the kernel that do not touch the pool's own state.
LEMMA QuietInv ==
  ASSUME Inv, UNCHANGED slotVars, PumpType', TargetLive', KernelInv'
  PROVE  Inv'
<1>1. ConnsKept BY UnchangedKept DEF Inv, slotVars
<1>2. UNCHANGED idVars /\ active_count' \in Nat BY DEF slotVars, idVars, Inv, SlotType
<1> QED BY <1>1, <1>2, KeptInv DEF Inv

\* Returning to the caller leaves no blocking connect behind.
LEMMA ReturnType ==
  ASSUME Return, registered' \subseteq Bgids
  PROVE  PumpType' /\ TargetLive'
<1>1. 0 \in ConnIds BY PoolAssumption DEF ConnIds
<1> QED BY <1>1 DEF Return, PumpType, TargetLive

\* Beginning a pump preserves the invariant.
LEMMA PumpBeginInv ==
  ASSUME Inv, NEW m \in PumpModes, PumpBegin(m)
  PROVE  Inv'
<1> USE DEF Inv, PumpBegin, StartRound
<1>1. m \in {"general", "data", "spin"} BY PoolAssumption
<1>2. PumpType' BY <1>1 DEF PumpType, kernelVars
<1>3. TargetLive' BY <1>1 DEF TargetLive
<1>4. KernelInv' BY DEF KernelInv, kernelVars
<1> QED BY <1>2, <1>3, <1>4, QuietInv

\* Drop for Pool preserves the invariant.
LEMMA DropPoolInv ==
  ASSUME Inv, DropPool
  PROVE  Inv'
<1> USE DEF Inv, DropPool
<1>1. registered' \subseteq registered OBVIOUS
<1>2. PumpType' BY <1>1 DEF PumpType
<1>3. TargetLive' BY DEF TargetLive
<1>4. KernelInv' BY DEF KernelInv
<1> QED BY <1>2, <1>3, <1>4, QuietInv

\* proactor.submit preserves the invariant.
LEMMA SubmitInv ==
  ASSUME Inv, Submit
  PROVE  Inv'
<1> USE DEF Inv, Submit
<1>1. PumpType' BY DEF PumpType
<1>2. TargetLive' BY DEF TargetLive, IsLive, slotVars
<1>3. KernelInv' BY DEF KernelInv
<1> QED BY <1>1, <1>2, <1>3, QuietInv

\* A failed submit preserves the invariant.
LEMMA SubmitErrorInv ==
  ASSUME Inv, SubmitError
  PROVE  Inv'
<1> USE DEF Inv, SubmitError
<1>0. KernelInv' BY DEF KernelInv, kernelVars
<1>1. CASE Return
  <2>1. PumpType' /\ TargetLive' BY <1>1, ReturnType DEF PumpType, kernelVars
  <2> QED BY <2>1, <1>0, QuietInv
<1>2. CASE ~Return
  <2>1. PumpType' BY <1>2 DEF PumpType, kernelVars
  <2>2. TargetLive' BY <1>2 DEF TargetLive, IsLive, slotVars
  <2> QED BY <2>1, <2>2, <1>0, QuietInv
<1> QED BY <1>1, <1>2

\* drain_completions preserves the invariant.
LEMMA DrainInv ==
  ASSUME Inv, Drain
  PROVE  Inv'
<1> USE DEF Inv, Drain
<1>1. PumpType' BY DEF PumpType
<1>2. TargetLive' BY DEF TargetLive, IsLive, slotVars
<1>3. KernelInv' BY DEF KernelInv
<1> QED BY <1>1, <1>2, <1>3, QuietInv

\* Dropping a CQE that routes nowhere preserves the invariant.
LEMMA DropStaleInv ==
  ASSUME Inv, DropStale
  PROVE  Inv'
<1> USE DEF Inv, DropStale, Dispatching
<1>1. PumpType' BY DEF PumpType, kernelVars
<1>2. TargetLive' BY DEF TargetLive, IsLive, slotVars
<1>3. KernelInv' BY DEF KernelInv, kernelVars
<1> QED BY <1>1, <1>2, <1>3, QuietInv

\* The end of a dispatch preserves the invariant.
LEMMA EndDispatchInv ==
  ASSUME Inv, EndDispatch
  PROVE  Inv'
<1> USE DEF Inv, EndDispatch
<1>0. KernelInv' BY DEF KernelInv, kernelVars
<1>1. CASE Return
  <2>1. PumpType' /\ TargetLive' BY <1>1, ReturnType DEF PumpType, kernelVars
  <2> QED BY <2>1, <1>0, QuietInv
<1>2. CASE ~Return
  <2>1. PumpType' BY <1>2 DEF PumpType, kernelVars
  <2>2. TargetLive' BY <1>2 DEF TargetLive, IsLive, slotVars
  <2> QED BY <2>1, <2>2, <1>0, QuietInv
<1> QED BY <1>1, <1>2

\* The end of the polling of pump_impl preserves the invariant.
LEMMA PollEndInv ==
  ASSUME Inv, PollEnd
  PROVE  Inv'
<1> USE DEF Inv, PollEnd
<1>1. PumpType' /\ TargetLive' BY ReturnType DEF PumpType, kernelVars
<1>2. KernelInv' BY DEF KernelInv, kernelVars
<1> QED BY <1>1, <1>2, QuietInv

\* A step of the kernel preserves the invariant.
LEMMA KernelStepInv ==
  ASSUME Inv, Kernel
  PROVE  Inv'
<1>1. PICK op \in ops : KernelComplete(op) \/ KernelRecv(op) BY DEF Kernel
<1>2. op \in OwnOps BY DEF Inv, KernelInv
<1>3. UNCHANGED <<pumpVars, slotVars, sq, registered>> /\ ops' \subseteq ops
  BY <1>1 DEF KernelComplete, KernelRecv
<1>4. \E res \in CqeRes, more \in BOOLEAN : cq' = Append(cq, Cqe(op, res, more))
  BY <1>1 DEF KernelComplete, KernelRecv, CqeRes
<1>5. cq' \in Seq(OwnCqes) BY <1>2, <1>4, CqeOwn DEF Inv, KernelInv
<1>6. KernelInv' BY <1>3, <1>5 DEF Inv, KernelInv, pumpVars
<1>7. PumpType' BY <1>3 DEF Inv, PumpType, pumpVars
<1>8. TargetLive' BY <1>3 DEF Inv, TargetLive, IsLive, pumpVars, slotVars
<1> QED BY <1>3, <1>6, <1>7, <1>8, QuietInv

-----------------------------------------------------------------------------

\* What a step that works on one connection has to keep.
LEMMA KeptStepInv ==
  ASSUME Inv, ConnsKept, UNCHANGED idVars, active_count' \in Nat,
         PumpType', KernelInv',
         phase' = "idle" => mode' = "none",
         phase' \in {"target", "failed"} => mode' = "open",
         mode' = "open" => mode = "open" /\ phase # "resubmit" /\ target' = target
  PROVE  Inv'
<1>1. TargetLive' BY DEF Inv, TargetLive, ConnsKept, IsLive, PumpType
<1> QED BY <1>1, KeptInv DEF Inv

\* The slot a pump visits is a slot.
LEMMA CurConnId ==
  ASSUME Inv, cur < next_conn_id
  PROVE  cur \in ConnIds
  BY PoolAssumption DEF Inv, PumpType, SlotType, ConnIds

\* try_submit_send and try_rearm_multishot keep the connection and add at most
\* its own operations to the submission queue.
Submission == [conn : Conn, err : BOOLEAN, q : Seq(OwnOps)]

\* try_submit_send adds at most a Send of this connection to the queue.
LEMMA TrySubmitSendSame ==
  ASSUME Inv, NEW s \in ConnIds, IsLive(s), NEW r \in TrySubmitSend(s, conns[s])
  PROVE  r \in Submission /\ Same(conns[s], r.conn)
<1> DEFINE k == conns[s]
           nothing == [conn |-> k, err |-> FALSE, q |-> sq]
           failed == [conn |-> k, err |-> TRUE, q |-> sq]
           sent == [conn |-> [k EXCEPT !.inflight = TRUE], err |-> FALSE,
                    q |-> Append(sq, Op("Send", s, k))]
<1>1. k \in Conn /\ Same(k, k) BY DEF Inv, SlotType, IsLive, Same
<1>2. Same(k, [k EXCEPT !.inflight = TRUE]) BY <1>1 DEF Same, Conn
<1>3. sq \in Seq(OwnOps) BY DEF Inv, KernelInv
<1>4. Append(sq, Op("Send", s, k)) \in Seq(OwnOps) BY <1>1, <1>3, OpOwn DEF Kind
<1>5. r \in {nothing, failed, sent} BY DEF TrySubmitSend
<1>6. CASE r = nothing BY <1>6, <1>1, <1>3 DEF Submission
<1>7. CASE r = failed BY <1>7, <1>1, <1>3 DEF Submission
<1>8. CASE r = sent BY <1>8, <1>2, <1>4 DEF Submission, Same
<1> QED BY <1>5, <1>6, <1>7, <1>8

\* try_rearm_multishot adds at most a Recv of this connection to the queue.
LEMMA TryRearmSame ==
  ASSUME Inv, NEW s \in ConnIds, IsLive(s), NEW k, Same(conns[s], k), NEW q \in Seq(OwnOps)
  PROVE  TryRearm(s, k, q) \in Submission /\ Same(conns[s], TryRearm(s, k, q).conn)
<1> DEFINE r == TryRearm(s, k, q)
           nothing == [conn |-> k, err |-> FALSE, q |-> q]
           failed == [conn |-> k, err |-> TRUE, q |-> q]
           armed == [conn |-> [k EXCEPT !.armed = TRUE], err |-> FALSE,
                     q |-> Append(q, Op("Recv", s, k))]
<1>1. k \in Conn BY DEF Same
<1>2. Same(conns[s], [k EXCEPT !.armed = TRUE]) BY <1>1 DEF Same, Conn
<1>3. Append(q, Op("Recv", s, k)) \in Seq(OwnOps) BY OpOwn DEF Kind
<1>4. r = nothing \/ r = failed \/ r = armed BY DEF TryRearm
<1>5. CASE r = nothing BY <1>5, <1>1 DEF Submission
<1>6. CASE r = failed BY <1>6, <1>1 DEF Submission
<1>7. CASE r = armed
  <2>1. armed \in Submission BY <1>2, <1>3 DEF Submission, Same
  <2>2. armed.conn = [k EXCEPT !.armed = TRUE] OBVIOUS
  <2> QED BY <1>7, <1>2, <2>1, <2>2
<1> QED BY <1>4, <1>5, <1>6, <1>7

\* submit_conn_ops preserves the invariant.
LEMMA SubmitConnOpsInv ==
  ASSUME Inv, SubmitConnOps
  PROVE  Inv'
<1>1. cur \in ConnIds BY CurConnId DEF SubmitConnOps
<1>2. /\ UNCHANGED idVars
      /\ UNCHANGED <<phase, mode, target, buf, ops, cq, registered>>
      /\ cur' = cur + 1
      /\ phase = "submit"
  BY DEF SubmitConnOps, idVars
<1>3. /\ ConnsKept
      /\ active_count' \in Nat
      /\ first_err' \in BOOLEAN
      /\ sq' \in Seq(OwnOps)
  <2>1. CASE ~IsLive(cur)
    <3>1. UNCHANGED <<conns, active_count, first_err, sq>> BY <2>1 DEF SubmitConnOps
    <3> QED BY <3>1, UnchangedKept DEF Inv, SlotType, PumpType, KernelInv
  <2>2. CASE IsLive(cur)
    <3>1. PICK sent \in TrySubmitSend(cur, conns[cur]) :
            LET r == IF sent.err THEN sent ELSE TryRearm(cur, sent.conn, sent.q)
            IN  /\ sq' = r.q
                /\ IF r.err
                   THEN FinishConnResult(cur, conns[cur], Err(r.conn))
                   ELSE /\ conns' = [conns EXCEPT ![cur] = r.conn]
                        /\ UNCHANGED <<active_count, first_err>>
      BY <2>2 DEF SubmitConnOps
    <3> DEFINE r == IF sent.err THEN sent ELSE TryRearm(cur, sent.conn, sent.q)
    <3>2. sent \in Submission /\ Same(conns[cur], sent.conn)
      BY <1>1, <2>2, TrySubmitSendSame
    <3>3. r \in Submission /\ Same(conns[cur], r.conn)
      BY <1>1, <2>2, <3>2, TryRearmSame DEF Submission
    <3>4. sq' \in Seq(OwnOps) BY <3>1, <3>3 DEF Submission
    <3>5. CASE r.err
      <4>1. FinishConnResult(cur, conns[cur], Err(r.conn)) BY <3>1, <3>5
      <4>2. Err(r.conn) \in Result /\ Same(conns[cur], Err(r.conn).conn)
        BY <3>3, ResSame DEF Err
      <4> HIDE DEF r
      <4> QED BY <1>1, <2>2, <3>4, <4>1, <4>2, FinishKept DEF Inv
    <3>6. CASE ~r.err
      <4>1. conns' = [conns EXCEPT ![cur] = r.conn] /\ UNCHANGED <<active_count, first_err>>
        BY <3>1, <3>6
      <4> HIDE DEF r
      <4>2. ConnsKept BY <1>1, <2>2, <3>3, <4>1, UpdateKept DEF Inv
      <4> QED BY <3>4, <4>1, <4>2 DEF Inv, SlotType, PumpType
    <3> QED BY <3>5, <3>6
  <2> QED BY <2>1, <2>2
<1>4. PumpType' BY <1>2, <1>3 DEF Inv, PumpType
<1>5. KernelInv' BY <1>2, <1>3 DEF Inv, KernelInv
<1> QED BY <1>2, <1>3, <1>4, <1>5, KeptStepInv DEF Inv, TargetLive

\* on_connect_cqe preserves the invariant.
LEMMA OnConnectCqeInv ==
  ASSUME Inv, NEW s \in ConnIds, OnConnectCqe(s)
  PROVE  Inv'
<1> DEFINE k == conns[s]
           up == [k EXCEPT !.ring = TRUE, !.armed = TRUE,
                           !.state = IF k.tls THEN "TlsHandshake" ELSE "WsHandshake"]
<1>1. IsLive(s) /\ k \in Conn /\ Same(k, k)
  BY DEF OnConnectCqe, Routes, Inv, SlotType, IsLive, Same
<1>2. Same(k, up) BY <1>1 DEF Same, Conn, State
<1>3. Err(k) \in Result /\ Same(k, Err(k).conn) /\ Ok(up) \in Result /\ Same(k, Ok(up).conn)
  BY <1>1, <1>2, ResSame DEF Err, Ok
<1>4. /\ UNCHANGED <<idVars, phase, mode, cur, target, ops, cq>>
      /\ phase = "dispatch"
      /\ buf # <<>> /\ buf' = Tail(buf)
  BY DEF OnConnectCqe, Dispatching
<1>5. FinishConnResult(s, k, Err(k)) \/ FinishConnResult(s, k, Ok(up))
  BY DEF OnConnectCqe
<1>6. ConnsKept /\ active_count' \in Nat /\ first_err' \in BOOLEAN
  BY <1>1, <1>3, <1>5, FinishKept DEF Inv
<1>7. sq' = sq \/ sq' = Append(sq, Op("Recv", s, k))
  BY DEF OnConnectCqe
<1>8. sq' \in Seq(OwnOps) BY <1>1, <1>7, OpOwn DEF Inv, KernelInv, Kind
<1>9. registered' \subseteq registered \cup {k.bgid} BY DEF OnConnectCqe
<1>10. PumpType' BY <1>1, <1>4, <1>6, <1>9 DEF Inv, PumpType, Conn
<1>11. KernelInv' BY <1>4, <1>8 DEF Inv, KernelInv
<1> QED BY <1>4, <1>6, <1>10, <1>11, KeptStepInv DEF Inv, TargetLive

\* Handling one CQE preserves the invariant.
LEMMA DispatchInv ==
  ASSUME Inv, NEW s \in ConnIds, Dispatch(s)
  PROVE  Inv'
<1>1. IsLive(s) /\ conns[s] \in Conn
  BY DEF Dispatch, Routes, Inv, SlotType, IsLive
<1>2. /\ UNCHANGED <<idVars, phase, mode, cur, target, kernelVars>>
      /\ phase = "dispatch"
      /\ buf # <<>> /\ buf' = Tail(buf)
  BY DEF Dispatch, Dispatching
<1>3. Head(buf) \in CqeType BY <1>2 DEF Inv, KernelInv, OwnCqes
<1>4. PICK r \in HandleCompletion(conns[s], Head(buf)) : FinishConnResult(s, conns[s], r)
  BY DEF Dispatch
<1>5. r \in Result /\ Same(conns[s], r.conn) BY <1>1, <1>3, HandleCompletionSame
<1>6. ConnsKept /\ active_count' \in Nat /\ first_err' \in BOOLEAN
  BY <1>1, <1>4, <1>5, FinishKept DEF Inv
<1>7. PumpType' BY <1>2, <1>6 DEF Inv, PumpType, kernelVars
<1>8. KernelInv' BY <1>2 DEF Inv, KernelInv, kernelVars
<1> QED BY <1>2, <1>6, <1>7, <1>8, KeptStepInv DEF Inv, TargetLive

\* Handling a run of CQEs of one connection preserves the invariant.
LEMMA DispatchBatchInv ==
  ASSUME Inv, NEW s \in ConnIds, DispatchBatch(s)
  PROVE  Inv'
<1>1. PICK n \in 2 .. Len(buf) :
        /\ BatchOf(s, n)
        /\ \E r \in RecvDrain([conns[s] EXCEPT !.armed =
                                  @ /\ \A i \in 1 .. n : buf[i].more]) :
              FinishConnResult(s, conns[s], r)
        /\ buf' = SubSeq(buf, n + 1, Len(buf))
  BY DEF DispatchBatch
<1>2. /\ UNCHANGED <<idVars, phase, mode, cur, target, kernelVars>>
      /\ phase = "dispatch"
  BY DEF DispatchBatch, Dispatching
<1>3. buf \in Seq(OwnCqes) /\ Len(buf) \in Nat BY DEF Inv, KernelInv
<1>4. Routes(buf[1], s)
  <2>1. 1 \in 1 .. n BY <1>3
  <2>2. CanBatch(buf[1], s) BY <1>1, <2>1 DEF BatchOf
  <2> QED BY <2>2 DEF CanBatch
<1>5. IsLive(s) /\ conns[s] \in Conn BY <1>4 DEF Routes, Inv, SlotType, IsLive
<1> DEFINE more == conns[s].armed /\ \A i \in 1 .. n : buf[i].more
           seen == [conns[s] EXCEPT !.armed = more]
<1>6. PICK r \in RecvDrain(seen) : FinishConnResult(s, conns[s], r)
  BY <1>1
<1>7. more \in BOOLEAN OBVIOUS
<1> HIDE DEF more
<1>8. Same(conns[s], seen) BY <1>5, <1>7 DEF Same, Conn
<1>9. r \in Result /\ Same(conns[s], r.conn)
  BY <1>6, <1>8, RecvDrainSame, SameTrans DEF Same
<1>10. ConnsKept /\ active_count' \in Nat /\ first_err' \in BOOLEAN
  BY <1>5, <1>6, <1>9, FinishKept DEF Inv
<1>11. buf' \in Seq(OwnCqes) BY <1>1, <1>3
<1>12. PumpType' BY <1>2, <1>10 DEF Inv, PumpType, kernelVars
<1>13. KernelInv' BY <1>2, <1>11 DEF Inv, KernelInv, kernelVars
<1> QED BY <1>2, <1>10, <1>12, <1>13, KeptStepInv DEF Inv, TargetLive

\* Polling one client preserves the invariant.
LEMMA PollConnInv ==
  ASSUME Inv, PollConn
  PROVE  Inv'
<1>1. cur \in ConnIds BY CurConnId DEF PollConn
<1>2. UNCHANGED <<idVars, phase, mode, target, buf, kernelVars>> /\ cur' = cur + 1
      /\ phase = "poll"
  BY DEF PollConn
<1>3. ConnsKept /\ active_count' \in Nat /\ first_err' \in BOOLEAN
  <2>1. CASE UNCHANGED <<conns, active_count, first_err>>
    BY <2>1, UnchangedKept DEF Inv, SlotType, PumpType
  <2>2. CASE ~UNCHANGED <<conns, active_count, first_err>>
    <3>1. IsLive(cur) /\ conns[cur] \in Conn
      BY <1>1, <2>2 DEF PollConn, Inv, SlotType, IsLive
    <3>2. PICK o \in WsResult :
            LET k == Drained(conns[cur], o.ws)
            IN  IF o.err
                THEN FinishConnResult(cur, conns[cur], Err(k))
                ELSE /\ conns' = [conns EXCEPT ![cur] = SyncClose(SyncOpen(k))]
                     /\ UNCHANGED <<active_count, first_err>>
      BY <2>2, <3>1 DEF PollConn, WsOutcomes, WsResult, Conn
    <3> DEFINE k == Drained(conns[cur], o.ws)
    <3>3. Same(conns[cur], k) BY <3>1, <3>2, DrainedSame DEF WsResult
    <3>4. Err(k) \in Result /\ Same(conns[cur], Err(k).conn) BY <3>3, ResSame DEF Err
    <3>5. Same(conns[cur], SyncClose(SyncOpen(k))) BY <3>3, SyncSame, SameTrans DEF Same
    <3>6. CASE o.err
      BY <1>1, <3>1, <3>2, <3>4, <3>6, FinishKept DEF Inv
    <3>7. CASE ~o.err
      <4>1. conns' = [conns EXCEPT ![cur] = SyncClose(SyncOpen(k))]
            /\ UNCHANGED <<active_count, first_err>>
        BY <3>2, <3>7
      <4>2. ConnsKept BY <1>1, <3>1, <3>5, <4>1, UpdateKept DEF Inv
      <4> QED BY <4>1, <4>2 DEF Inv, SlotType, PumpType
    <3> QED BY <3>6, <3>7
  <2> QED BY <2>1, <2>2
<1>4. PumpType' BY <1>2, <1>3 DEF Inv, PumpType, kernelVars
<1>5. KernelInv' BY <1>2 DEF Inv, KernelInv, kernelVars
<1> QED BY <1>2, <1>3, <1>4, <1>5, KeptStepInv DEF Inv, TargetLive

\* drive_target_handshake_event preserves the invariant, and the connection it
\* looks up is there.
LEMMA DriveTargetInv ==
  ASSUME Inv, DriveTarget
  PROVE  Inv'
<1> DEFINE k == conns[target]
           Next1(state) == CASE state = "Open" -> Return
                             [] state = "Closed" -> phase' = "failed"
                                   /\ UNCHANGED <<mode, cur, target, first_err>>
                             [] OTHER -> StartRound("open") /\ UNCHANGED target
<1>1. phase = "target" /\ mode = "open" /\ IsLive(target) /\ target \in ConnIds /\ k \in Conn
  BY DEF DriveTarget, Inv, TargetLive, PumpType, SlotType, IsLive
<1>2. UNCHANGED <<idVars, buf, kernelVars>> BY DEF DriveTarget
<1>3. SyncOpen(k) \in Conn /\ Same(k, SyncOpen(k))
  BY <1>1 DEF SyncOpen, Same, Conn, State
<1>4. \E done : /\ Same(k, done)
                /\ conns' = [conns EXCEPT ![target] = done]
                /\ active_count' \in {active_count, Dec(active_count)}
                /\ Next1(done.state)
  <2>1. CASE k.state \in {"Open", "Closed"}
    <3>1. /\ conns' = [conns EXCEPT ![target] = SyncOpen(k)]
          /\ UNCHANGED active_count
          /\ Next1(SyncOpen(k).state)
      BY <2>1 DEF DriveTarget
    <3> QED BY <1>3, <3>1
  <2>2. CASE k.state \notin {"Open", "Closed"}
    <3>1. PICK o \in WsResult, more \in BOOLEAN :
            LET polled == [k EXCEPT !.ws = o.ws, !.rx = more]
                done == IF o.err THEN Failed(polled) ELSE SyncClose(SyncOpen(polled))
            IN  /\ conns' = [conns EXCEPT ![target] = done]
                /\ active_count' = IF Active(done) THEN active_count ELSE Dec(active_count)
                /\ Next1(done.state)
      <4>1. [ws |-> k.ws, err |-> FALSE] \in WsResult BY <1>1 DEF WsResult, Conn
      <4>2. WsOneEvent(k.ws) \subseteq WsResult BY DEF WsOneEvent, WsOutcomes
      <4> QED BY <2>2, <4>1, <4>2 DEF DriveTarget
    <3> DEFINE polled == [k EXCEPT !.ws = o.ws, !.rx = more]
               done == IF o.err THEN Failed(polled) ELSE SyncClose(SyncOpen(polled))
    <3>2. Same(k, polled) BY <1>1 DEF Same, Conn, WsResult
    <3>3. Same(polled, done)
      <4> HIDE DEF polled
      <4> QED BY <3>2, FailedSame, SyncSame DEF Same
    <3>4. Same(k, done)
      <4> HIDE DEF polled, done
      <4> QED BY <3>2, <3>3, SameTrans
    <3>5. /\ conns' = [conns EXCEPT ![target] = done]
          /\ active_count' \in {active_count, Dec(active_count)}
          /\ Next1(done.state)
      BY <3>1
    <3> HIDE DEF done
    <3> QED BY <3>4, <3>5
  <2> QED BY <2>1, <2>2
<1>5. PICK done : /\ Same(k, done)
                  /\ conns' = [conns EXCEPT ![target] = done]
                  /\ active_count' \in {active_count, Dec(active_count)}
                  /\ Next1(done.state)
  BY <1>4
<1>6. ConnsKept BY <1>1, <1>5, UpdateKept DEF Inv
<1>7. active_count' \in Nat BY <1>5 DEF Inv, SlotType, Dec
<1>8. KernelInv' BY <1>2 DEF Inv, KernelInv, kernelVars
<1>9. registered' = registered /\ registered \subseteq Bgids
  BY <1>2 DEF kernelVars, Inv, PumpType
<1>10. CASE Return
  <2>1. PumpType' /\ mode' = "none" /\ phase' = "idle" BY <1>9, <1>10, ReturnType DEF Return
  <2> QED BY <1>2, <1>6, <1>7, <1>8, <2>1, KeptStepInv
<1>11. CASE ~Return
  <2>1. \/ phase' = "failed" /\ UNCHANGED <<mode, cur, target, first_err>>
        \/ StartRound("open") /\ UNCHANGED target
    BY <1>5, <1>11
  <2>2. PumpType'
    <3>1. CASE phase' = "failed" /\ UNCHANGED <<mode, cur, target, first_err>>
      BY <1>9, <3>1 DEF Inv, PumpType
    <3>2. CASE StartRound("open") /\ UNCHANGED target
      BY <1>9, <3>2 DEF Inv, PumpType, StartRound
    <3> QED BY <2>1, <3>1, <3>2
  <2> QED BY <1>1, <1>2, <1>6, <1>7, <1>8, <2>1, <2>2, KeptStepInv DEF StartRound
<1> QED BY <1>10, <1>11

-----------------------------------------------------------------------------
(* Steps that change who occupies a slot. *)

\* Pushing a new entry on a free list keeps its entries distinct.
LEMMA AppendDistinct ==
  ASSUME NEW S, NEW q \in Seq(S), NEW e \in S,
         \A i, j \in 1 .. Len(q) : q[i] = q[j] => i = j,
         ~\E i \in 1 .. Len(q) : q[i] = e
  PROVE  \A i, j \in 1 .. Len(Append(q, e)) : Append(q, e)[i] = Append(q, e)[j] => i = j
<1>1. /\ Len(Append(q, e)) = Len(q) + 1
      /\ Append(q, e)[Len(q) + 1] = e
      /\ \A i \in 1 .. Len(q) : Append(q, e)[i] = q[i]
      /\ Len(q) \in Nat
  OBVIOUS
<1>2. \A i \in 1 .. Len(q) + 1 : i = Len(q) + 1 \/ i \in 1 .. Len(q) BY <1>1
<1> QED BY <1>1, <1>2

\* retire_slot preserves the invariant: the slot gets a new generation or is
\* never used again, and the buffer group was not free before.
LEMMA RetireSlotInv ==
  ASSUME Inv, NEW s \in ConnIds, IsLive(s), RetireSlot(s)
  PROVE  /\ SlotType' /\ SlotsAccounted' /\ OccupantInv' /\ BgidInv'
         /\ registered' \subseteq registered
<1> DEFINE dead == conns[s]
<1>1. dead \in Conn BY DEF Inv, SlotType, IsLive
<1>2. /\ conns' = [conns EXCEPT ![s] = None]
      /\ UNCHANGED <<next_conn_id, next_bgid, born>>
      /\ RecycleConnSlot(s)
      /\ registered' \subseteq registered
      /\ \/ free_bgids' = Append(free_bgids, dead.bgid) /\ refused' = refused
         \/ free_bgids' = free_bgids /\ refused' = refused \cup {dead.bgid}
      /\ active_count' \in {active_count, Dec(active_count)}
  BY DEF RetireSlot
<1>3. s < next_conn_id /\ ~FreeConnId(s) /\ born[s] = generations[s] + 1
  BY DEF Inv, SlotsAccounted, OccupantInv, FreeConnId
<1>4. active_count' \in Nat BY <1>2 DEF Inv, SlotType, Dec
<1>5. free_bgids' \in Seq(Bgids) /\ refused' \subseteq Bgids
  <2>1. dead.bgid \in Bgids BY <1>1 DEF Conn
  <2>2. free_bgids \in Seq(Bgids) BY DEF Inv, SlotType
  <2>3. Append(free_bgids, dead.bgid) \in Seq(Bgids) BY <2>1, <2>2, AppendProperties
  <2>4. refused' \subseteq Bgids BY <1>2, <2>1 DEF Inv, SlotType
  <2> QED BY <1>2, <2>2, <2>3, <2>4
<1>6. \A t \in ConnIds : /\ conns'[t] = None <=> t = s \/ conns[t] = None
                         /\ t # s => conns'[t] = conns[t]
  BY <1>2 DEF Inv, SlotType
<1>7. SlotType' /\ SlotsAccounted' /\ OccupantInv'
  <2> USE DEF Inv, SlotType
  <2>1. CASE generations[s] >= GenerationMask
    <3>1. UNCHANGED <<generations, free_conn_ids>> BY <1>2, <2>1 DEF RecycleConnSlot
    <3>2. SlotType' BY <1>2, <1>4, <1>5, <3>1
    <3>3. generations[s] = GenerationMask BY <2>1, PoolAssumption DEF Generations
    <3>4. SlotsAccounted' BY <1>2, <1>3, <1>6, <3>1, <3>3 DEF SlotsAccounted, IsLive, FreeConnId
    <3>5. OccupantInv' BY <1>2, <1>3, <1>6, <3>1 DEF OccupantInv, IsLive, FreeConnId, ConnIds
    <3> QED BY <3>2, <3>4, <3>5
  <2>2. CASE ~(generations[s] >= GenerationMask)
    <3>1. /\ generations' = [generations EXCEPT ![s] = @ + 1]
          /\ free_conn_ids' = Append(free_conn_ids, s)
      BY <1>2, <2>2 DEF RecycleConnSlot
    <3>2. generations[s] + 1 \in Generations BY <2>2, PoolAssumption DEF Generations
    <3>3. SlotType' BY <1>2, <1>4, <1>5, <3>1, <3>2
    <3>4. /\ Len(free_conn_ids') = Len(free_conn_ids) + 1
          /\ free_conn_ids'[Len(free_conn_ids) + 1] = s
          /\ \A i \in 1 .. Len(free_conn_ids) : free_conn_ids'[i] = free_conn_ids[i]
          /\ Len(free_conn_ids) \in Nat
      BY <3>1
    <3>5. \A t \in ConnIds : FreeConnId(t)' <=> t = s \/ FreeConnId(t)
      <4>1. \A i \in 1 .. Len(free_conn_ids)' :
              i = Len(free_conn_ids) + 1 \/ i \in 1 .. Len(free_conn_ids)
        BY <3>4
      <4>2. /\ Len(free_conn_ids) + 1 \in 1 .. Len(free_conn_ids)'
            /\ 1 .. Len(free_conn_ids) \subseteq 1 .. Len(free_conn_ids)'
        BY <3>4
      <4> QED BY ONLY <3>4, <4>1, <4>2 DEF FreeConnId
    <3>6. \A i, j \in 1 .. Len(free_conn_ids)' : free_conn_ids'[i] = free_conn_ids'[j] => i = j
      <4>1. \A i, j \in 1 .. Len(free_conn_ids) : free_conn_ids[i] = free_conn_ids[j] => i = j
        BY DEF SlotsAccounted
      <4>2. ~\E i \in 1 .. Len(free_conn_ids) : free_conn_ids[i] = s BY <1>3 DEF FreeConnId
      <4>3. free_conn_ids \in Seq(ConnIds) /\ s \in ConnIds OBVIOUS
      <4> QED BY ONLY <3>1, <4>1, <4>2, <4>3, AppendDistinct
    <3>7. SlotsAccounted'
      <4>1. \A t \in ConnIds :
              /\ FreeConnId(t)' => t < next_conn_id
              /\ conns'[t] # None => t < next_conn_id /\ ~FreeConnId(t)'
              /\ t < next_conn_id /\ conns'[t] = None /\ ~FreeConnId(t)'
                    => generations'[t] = GenerationMask
        BY <1>3, <1>6, <3>1, <3>5 DEF SlotsAccounted, IsLive, FreeConnId
      <4> QED BY <1>2, <3>6, <4>1 DEF SlotsAccounted, IsLive, FreeConnId
    <3>8. OccupantInv'
      <4>1. ASSUME NEW t \in ConnIds
            PROVE  /\ conns'[t] # None => /\ conns'[t].gen = generations'[t]
                                          /\ conns'[t].inc = generations'[t] + 1
                                          /\ born'[t] = generations'[t] + 1
                   /\ (t >= next_conn_id' \/ FreeConnId(t)') => born'[t] = generations'[t]
        <5>1. CASE t = s BY <1>2, <1>3, <1>6, <3>1, <5>1
        <5>2. CASE t # s BY <1>2, <1>6, <3>1, <3>5, <5>2 DEF OccupantInv, IsLive
        <5> QED BY <5>1, <5>2
      <4> QED BY <4>1 DEF OccupantInv, IsLive
    <3> QED BY <3>3, <3>7, <3>8
  <2> QED BY <2>1, <2>2
<1>8. BgidInv'
  <2>1. \A t \in ConnIds : t \in LiveIds' => t # s /\ t \in LiveIds /\ conns'[t] = conns[t]
    BY <1>6 DEF LiveIds, IsLive
  <2>2. s \in LiveIds /\ dead.bgid < next_bgid
    BY DEF LiveIds, Inv, BgidInv
  <2>3. CASE free_bgids' = free_bgids /\ refused' = refused \cup {dead.bgid}
    <3>1. \A t \in LiveIds' : conns'[t].bgid # dead.bgid
      BY <2>1, <2>2 DEF Inv, BgidInv, BgidExclusive, LiveIds
    <3>2. \A i \in 1 .. Len(free_bgids) : free_bgids[i] # dead.bgid
      BY <2>2 DEF Inv, BgidInv, BgidExclusive
    <3> QED BY <1>2, <2>1, <2>2, <2>3, <3>1, <3>2 DEF Inv, BgidInv, BgidExclusive, LiveIds
  <2>4. CASE free_bgids' = Append(free_bgids, dead.bgid) /\ refused' = refused
    <3>1. /\ Len(free_bgids') = Len(free_bgids) + 1
          /\ free_bgids'[Len(free_bgids) + 1] = dead.bgid
          /\ \A i \in 1 .. Len(free_bgids) : free_bgids'[i] = free_bgids[i]
          /\ Len(free_bgids) \in Nat
      BY <2>4 DEF Inv, SlotType
    <3>2. \A i \in 1 .. Len(free_bgids)' : i \in 1 .. Len(free_bgids) \/ i = Len(free_bgids) + 1
      BY <3>1
    <3>3. \A t \in LiveIds' : conns'[t].bgid # dead.bgid /\ conns'[t].bgid < next_bgid
      BY <2>1, <2>2 DEF Inv, BgidInv, BgidExclusive, LiveIds
    <3>4. \A i \in 1 .. Len(free_bgids) : free_bgids[i] # dead.bgid
      BY <2>2 DEF Inv, BgidInv, BgidExclusive
    <3>5. \A i \in 1 .. Len(free_bgids)' :
             /\ free_bgids'[i] < next_bgid
             /\ \A j \in 1 .. Len(free_bgids)' : free_bgids'[i] = free_bgids'[j] => i = j
             /\ \A t \in LiveIds' : conns'[t].bgid # free_bgids'[i]
      BY <2>1, <2>2, <3>1, <3>2, <3>3, <3>4 DEF Inv, BgidInv, BgidExclusive, LiveIds
    <3>6. \A t, u \in LiveIds' : conns'[t].bgid = conns'[u].bgid => t = u
      BY <2>1 DEF Inv, BgidInv, BgidExclusive, LiveIds
    <3>7. \A b \in refused :
             /\ b < next_bgid
             /\ \A i \in 1 .. Len(free_bgids)' : free_bgids'[i] # b
             /\ \A t \in LiveIds' : conns'[t].bgid # b
      BY <2>1, <2>2, <3>1, <3>2 DEF Inv, BgidInv, BgidExclusive, LiveIds
    <3> QED BY <1>2, <2>4, <3>3, <3>5, <3>6, <3>7 DEF BgidInv, BgidExclusive
  <2> QED BY <1>2, <2>3, <2>4
<1> QED BY <1>2, <1>7, <1>8

\* remove_conn preserves the invariant.
LEMMA RemoveConnInv ==
  ASSUME Inv, NEW s \in ConnIds, RemoveConn(s)
  PROVE  Inv'
<1>1. IsLive(s) /\ RetireSlot(s) /\ phase = "idle" /\ UNCHANGED <<pumpVars, sq, ops, cq>>
  BY DEF RemoveConn
<1>2. /\ SlotType' /\ SlotsAccounted' /\ OccupantInv' /\ BgidInv'
      /\ registered' \subseteq registered
  BY <1>1, RetireSlotInv
<1>3. PumpType' BY <1>1, <1>2 DEF Inv, PumpType, pumpVars
<1>4. TargetLive' BY <1>1 DEF Inv, TargetLive, pumpVars
<1>5. KernelInv' BY <1>1 DEF Inv, KernelInv, pumpVars
<1> QED BY <1>2, <1>3, <1>4, <1>5 DEF Inv

\* The first half of a reconnect preserves the invariant.
LEMMA ReconnectInv ==
  ASSUME Inv, NEW s \in ConnIds, NEW blocking \in BOOLEAN, Reconnect(s, blocking)
  PROVE  Inv'
<1>1. IsLive(s) /\ RetireSlot(s) BY DEF Reconnect
<1>2. /\ SlotType' /\ SlotsAccounted' /\ OccupantInv' /\ BgidInv'
      /\ registered' \subseteq registered
  BY <1>1, RetireSlotInv
<1>3. PumpType' BY <1>2 DEF Reconnect, Inv, PumpType
<1>4. TargetLive' BY DEF Reconnect, TargetLive
<1>5. KernelInv' BY DEF Reconnect, Inv, KernelInv
<1> QED BY <1>2, <1>3, <1>4, <1>5 DEF Inv

\* Retiring the slot of a failed blocking connect preserves the invariant.
LEMMA OpenFailedInv ==
  ASSUME Inv, OpenFailed
  PROVE  Inv'
<1>1. target \in ConnIds /\ IsLive(target) /\ RetireSlot(target)
  BY DEF OpenFailed, Inv, TargetLive, PumpType
<1>2. /\ SlotType' /\ SlotsAccounted' /\ OccupantInv' /\ BgidInv'
      /\ registered' \subseteq registered
  BY <1>1, RetireSlotInv
<1>3. PumpType' /\ TargetLive' BY <1>2, ReturnType DEF OpenFailed, Inv, PumpType
<1>4. KernelInv' BY DEF OpenFailed, Inv, KernelInv
<1> QED BY <1>2, <1>3, <1>4 DEF Inv

\* What is left of a free list when its last entry is popped.
LEMMA PopProperties ==
  ASSUME NEW S, NEW q \in Seq(S), q # <<>>
  PROVE  /\ Len(q) \in Nat \ {0}
         /\ Last(q) \in S /\ Last(q) = q[Len(q)]
         /\ Pop(q) \in Seq(S)
         /\ Len(Pop(q)) = Len(q) - 1
         /\ \A i \in 1 .. Len(q) - 1 : Pop(q)[i] = q[i]
<1>1. Len(q) \in Nat \ {0} OBVIOUS
<1>2. Last(q) \in S /\ Last(q) = q[Len(q)] BY <1>1 DEF Last
<1>3. /\ Pop(q) \in Seq(S)
      /\ Len(Pop(q)) = Len(q) - 1
      /\ \A i \in 1 .. Len(q) - 1 : Pop(q)[i] = q[i]
  <2>1. \A i \in 1 .. Len(q) - 1 : q[i] \in S BY <1>1
  <2>2. /\ SubSeq(q, 1, Len(q) - 1) \in Seq(S)
        /\ Len(SubSeq(q, 1, Len(q) - 1)) = IF 1 <= Len(q) - 1 THEN Len(q) - 1 - 1 + 1 ELSE 0
        /\ \A i \in 1 .. Len(q) - 1 - 1 + 1 : SubSeq(q, 1, Len(q) - 1)[i] = q[1 + i - 1]
    BY <1>1, <2>1, SubSeqProperties
  <2> DEFINE p == SubSeq(q, 1, Len(q) - 1)
  <2>3. Pop(q) = p BY DEF Pop
  <2> HIDE DEF p
  <2>4. p \in Seq(S) BY <2>2 DEF p
  <2>5. Len(p) = Len(q) - 1
    <3>1. Len(p) = IF 1 <= Len(q) - 1 THEN Len(q) - 1 - 1 + 1 ELSE 0 BY <2>2, Zenon DEF p
    <3>2. \A n \in Nat \ {0} : (IF 1 <= n - 1 THEN n - 1 - 1 + 1 ELSE 0) = n - 1 OBVIOUS
    <3> QED BY ONLY <1>1, <3>1, <3>2, Zenon
  <2>6. ASSUME NEW i \in 1 .. Len(q) - 1 PROVE p[i] = q[i]
    <3>1. i \in 1 .. Len(q) - 1 - 1 + 1 /\ 1 + i - 1 = i BY <1>1
    <3>2. p[i] = q[1 + i - 1] BY <2>2, <3>1 DEF p
    <3> QED BY <3>1, <3>2
  <2> QED BY <2>3, <2>4, <2>5, <2>6
<1> QED BY <1>1, <1>2, <1>3

\* reserve_conn_id and reserve_bgid give identities nobody has.
LEMMA ReservedFresh ==
  ASSUME Inv, ConnIdAvailable, BgidAvailable
  PROVE  /\ ReservedConnId \in ConnIds
         /\ ~IsLive(ReservedConnId)
         /\ born[ReservedConnId] = generations[ReservedConnId]
         /\ ReservedBgid \in Bgids
         /\ \A s \in LiveIds : conns[s].bgid # ReservedBgid
         /\ ReservedBgid \notin refused
<1>1. /\ ReservedConnId \in ConnIds
      /\ ~IsLive(ReservedConnId)
      /\ born[ReservedConnId] = generations[ReservedConnId]
  <2>1. CASE free_conn_ids # <<>>
    <3>1. /\ Len(free_conn_ids) \in 1 .. Len(free_conn_ids)
          /\ ReservedConnId \in ConnIds
          /\ ReservedConnId = free_conn_ids[Len(free_conn_ids)]
      <4>1. free_conn_ids \in Seq(ConnIds) BY DEF Inv, SlotType
      <4>2. ReservedConnId = Last(free_conn_ids) BY <2>1 DEF ReservedConnId
      <4> QED BY ONLY <2>1, <4>1, <4>2, PopProperties
    <3>2. FreeConnId(ReservedConnId) BY <3>1 DEF FreeConnId
    <3>3. ~IsLive(ReservedConnId) BY <3>1, <3>2 DEF Inv, SlotsAccounted, FreeConnId
    <3>4. born[ReservedConnId] = generations[ReservedConnId]
      BY <3>1, <3>2 DEF Inv, OccupantInv
    <3> QED BY <3>1, <3>3, <3>4
  <2>2. CASE free_conn_ids = <<>>
    <3>1. ReservedConnId = next_conn_id /\ next_conn_id \in ConnIds
      BY <2>2, PoolAssumption DEF ReservedConnId, ConnIdAvailable, Inv, SlotType, ConnIds
    <3>2. ~(next_conn_id < next_conn_id) /\ next_conn_id >= next_conn_id
      BY DEF Inv, SlotType
    <3>3. ~IsLive(ReservedConnId) BY <3>1, <3>2 DEF Inv, SlotsAccounted
    <3>4. born[ReservedConnId] = generations[ReservedConnId]
      BY <3>1, <3>2 DEF Inv, OccupantInv
    <3> QED BY <3>1, <3>3, <3>4
  <2> QED BY <2>1, <2>2
<1>2. /\ ReservedBgid \in Bgids
      /\ \A s \in LiveIds : conns[s].bgid # ReservedBgid
      /\ ReservedBgid \notin refused
  <2>1. CASE free_bgids # <<>>
    <3>1. /\ Len(free_bgids) \in Nat \ {0}
          /\ ReservedBgid \in Bgids
          /\ ReservedBgid = free_bgids[Len(free_bgids)]
      BY <2>1, PopProperties DEF ReservedBgid, Inv, SlotType
    <3>2. Len(free_bgids) \in 1 .. Len(free_bgids) BY <3>1
    <3> QED BY <3>1, <3>2 DEF Inv, BgidInv, BgidExclusive
  <2>2. CASE free_bgids = <<>>
    <3>1. ReservedBgid = next_bgid /\ next_bgid \in Bgids
      BY <2>2, PoolAssumption DEF ReservedBgid, BgidAvailable, Inv, SlotType, Bgids
    <3>2. /\ \A s \in LiveIds : conns[s].bgid < next_bgid
          /\ \A b \in refused : b < next_bgid
      BY DEF Inv, BgidInv, BgidExclusive
    <3> QED BY <3>1, <3>2, PoolAssumption DEF Bgids
  <2> QED BY <2>1, <2>2
<1> QED BY <1>1, <1>2

\* A connection put into the reserved slot preserves the invariant.
LEMMA SubmittedInv ==
  ASSUME Inv, NEW tls \in BOOLEAN, ConnIdAvailable, BgidAvailable,
         Submitted(ReservedConnId, NewConn(ReservedConnId, tls)),
         UNCHANGED <<generations, refused>>
  PROVE  /\ SlotType' /\ SlotsAccounted' /\ OccupantInv' /\ BgidInv'
         /\ sq' \in Seq(OwnOps)
         /\ ReservedConnId \in ConnIds
         /\ conns'[ReservedConnId] # None
<1> DEFINE s == ReservedConnId
           k == NewConn(s, tls)
<1>1. /\ s \in ConnIds /\ ~IsLive(s) /\ born[s] = generations[s]
      /\ ReservedBgid \in Bgids
      /\ \A t \in LiveIds : conns[t].bgid # ReservedBgid
      /\ ReservedBgid \notin refused
  BY ReservedFresh
<1>2. /\ k \in Conn
      /\ k.gen = generations[s] /\ k.inc = generations[s] + 1 /\ k.bgid = ReservedBgid
  BY <1>1 DEF NewConn, Conn, State, WsState, Inv, SlotType
<1>3. k # None BY <1>2, PoolAssumption
<1>4. /\ sq' = Append(sq, Op("Connect", s, k))
      /\ conns' = [conns EXCEPT ![s] = k]
      /\ born' = [born EXCEPT ![s] = @ + 1]
      /\ active_count' = active_count + 1
      /\ IF free_conn_ids # <<>>
         THEN free_conn_ids' = Pop(free_conn_ids) /\ UNCHANGED next_conn_id
         ELSE next_conn_id' = next_conn_id + 1 /\ UNCHANGED free_conn_ids
      /\ IF free_bgids # <<>>
         THEN free_bgids' = Pop(free_bgids) /\ UNCHANGED next_bgid
         ELSE next_bgid' = next_bgid + 1 /\ UNCHANGED free_bgids
      /\ UNCHANGED <<generations, refused>>
  BY DEF Submitted
<1> HIDE DEF k, s
<1>5. \A t \in ConnIds : conns'[t] = IF t = s THEN k ELSE conns[t]
  BY <1>1, <1>4 DEF Inv, SlotType
<1>6. sq' \in Seq(OwnOps)
  <2>0. k.gen \in 0 .. GenerationMask BY <1>2 DEF Conn, Generations
  <2>1. k.inc \in 1 .. GenerationMask + 1 /\ k.inc - 1 = k.gen /\ k.gen \in Nat
    BY <1>2, <2>0, PoolAssumption
  <2>2. Token(s, k.gen) \in Nat BY <1>1, <2>1, TokenType
  <2>3. Op("Connect", s, k) \in OpType
    BY <1>2, <2>1, <2>2 DEF Op, OpType, Kind, Conn
  <2>4. Own(Op("Connect", s, k)) BY <1>1, <2>1 DEF Own, Op
  <2> QED BY <1>4, <2>3, <2>4 DEF OwnOps, Inv, KernelInv
<1>7. /\ free_conn_ids' \in Seq(ConnIds)
      /\ next_conn_id' \in 0 .. ConnIdMask + 1
      /\ next_conn_id' \in {next_conn_id, next_conn_id + 1}
      /\ \A t \in ConnIds : FreeConnId(t)' => FreeConnId(t) /\ t # s
      /\ \A t \in ConnIds : FreeConnId(t) => FreeConnId(t)' \/ t = s
      /\ \A i, j \in 1 .. Len(free_conn_ids)' : free_conn_ids'[i] = free_conn_ids'[j] => i = j
      /\ s < next_conn_id'
      /\ \A t \in ConnIds : t < next_conn_id' => t < next_conn_id \/ t = s
  <2>1. CASE free_conn_ids # <<>>
    <3>1. /\ free_conn_ids' = Pop(free_conn_ids) /\ next_conn_id' = next_conn_id
          /\ s = free_conn_ids[Len(free_conn_ids)]
          /\ free_conn_ids' \in Seq(ConnIds)
          /\ Len(free_conn_ids') = Len(free_conn_ids) - 1
          /\ \A i \in 1 .. Len(free_conn_ids) - 1 : free_conn_ids'[i] = free_conn_ids[i]
          /\ Len(free_conn_ids) \in Nat \ {0}
      BY <1>4, <2>1, PopProperties DEF s, ReservedConnId, Inv, SlotType
    <3>2. /\ \A i \in 1 .. Len(free_conn_ids)' : i \in 1 .. Len(free_conn_ids) /\ i # Len(free_conn_ids)
          /\ \A i \in 1 .. Len(free_conn_ids) : i \in 1 .. Len(free_conn_ids)' \/ i = Len(free_conn_ids)
          /\ Len(free_conn_ids) \in 1 .. Len(free_conn_ids)
      BY <3>1
    <3>3. \A i, j \in 1 .. Len(free_conn_ids) : free_conn_ids[i] = free_conn_ids[j] => i = j
      BY DEF Inv, SlotsAccounted
    <3>4. \A i \in 1 .. Len(free_conn_ids)' : free_conn_ids'[i] = free_conn_ids[i] BY <3>1
    <3>5. FreeConnId(s) BY <3>1, <3>2 DEF FreeConnId
    <3>6. s < next_conn_id BY <1>1, <3>5 DEF Inv, SlotsAccounted, FreeConnId
    <3>7. \A t \in ConnIds : FreeConnId(t)' => FreeConnId(t) /\ t # s
      BY <3>1, <3>2, <3>3, <3>4 DEF FreeConnId
    <3>8. \A t \in ConnIds : FreeConnId(t) => FreeConnId(t)' \/ t = s
      BY <3>1, <3>2, <3>4 DEF FreeConnId
    <3>9. \A i, j \in 1 .. Len(free_conn_ids)' : free_conn_ids'[i] = free_conn_ids'[j] => i = j
      BY <3>2, <3>3, <3>4
    <3> QED BY <3>1, <3>6, <3>7, <3>8, <3>9 DEF Inv, SlotType
  <2>2. CASE free_conn_ids = <<>>
    <3>1. /\ next_conn_id' = next_conn_id + 1 /\ free_conn_ids' = free_conn_ids
          /\ s = next_conn_id
      BY <1>4, <2>2 DEF s, ReservedConnId
    <3>2. next_conn_id' \in 0 .. ConnIdMask + 1
      BY <1>1, <3>1, PoolAssumption DEF ConnIds
    <3>3. \A t \in ConnIds : ~FreeConnId(t) /\ ~FreeConnId(t)'
      BY <2>2, <3>1 DEF FreeConnId
    <3> QED BY <1>1, <2>2, <3>1, <3>2, <3>3, PoolAssumption DEF Inv, SlotType, ConnIds, SlotsAccounted
  <2> QED BY <2>1, <2>2
<1>8. /\ free_bgids' \in Seq(Bgids)
      /\ next_bgid' \in 0 .. BgidMax
      /\ next_bgid <= next_bgid'
      /\ ReservedBgid < next_bgid'
      /\ \A i \in 1 .. Len(free_bgids)' :
            /\ \E j \in 1 .. Len(free_bgids) : free_bgids'[i] = free_bgids[j]
            /\ free_bgids'[i] # ReservedBgid
      /\ \A i, j \in 1 .. Len(free_bgids)' : free_bgids'[i] = free_bgids'[j] => i = j
  <2>0. /\ next_bgid \in 0 .. BgidMax
        /\ \A i, j \in 1 .. Len(free_bgids) : free_bgids[i] = free_bgids[j] => i = j
        /\ \A i \in 1 .. Len(free_bgids) : free_bgids[i] < next_bgid
    BY DEF Inv, SlotType, BgidInv, BgidExclusive
  <2>1. CASE free_bgids # <<>>
    <3>1. /\ free_bgids' = Pop(free_bgids) /\ next_bgid' = next_bgid
          /\ ReservedBgid = free_bgids[Len(free_bgids)]
          /\ free_bgids' \in Seq(Bgids)
          /\ Len(free_bgids') = Len(free_bgids) - 1
          /\ \A i \in 1 .. Len(free_bgids) - 1 : free_bgids'[i] = free_bgids[i]
          /\ Len(free_bgids) \in Nat \ {0}
      BY <1>4, <2>1, PopProperties DEF ReservedBgid, Inv, SlotType
    <3>2. /\ \A i \in 1 .. Len(free_bgids)' : i \in 1 .. Len(free_bgids) /\ i # Len(free_bgids)
          /\ Len(free_bgids) \in 1 .. Len(free_bgids)
      BY <3>1
    <3>3. \A i \in 1 .. Len(free_bgids)' : free_bgids'[i] = free_bgids[i] BY <3>1
    <3> QED BY <2>0, <3>1, <3>2, <3>3
  <2>2. CASE free_bgids = <<>>
    <3>1. next_bgid' = next_bgid + 1 /\ free_bgids' = free_bgids /\ ReservedBgid = next_bgid
      BY <1>4, <2>2 DEF ReservedBgid
    <3>2. next_bgid < BgidMax BY <2>2 DEF BgidAvailable
    <3> QED BY <2>0, <2>2, <3>1, <3>2, PoolAssumption DEF Inv, SlotType
  <2> QED BY <2>1, <2>2
<1>9. SlotType'
  <2>1. conns' \in [ConnIds -> Conn \cup {None}] BY <1>1, <1>2, <1>4 DEF Inv, SlotType
  <2>2. born' \in [ConnIds -> Nat] BY <1>1, <1>4 DEF Inv, SlotType
  <2> QED BY <1>4, <1>7, <1>8, <2>1, <2>2, SMTT(40) DEF Inv, SlotType
<1>10. SlotsAccounted'
  <2>1. \A t \in ConnIds :
          /\ FreeConnId(t)' => t < next_conn_id'
          /\ conns'[t] # None => t < next_conn_id' /\ ~FreeConnId(t)'
          /\ t < next_conn_id' /\ conns'[t] = None /\ ~FreeConnId(t)'
                => generations'[t] = GenerationMask
    <3> SUFFICES ASSUME NEW t \in ConnIds
                 PROVE  /\ FreeConnId(t)' => t < next_conn_id'
                        /\ conns'[t] # None => t < next_conn_id' /\ ~FreeConnId(t)'
                        /\ t < next_conn_id' /\ conns'[t] = None /\ ~FreeConnId(t)'
                              => generations'[t] = GenerationMask
      OBVIOUS
    <3>1. CASE t = s BY <1>3, <1>5, <1>7, <3>1
    <3>2. CASE t # s
      <4>1. /\ FreeConnId(t) => t < next_conn_id
            /\ conns[t] # None => t < next_conn_id /\ ~FreeConnId(t)
            /\ t < next_conn_id /\ conns[t] = None /\ ~FreeConnId(t)
                  => generations[t] = GenerationMask
        BY DEF Inv, SlotsAccounted, IsLive, FreeConnId
      <4>2. t \in Int /\ next_conn_id \in Int /\ next_conn_id' \in Int
            /\ (t < next_conn_id => t < next_conn_id')
        BY <1>7, PoolAssumption DEF Inv, SlotType, ConnIds
      <4> QED BY <1>4, <1>5, <1>7, <3>2, <4>1, <4>2
    <3> QED BY <3>1, <3>2
  <2> QED BY <1>7, <2>1 DEF SlotsAccounted, IsLive, FreeConnId
<1>11. OccupantInv'
  <2> SUFFICES ASSUME NEW t \in ConnIds
               PROVE  /\ conns'[t] # None => /\ conns'[t].gen = generations'[t]
                                             /\ conns'[t].inc = generations'[t] + 1
                                             /\ born'[t] = generations'[t] + 1
                      /\ (t >= next_conn_id' \/ FreeConnId(t)') => born'[t] = generations'[t]
    BY DEF OccupantInv, IsLive
  <2>1. t \in Int /\ next_conn_id \in Int /\ next_conn_id' \in Int
        /\ (t >= next_conn_id' => t >= next_conn_id /\ t # s)
    BY <1>1, <1>7, PoolAssumption DEF Inv, SlotType, ConnIds
  <2>2. CASE t = s BY <1>1, <1>2, <1>4, <1>5, <1>7, <2>1, <2>2 DEF Inv, SlotType
  <2>3. CASE t # s
    <3>1. born'[t] = born[t] /\ generations'[t] = generations[t] /\ conns'[t] = conns[t]
      BY <1>4, <1>5, <2>3 DEF Inv, SlotType
    <3> QED BY <1>7, <2>1, <3>1 DEF Inv, OccupantInv, IsLive
  <2> QED BY <2>2, <2>3
<1>12. BgidInv'
  <2>1. \A t \in LiveIds' : t = s \/ (t \in LiveIds /\ t # s)
    BY <1>5 DEF LiveIds, IsLive
  <2>2. /\ conns'[s].bgid = ReservedBgid
        /\ \A t \in LiveIds : t # s => conns'[t].bgid = conns[t].bgid
    BY <1>1, <1>2, <1>5 DEF LiveIds
  <2>3. \A t \in LiveIds : conns[t].bgid \in Int /\ conns[t].bgid < next_bgid
    BY PoolAssumption DEF LiveIds, IsLive, Inv, SlotType, BgidInv, Conn, Bgids
  <2>4. next_bgid \in Int /\ next_bgid' \in Int BY <1>8, PoolAssumption DEF Inv, SlotType
  <2>5. \A i \in 1 .. Len(free_bgids) :
           /\ free_bgids[i] < next_bgid
           /\ \A t \in LiveIds : conns[t].bgid # free_bgids[i]
           /\ free_bgids[i] \in Int
    BY PoolAssumption DEF Inv, BgidInv, BgidExclusive, SlotType, Bgids
  <2>6. \A t, u \in LiveIds' : conns'[t].bgid = conns'[u].bgid => t = u
    BY <1>1, <2>1, <2>2 DEF Inv, BgidInv, BgidExclusive
  <2>7. \A t \in LiveIds' : conns'[t].bgid < next_bgid'
    BY <1>8, <2>1, <2>2, <2>3, <2>4
  <2>8. \A i \in 1 .. Len(free_bgids)' :
           /\ free_bgids'[i] < next_bgid'
           /\ \A t \in LiveIds' : conns'[t].bgid # free_bgids'[i]
    <3> SUFFICES ASSUME NEW i \in 1 .. Len(free_bgids)'
                 PROVE  /\ free_bgids'[i] < next_bgid'
                        /\ \A t \in LiveIds' : conns'[t].bgid # free_bgids'[i]
      OBVIOUS
    <3>1. PICK j \in 1 .. Len(free_bgids) : free_bgids'[i] = free_bgids[j] BY <1>8
    <3>2. free_bgids[j] # ReservedBgid BY <1>8, <3>1
    <3>3. free_bgids'[i] < next_bgid' BY <1>8, <2>4, <2>5, <3>1
    <3> QED BY <2>1, <2>2, <2>5, <3>1, <3>2, <3>3
  <2>9. ASSUME NEW b \in refused
        PROVE  /\ b < next_bgid'
               /\ \A i \in 1 .. Len(free_bgids)' : free_bgids'[i] # b
               /\ \A t \in LiveIds' : conns'[t].bgid # b
    <3>1. /\ b < next_bgid /\ b \in Int
          /\ \A i \in 1 .. Len(free_bgids) : free_bgids[i] # b
          /\ \A t \in LiveIds : conns[t].bgid # b
      BY PoolAssumption DEF Inv, BgidInv, BgidExclusive, SlotType, Bgids
    <3>2. b < next_bgid' BY <1>8, <2>4, <3>1
    <3>3. \A i \in 1 .. Len(free_bgids)' : free_bgids'[i] # b BY <1>8, <3>1
    <3>4. \A t \in LiveIds' : conns'[t].bgid # b BY <1>1, <2>1, <2>2, <3>1
    <3> QED BY <3>2, <3>3, <3>4
  <2> QED BY <1>4, <1>8, <2>6, <2>7, <2>8, <2>9 DEF BgidInv, BgidExclusive
<1> QED BY <1>1, <1>3, <1>5, <1>6, <1>9, <1>10, <1>11, <1>12 DEF s

\* A singleton free list.
LEMMA SingletonSeq ==
  ASSUME NEW S, NEW e \in S
  PROVE  /\ <<e>> \in Seq(S) /\ Len(<<e>>) = 1 /\ <<e>>[1] = e
         /\ \A i \in 1 .. Len(<<e>>) : i = 1
  OBVIOUS

\* A failed submit_connect_to gives back what it reserved.
LEMMA SubmitFailedInv ==
  ASSUME Inv, SubmitFailed, UNCHANGED refused
  PROVE  SlotType' /\ SlotsAccounted' /\ OccupantInv' /\ BgidInv'
<1>1. UNCHANGED <<conns, generations, born, active_count>> BY DEF SubmitFailed
<1>2. LiveIds' = LiveIds BY <1>1 DEF LiveIds, IsLive
<1>3. /\ next_bgid \in 0 .. BgidMax /\ next_conn_id \in 0 .. ConnIdMask + 1
      /\ free_bgids \in Seq(Bgids) /\ free_conn_ids \in Seq(ConnIds)
  BY DEF Inv, SlotType
<1>4. free_bgids' \in Seq(Bgids) /\ next_bgid' \in 0 .. BgidMax /\ BgidInv'
  <2>1. CASE UNCHANGED <<free_bgids, next_bgid>>
    BY <1>1, <1>2, <1>3, <2>1 DEF Inv, BgidInv, BgidExclusive
  <2>2. CASE ~UNCHANGED <<free_bgids, next_bgid>>
    <3>1. /\ free_bgids = <<>> /\ free_bgids' = <<next_bgid>> /\ next_bgid' = next_bgid + 1
          /\ next_bgid < BgidMax
      BY <2>2 DEF SubmitFailed, BgidAvailable, ReservedBgid
    <3>2. next_bgid \in Bgids /\ next_bgid' \in 0 .. BgidMax
      BY <1>3, <3>1, PoolAssumption DEF Bgids
    <3>3. \A s \in LiveIds : conns[s].bgid \in Int /\ conns[s].bgid < next_bgid
      BY PoolAssumption DEF LiveIds, IsLive, Inv, SlotType, BgidInv, Conn, Bgids
    <3>4. /\ free_bgids' \in Seq(Bgids) /\ Len(free_bgids') = 1 /\ free_bgids'[1] = next_bgid
          /\ \A i \in 1 .. Len(free_bgids)' : i = 1
      BY <3>1, <3>2, SingletonSeq
    <3>5. \A s, t \in LiveIds : conns[s].bgid = conns[t].bgid => s = t
      BY DEF Inv, BgidInv, BgidExclusive
    <3>6. \A s \in LiveIds : conns[s].bgid # next_bgid /\ conns[s].bgid < next_bgid'
      BY <1>3, <3>1, <3>3
    <3>7. next_bgid < next_bgid' BY <1>3, <3>1
    <3>8. \A b \in refused : b < next_bgid' /\ b # next_bgid /\ \A s \in LiveIds : conns[s].bgid # b
      <4>1. \A b \in refused : b \in Int /\ b < next_bgid
        BY PoolAssumption DEF Inv, BgidInv, BgidExclusive, SlotType, Bgids
      <4>2. \A b \in refused, s \in LiveIds : conns[s].bgid # b BY DEF Inv, BgidInv, BgidExclusive
      <4> QED BY <1>3, <3>1, <4>1, <4>2
    <3>9. BgidInv'
      BY <1>1, <1>2, <3>4, <3>5, <3>6, <3>7, <3>8 DEF BgidInv, BgidExclusive
    <3> QED BY <3>2, <3>4, <3>9
  <2> QED BY <2>1, <2>2
<1>5. /\ free_conn_ids' \in Seq(ConnIds) /\ next_conn_id' \in 0 .. ConnIdMask + 1
      /\ SlotsAccounted' /\ OccupantInv'
  <2>1. CASE UNCHANGED <<free_conn_ids, next_conn_id>>
    BY <1>1, <1>3, <2>1 DEF Inv, SlotsAccounted, OccupantInv, IsLive, FreeConnId
  <2>2. CASE ~UNCHANGED <<free_conn_ids, next_conn_id>>
    <3>1. /\ free_conn_ids = <<>> /\ free_conn_ids' = <<next_conn_id>>
          /\ next_conn_id' = next_conn_id + 1 /\ next_conn_id <= ConnIdMask
      BY <2>2 DEF SubmitFailed, ConnIdAvailable, ReservedConnId
    <3>2. next_conn_id \in ConnIds /\ next_conn_id' \in 0 .. ConnIdMask + 1
      BY <1>3, <3>1, PoolAssumption DEF ConnIds
    <3>3. /\ free_conn_ids' \in Seq(ConnIds) /\ Len(free_conn_ids') = 1
          /\ free_conn_ids'[1] = next_conn_id
          /\ \A i \in 1 .. Len(free_conn_ids)' : i = 1
      BY <3>1, <3>2, SingletonSeq
    <3>4. \A s \in ConnIds : (FreeConnId(s)' <=> s = next_conn_id) /\ ~FreeConnId(s)
      BY <3>1, <3>3 DEF FreeConnId
    <3>5. ASSUME NEW s \in ConnIds
          PROVE  /\ s < next_conn_id' <=> s < next_conn_id \/ s = next_conn_id
                 /\ s >= next_conn_id' => s >= next_conn_id
                 /\ ~(next_conn_id < next_conn_id) /\ next_conn_id >= next_conn_id
      BY <1>3, <3>1, PoolAssumption DEF ConnIds
    <3>6. \A s \in ConnIds :
            /\ conns[s] # None => s < next_conn_id
            /\ s < next_conn_id /\ conns[s] = None => generations[s] = GenerationMask
      BY <3>4 DEF Inv, SlotsAccounted, IsLive, FreeConnId
    <3>7. \A s \in ConnIds :
            /\ FreeConnId(s)' => s < next_conn_id'
            /\ conns'[s] # None => s < next_conn_id' /\ ~FreeConnId(s)'
            /\ s < next_conn_id' /\ conns'[s] = None /\ ~FreeConnId(s)'
                  => generations'[s] = GenerationMask
      BY <1>1, <3>2, <3>4, <3>5, <3>6
    <3>8. SlotsAccounted'
      BY <3>3, <3>7 DEF SlotsAccounted, IsLive, FreeConnId
    <3>9. OccupantInv'
      BY <1>1, <3>2, <3>4, <3>5 DEF Inv, OccupantInv, IsLive
    <3> QED BY <3>2, <3>3, <3>8, <3>9
  <2> QED BY <2>1, <2>2
<1> QED BY <1>1, <1>4, <1>5 DEF Inv, SlotType

\* submit_connect_to and connect_blocking_to preserve the invariant.
LEMMA SubmitConnectToInv ==
  ASSUME Inv, NEW tls \in BOOLEAN, NEW blocking \in BOOLEAN, SubmitConnectTo(tls, blocking)
  PROVE  Inv'
<1>1. UNCHANGED <<buf, ops, cq, registered, refused>> BY DEF SubmitConnectTo
<1>2. CASE SubmitFailed /\ Return
  <2>1. SlotType' /\ SlotsAccounted' /\ OccupantInv' /\ BgidInv' BY <1>1, <1>2, SubmitFailedInv
  <2>2. PumpType' /\ TargetLive' BY <1>1, <1>2, ReturnType DEF Inv, PumpType
  <2>3. KernelInv' BY <1>1, <1>2 DEF SubmitFailed, Inv, KernelInv
  <2> QED BY <2>1, <2>2, <2>3 DEF Inv
<1>3. CASE ~(SubmitFailed /\ Return)
  <2>1. /\ BgidAvailable /\ ConnIdAvailable
        /\ Submitted(ReservedConnId, NewConn(ReservedConnId, tls))
        /\ IF blocking
           THEN StartRound("open") /\ target' = ReservedConnId
           ELSE Return
        /\ UNCHANGED generations
    BY <1>3 DEF SubmitConnectTo
  <2>2. /\ SlotType' /\ SlotsAccounted' /\ OccupantInv' /\ BgidInv'
        /\ sq' \in Seq(OwnOps)
        /\ ReservedConnId \in ConnIds
        /\ conns'[ReservedConnId] # None
    BY <1>1, <2>1, SubmittedInv
  <2>3. KernelInv' BY <1>1, <2>2 DEF Inv, KernelInv
  <2>4. CASE Return
    <3>1. PumpType' /\ TargetLive' BY <1>1, <2>4, ReturnType DEF Inv, PumpType
    <3> QED BY <2>2, <2>3, <3>1 DEF Inv
  <2>5. CASE StartRound("open") /\ target' = ReservedConnId
    <3>1. PumpType' BY <1>1, <2>2, <2>5 DEF Inv, PumpType, StartRound
    <3>2. TargetLive' BY <2>2, <2>5 DEF TargetLive, StartRound, IsLive
    <3> QED BY <2>2, <2>3, <3>1, <3>2 DEF Inv
  <2> QED BY <2>1, <2>4, <2>5
<1> QED BY <1>2, <1>3

-----------------------------------------------------------------------------

\* Every step of the specification preserves the invariant.
LEMMA NextInv == Inv /\ [Next]_vars => Inv'
<1> SUFFICES ASSUME Inv, [Next]_vars PROVE Inv' OBVIOUS
<1>1. CASE Api
  <2>1. ASSUME NEW tls \in UseTls, NEW blocking \in Blocking, SubmitConnectTo(tls, blocking)
        PROVE  Inv'
    BY <2>1, SubmitConnectToInv, PoolAssumption
  <2>2. ASSUME NEW s \in ConnIds, RemoveConn(s) \/ InitiateClose(s) PROVE Inv'
    BY <2>2, RemoveConnInv, InitiateCloseInv
  <2>3. ASSUME NEW s \in ConnIds, NEW blocking \in Blocking, Reconnect(s, blocking)
        PROVE  Inv'
    BY <2>3, ReconnectInv, PoolAssumption
  <2>4. ASSUME NEW m \in PumpModes, PumpBegin(m) PROVE Inv'
    BY <2>4, PumpBeginInv
  <2> QED BY <1>1, <2>1, <2>2, <2>3, <2>4, DropPoolInv DEF Api
<1>2. CASE Pump
  <2>1. ASSUME NEW s \in ConnIds, OnConnectCqe(s) \/ Dispatch(s) \/ DispatchBatch(s)
        PROVE  Inv'
    BY <2>1, OnConnectCqeInv, DispatchInv, DispatchBatchInv
  <2> QED BY <1>2, <2>1, SubmitConnOpsInv, SubmitInv, SubmitErrorInv, DrainInv, DropStaleInv,
             EndDispatchInv, PollConnInv, PollEndInv, DriveTargetInv, OpenFailedInv DEF Pump
<1>3. CASE Kernel
  BY <1>3, KernelStepInv
<1>4. CASE UNCHANGED vars
  <2>1. UNCHANGED slotVars /\ UNCHANGED pumpVars /\ UNCHANGED kernelVars BY <1>4 DEF vars
  <2>2. PumpType' BY <2>1 DEF Inv, PumpType, pumpVars, kernelVars
  <2>3. TargetLive' BY <2>1 DEF Inv, TargetLive, pumpVars, slotVars, IsLive
  <2>4. KernelInv' BY <2>1 DEF Inv, KernelInv, pumpVars, kernelVars
  <2> QED BY <2>1, <2>2, <2>3, <2>4, QuietInv
<1> QED BY <1>1, <1>2, <1>3, <1>4 DEF Next

\* The ghosts keep their types.
LEMMA GhostStep ==
  ASSUME GhostType, Inv, [Next]_vars
  PROVE  GhostType'
<1>1. reopened' \in BOOLEAN
  <2>1. ASSUME NEW s, NEW k, NEW r, FinishConnResult(s, k, r) PROVE reopened' \in BOOLEAN
    BY <2>1 DEF FinishConnResult
  <2>2. CASE reopened' = reopened BY <2>2 DEF GhostType
  <2>3. CASE Api
    BY <2>2, <2>3 DEF Api, SubmitConnectTo, RemoveConn, InitiateClose, Reconnect, RetireSlot,
                      PumpBegin, DropPool, slotVars
  <2>4. ASSUME NEW s \in ConnIds, OnConnectCqe(s) \/ Dispatch(s) \/ DispatchBatch(s)
        PROVE  reopened' \in BOOLEAN
    BY <2>1, <2>4 DEF OnConnectCqe, Dispatch, DispatchBatch
  <2>5. CASE SubmitConnOps BY <2>1, <2>2, <2>5 DEF SubmitConnOps
  <2>6. CASE PollConn BY <2>1, <2>2, <2>6 DEF PollConn
  <2>7. CASE DriveTarget BY <2>2, <2>7 DEF DriveTarget
  <2>8. CASE OpenFailed \/ Submit \/ SubmitError \/ Drain \/ DropStale \/ EndDispatch \/ PollEnd
    BY <2>2, <2>8 DEF OpenFailed, RetireSlot, Submit, SubmitError, Drain, DropStale, EndDispatch,
                      PollEnd, slotVars
  <2>9. CASE Kernel \/ UNCHANGED vars
    BY <2>2, <2>9 DEF Kernel, KernelComplete, KernelRecv, vars, slotVars
  <2> QED BY <2>3, <2>4, <2>5, <2>6, <2>7, <2>8, <2>9 DEF Next, Pump
<1>2. leaked' \subseteq Bgids
  <2>1. CASE leaked' = leaked BY <2>1 DEF GhostType
  <2>2. CASE DropPool
    <3>1. \A s \in RingOwners : conns[s].bgid \in Bgids
      BY DEF RingOwners, IsLive, Inv, SlotType, Conn
    <3> QED BY <2>2, <3>1 DEF DropPool, GhostType
  <2>3. ASSUME NEW s \in ConnIds, OnConnectCqe(s) PROVE leaked' \subseteq Bgids
    <3>1. conns[s].bgid \in Bgids BY <2>3 DEF OnConnectCqe, Routes, IsLive, Inv, SlotType, Conn
    <3> QED BY <2>3, <3>1 DEF OnConnectCqe, GhostType
  <2>4. CASE Api /\ ~DropPool
    BY <2>1, <2>4 DEF Api, SubmitConnectTo, RemoveConn, InitiateClose, Reconnect, RetireSlot,
                      PumpBegin, kernelVars
  <2>5. ASSUME NEW s \in ConnIds, Dispatch(s) \/ DispatchBatch(s) PROVE leaked' = leaked
    BY <2>5 DEF Dispatch, DispatchBatch, kernelVars
  <2>6. CASE SubmitConnOps \/ PollConn \/ DriveTarget \/ OpenFailed \/ Submit \/ SubmitError
             \/ Drain \/ DropStale \/ EndDispatch \/ PollEnd
    BY <2>1, <2>6 DEF SubmitConnOps, PollConn, DriveTarget, OpenFailed, RetireSlot, Submit,
                      SubmitError, Drain, DropStale, EndDispatch, PollEnd, kernelVars
  <2>7. CASE Kernel \/ UNCHANGED vars
    BY <2>1, <2>7 DEF Kernel, KernelComplete, KernelRecv, vars, kernelVars
  <2> QED BY <2>1, <2>2, <2>3, <2>4, <2>5, <2>6, <2>7 DEF Next, Pump
<1> QED BY <1>1, <1>2 DEF GhostType

\* The inductive invariant holds in every state of the pool; in particular a
\* connection driven by a blocking connect is there until the call returns
\* (TargetLive, the expect of drive_conn_until_open).
THEOREM PoolInvariant == Spec => []Inv
<1> QED BY InitInv, NextInv, PTL DEF Spec

\* The pool stays within its types: no generation, slot id or buffer group id
\* leaves the range a token or a u16 can carry.
THEOREM PoolTypeOK == Spec => []TypeOK
<1>1. Init => GhostType BY DEF Init, GhostType
<1>2. GhostType /\ Inv /\ [Next]_vars => GhostType' BY GhostStep
<1>3. Inv /\ GhostType => TypeOK BY InvTypeOK
<1> QED BY <1>1, <1>2, <1>3, PoolInvariant, PTL DEF Spec

\* The generation guard is sound for every number of slots, of generations and
\* of outstanding operations: no completion reaches a connection other than
\* the one that submitted the operation.
THEOREM PoolNoAliasing == Spec => []NoAliasing
<1> QED BY PoolInvariant, InvNoAliasing, PTL

\* No slot id is lost or handed out twice, for every sequence of connects, failed
\* connects, removals and reconnects (reserve_conn_id, recycle_conn_slot).
THEOREM PoolSlotsAccounted == Spec => []SlotsAccounted
<1>1. Inv => SlotsAccounted BY DEF Inv
<1> QED BY <1>1, PoolInvariant, PTL

\* A live connection has its buffer group to itself, and a group the kernel
\* refused to unregister when its connection was removed is never handed out
\* again (reserve_bgid, retire_slot).
THEOREM PoolBgidExclusive == Spec => []BgidExclusive
<1>1. Inv => BgidExclusive BY DEF Inv, BgidInv
<1> QED BY <1>1, PoolInvariant, PTL
=============================================================================
