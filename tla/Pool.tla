-------------------------------- MODULE Pool --------------------------------
(***************************************************************************)
(* The connection pool of talaris: the slot table with its generations,    *)
(* the free lists of slot ids and buffer group ids, the count of active    *)
(* connections, and the pump that submits SQEs, drains the completion      *)
(* queue and routes every CQE to its connection by token.                  *)
(*                                                                         *)
(* The pool runs on one thread and holds itself mutably while a pump runs, *)
(* so API calls happen between pumps (phase "idle"); the kernel runs       *)
(* concurrently with everything.  A pump is therefore a sequence of        *)
(* steps (phase), one per connection or per CQE, with kernel steps         *)
(* interleaved.                                                            *)
(*                                                                         *)
(* A connection is kept to what routing and accounting tell apart: its     *)
(* driver state, the state of its WebSocket client, whether bytes are fed  *)
(* and not yet polled (rx), its registered ring, and what it believes the  *)
(* kernel holds (armed, inflight).  Bytes are left out: what a chunk does  *)
(* to the WebSocket client is a choice over WsOutcomes.                    *)
(***************************************************************************)
EXTENDS Integers, Sequences, FiniteSets

CONSTANTS
    ConnIdMask,        \* largest slot id a token can carry
    GenerationMask,    \* largest generation a token can carry
    BgidMax,           \* u16::MAX, the first buffer group id never handed out
    SqEntries,         \* capacity of the submission queue
    CqBound,           \* bound of the model: CQEs waiting in the kernel's CQ
    UseTls,            \* which values of cfg.use_tls connections may have
    PumpModes,         \* which pump flavours the caller uses
    Blocking,          \* whether the caller may use the blocking connects
    UnregisterMayFail, \* whether the kernel may refuse to unregister a ring
    None               \* an empty slot (Option::None)

ConnIds == 0 .. ConnIdMask
Generations == 0 .. GenerationMask
Bgids == 0 .. BgidMax - 1

State == {"Connecting", "TlsHandshake", "WsHandshake", "Open", "Closing", "Closed"}
WsState == {"Connecting", "Open", "Closing", "Closed"}

\* inc is a ghost: which occupant of its slot this connection is, counted
\* independently of the generation.
Conn == [gen : Generations, inc : Nat, bgid : Bgids, tls : BOOLEAN,
         state : State, ws : WsState, rx : BOOLEAN, cn : BOOLEAN,
         ring : BOOLEAN, armed : BOOLEAN, inflight : BOOLEAN]

ASSUME PoolAssumption ==
    /\ ConnIdMask \in Nat
    /\ GenerationMask \in Nat
    /\ BgidMax \in Nat
    /\ SqEntries \in Nat
    /\ CqBound \in Nat
    /\ UseTls \subseteq BOOLEAN
    /\ PumpModes \subseteq {"general", "data", "spin"}
    /\ Blocking \subseteq BOOLEAN
    /\ UnregisterMayFail \in BOOLEAN
    /\ None \notin Conn

VARIABLES
    \* the Pool struct
    conns, generations, free_conn_ids, free_bgids, active_count,
    next_conn_id, next_bgid,
    \* the call in progress: where it is, which pump, the slot it visits, the
    \* slot a blocking connect drives, the CQEs drained, whether to return Err
    phase, mode, cur, target, buf, first_err,
    \* the kernel: SQEs not submitted, operations in flight, CQEs posted,
    \* buffer groups registered
    sq, ops, cq, registered,
    \* ghosts: how many connections have ever occupied each slot; the groups
    \* retire_slot could not unregister; the groups a failed connect or the drop
    \* of the pool could not unregister; whether a Closed connection was opened
    \* again
    born, refused, leaked, reopened

slotVars == <<conns, generations, free_conn_ids, free_bgids, active_count,
              next_conn_id, next_bgid, born, refused, reopened>>
pumpVars == <<phase, mode, cur, target, buf, first_err>>
kernelVars == <<sq, ops, cq, registered, leaked>>
vars == <<slotVars, pumpVars, kernelVars>>

-----------------------------------------------------------------------------
(* Tokens.                                                                  *)

\* encode_conn_token: the generation above the slot id.
Token(conn_id, gen) == gen * (ConnIdMask + 1) + conn_id

\* token_conn_id
TokenConnId(token) == token % (ConnIdMask + 1)

Kind == {"Connect", "Send", "Recv"}

\* What the SQE of an operation of connection k in slot s carries; inc is the
\* ghost that says which connection really submitted it.
Op(kind, s, k) ==
    [kind |-> kind, token |-> Token(s, k.gen), bgid |-> k.bgid, inc |-> k.inc]

Cqe(op, res, more) ==
    [kind |-> op.kind, token |-> op.token, bgid |-> op.bgid, inc |-> op.inc,
     res |-> res, more |-> more]

IsLive(s) == conns[s] # None

\* conn_for_completion: the slot of the token, if it is occupied and its
\* occupant has exactly this token.
Routes(c, s) ==
    /\ s = TokenConnId(c.token)
    /\ s < next_conn_id
    /\ IsLive(s)
    /\ Token(s, conns[s].gen) = c.token

-----------------------------------------------------------------------------
(* Accounting.                                                              *)

Active(k) == k.state # "Closed"

\* u32::saturating_sub(1)
Dec(n) == IF n = 0 THEN 0 ELSE n - 1

\* sync_ws_open_state: whatever the driver state is.
SyncOpen(k) == IF k.ws = "Open" THEN [k EXCEPT !.state = "Open"] ELSE k

\* sync_ws_close_state
SyncClose(k) ==
    IF k.ws = "Closed" /\ k.state \notin {"Closing", "Closed"}
    THEN [k EXCEPT !.state = "Closing"]
    ELSE k

\* fail_conn
Failed(k) == [k EXCEPT !.state = "Closed"]

\* Mutant: fail_conn_and_account that looks only at the state after the handler.
FinishConnResultLate(s, k, r) ==
    LET done == IF r.err THEN Failed(r.conn) ELSE SyncClose(SyncOpen(r.conn))
        closed == Active(r.conn) /\ ~Active(done)
    IN  /\ conns' = [conns EXCEPT ![s] = done]
        /\ active_count' = IF closed THEN Dec(active_count) ELSE active_count
        /\ reopened' = (reopened \/ (~Active(k) /\ Active(done)))
        /\ first_err' = (first_err \/ r.err)

\* Mutant: account_closed_transition that looks only at the state after the
\* handler.
FinishConnResultTwice(s, k, r) ==
    LET done == IF r.err THEN Failed(r.conn) ELSE SyncClose(SyncOpen(r.conn))
    IN  /\ conns' = [conns EXCEPT ![s] = done]
        /\ active_count' = IF Active(done) THEN active_count ELSE Dec(active_count)
        /\ reopened' = (reopened \/ (~Active(k) /\ Active(done)))
        /\ first_err' = (first_err \/ r.err)

\* finish_conn_result and fail_conn_and_account: what becomes of the
\* connection in slot s, which was k before, after a handler returned r.
FinishConnResult(s, k, r) ==
    LET done == IF r.err THEN Failed(r.conn) ELSE SyncClose(SyncOpen(r.conn))
        closed == IF r.err THEN Active(k) \/ Active(r.conn)
                           ELSE Active(k) /\ ~Active(done)
    IN  /\ conns' = [conns EXCEPT ![s] = done]
        /\ active_count' = IF closed THEN Dec(active_count) ELSE active_count
        /\ reopened' = (reopened \/ (~Active(k) /\ Active(done)))
        /\ first_err' = (first_err \/ r.err)

-----------------------------------------------------------------------------
(* Connection handlers: each gives the set of possible results, a           *)
(* connection and whether the handler returned an error.                    *)

Res(k, err) == [conn |-> k, err |-> err]
Ok(k) == Res(k, FALSE)
Err(k) == Res(k, TRUE)

\* What draining everything fed to a WebSocket client may do to it: nothing
\* complete yet, the 101 response, a Close frame, a protocol error (which
\* queues a Close and leaves Closing, or Closed before the handshake).
WsTransitions ==
    {<<"Connecting", "Connecting", FALSE>>, <<"Connecting", "Open", FALSE>>,
     <<"Connecting", "Closed", FALSE>>, <<"Connecting", "Closed", TRUE>>,
     <<"Connecting", "Closing", TRUE>>,
     <<"Open", "Open", FALSE>>, <<"Open", "Closed", FALSE>>, <<"Open", "Closing", TRUE>>,
     <<"Closing", "Closing", FALSE>>, <<"Closing", "Closed", FALSE>>,
     <<"Closing", "Closing", TRUE>>,
     <<"Closed", "Closed", FALSE>>}

WsResult == [ws : WsState, err : BOOLEAN]

WsOutcomes(ws) == {o \in WsResult : <<ws, o.ws, o.err>> \in WsTransitions}

\* What a single poll_event may do: it stops after HandshakeComplete.
WsOneEvent(ws) ==
    {o \in WsOutcomes(ws) : ws = "Connecting" => (o.err <=> o.ws = "Closed") /\ o.ws # "Closing"}

\* discard_completion_after_closed
Discard(k, c) ==
    CASE c.kind = "Recv" ->
            Ok([k EXCEPT !.armed = @ /\ c.more /\ c.res # "nobufs"])
      [] c.kind = "Send" -> Ok([k EXCEPT !.inflight = FALSE])
      [] OTHER -> Ok(k)

\* Mutant: the error returns before send_inflight is cleared.
OnSendCqeErrFirst(k, c) ==
    Res([k EXCEPT !.inflight = c.res = "err"], c.res = "err")

\* on_send_cqe
OnSendCqe(k, c) ==
    Res([k EXCEPT !.inflight = FALSE], c.res = "err")

\* The TLS handshake may be over after a chunk of ciphertext: ALPN is then
\* verified (an error otherwise) and the WebSocket handshake begun.
TlsAdvanced(k) ==
    IF k.state = "TlsHandshake" THEN {k, [k EXCEPT !.state = "WsHandshake"]} ELSE {k}

\* A close_notify seen by rustls stays seen.
CloseNotify(k, cn) ==
    LET seen == [k EXCEPT !.cn = @ \/ cn]
    IN  IF seen.cn /\ k.state \notin {"Closed", "Closing"}
        THEN [seen EXCEPT !.state = "Closing"]
        ELSE seen

\* on_recv_cqe, a CQE that carries bytes: they are fed and not parsed.  With TLS,
\* rustls may refuse them, and there is no plaintext before the handshake is over.
Fed(k) == [k EXCEPT !.rx = TRUE]

RecvFeedTls(k) ==
    {Err(k)}
    \cup {Ok(CloseNotify(a, cn)) : a \in TlsAdvanced(k), cn \in BOOLEAN}
    \cup {Ok(CloseNotify(Fed(a), cn)) :
               a \in {b \in TlsAdvanced(k) : b.state # "TlsHandshake"}, cn \in BOOLEAN}

RecvFeedPlain(k) == {Ok(Fed(k))}

RecvFeed(k) == IF k.tls THEN RecvFeedTls(k) ELSE RecvFeedPlain(k)

\* on_recv_cqe_data and its batch and marked variants: bytes are fed and the
\* WebSocket client is drained at once.
Drained(k, ws) == [k EXCEPT !.ws = ws, !.rx = FALSE]

\* rustls may refuse the bytes at once, or after the client was given the
\* plaintext of earlier records.
RecvDrainTls(k) ==
    {Err(k)}
    \cup {Err(Drained(a, o.ws)) : a \in {b \in TlsAdvanced(k) : b.state # "TlsHandshake"},
                                  o \in WsOutcomes(k.ws)}
    \cup {Ok(CloseNotify(a, cn)) : a \in TlsAdvanced(k), cn \in BOOLEAN}
    \cup {Res(CloseNotify(Drained(a, o.ws), cn),
              o.err \/ (k.state = "TlsHandshake" /\ o.ws # "Connecting")) :
               a \in {b \in TlsAdvanced(k) : b.state # "TlsHandshake"},
               o \in WsOutcomes(k.ws), cn \in BOOLEAN}

RecvDrainPlain(k) ==
    {Res(Drained(k, o.ws), o.err) : o \in WsOutcomes(k.ws)}

RecvDrain(k) == IF k.tls THEN RecvDrainTls(k) ELSE RecvDrainPlain(k)

\* The part of the recv handlers that does not depend on the pump.
OnRecvCqe(k, c) ==
    LET seen == [k EXCEPT !.armed = @ /\ c.more]
    IN  CASE c.res = "eof" -> {Err(Failed(seen))}
          [] c.res = "nobufs" -> {Ok([seen EXCEPT !.armed = FALSE])}
          [] c.res = "err" -> {Err(seen)}
          [] OTHER -> IF mode \in {"data", "spin"} THEN RecvDrain(seen) ELSE RecvFeed(seen)

\* handle_completion and its variants, except for Connect.
HandleCompletion(k, c) ==
    IF k.state = "Closed" THEN {Discard(k, c)}
    ELSE IF c.kind = "Send" THEN {OnSendCqe(k, c)}
    ELSE OnRecvCqe(k, c)

-----------------------------------------------------------------------------
(* Identities.                                                              *)

Last(stack) == stack[Len(stack)]
Pop(stack) == SubSeq(stack, 1, Len(stack) - 1)

\* reserve_bgid: the free list first, then a fresh id; u16::MAX is never given.
BgidAvailable == free_bgids # <<>> \/ next_bgid < BgidMax

ReservedBgid == IF free_bgids # <<>> THEN Last(free_bgids) ELSE next_bgid

\* reserve_conn_id: the free list first, then a fresh slot.
ConnIdAvailable == free_conn_ids # <<>> \/ next_conn_id <= ConnIdMask
ReservedConnId == IF free_conn_ids # <<>> THEN Last(free_conn_ids) ELSE next_conn_id

\* A fresh slot is pushed with generation 0 (it has never been another).
NewConn(s, tls) ==
    [gen |-> generations[s], inc |-> born[s] + 1, bgid |-> ReservedBgid, tls |-> tls,
     state |-> "Connecting", ws |-> "Connecting", rx |-> FALSE, cn |-> FALSE,
     ring |-> FALSE, armed |-> FALSE, inflight |-> FALSE]

\* submit_connect_to succeeds: identity reserved, Connect SQE pushed.
Submitted(s, k) ==
    /\ Len(sq) < SqEntries
    /\ sq' = Append(sq, Op("Connect", s, k))
    /\ conns' = [conns EXCEPT ![s] = k]
    /\ born' = [born EXCEPT ![s] = @ + 1]
    /\ active_count' = active_count + 1
    /\ IF free_conn_ids # <<>>
       THEN free_conn_ids' = Pop(free_conn_ids) /\ UNCHANGED next_conn_id
       ELSE next_conn_id' = next_conn_id + 1 /\ UNCHANGED free_conn_ids
    /\ IF free_bgids # <<>>
       THEN free_bgids' = Pop(free_bgids) /\ UNCHANGED next_bgid
       ELSE next_bgid' = next_bgid + 1 /\ UNCHANGED free_bgids

\* Mutant: release_reserved_identity forgets the fresh slot id.
SubmitFailedLeak ==
    /\ UNCHANGED <<conns, generations, born, active_count, sq, free_conn_ids, free_bgids,
                   next_bgid>>
    /\ BgidAvailable
    /\ next_conn_id' = IF free_conn_ids = <<>> /\ ConnIdAvailable THEN next_conn_id + 1
                                                                 ELSE next_conn_id

\* submit_connect_to fails.  Without a bgid nothing was reserved; without a
\* slot id the bgid goes (back) to its free list; if the socket or the SQE
\* cannot be had, both ids go to their free lists, the generation unchanged.
SubmitFailed ==
    LET s == ReservedConnId
        b == ReservedBgid
    IN  /\ UNCHANGED <<conns, generations, born, active_count, sq>>
        /\ \/ /\ ~BgidAvailable
              /\ UNCHANGED <<free_conn_ids, free_bgids, next_conn_id, next_bgid>>
           \/ /\ BgidAvailable
              /\ IF free_bgids # <<>>
                 THEN UNCHANGED <<free_bgids, next_bgid>>
                 ELSE free_bgids' = <<b>> /\ next_bgid' = next_bgid + 1
              /\ IF free_conn_ids # <<>> \/ ~ConnIdAvailable
                 THEN UNCHANGED <<free_conn_ids, next_conn_id>>
                 ELSE free_conn_ids' = <<s>> /\ next_conn_id' = next_conn_id + 1

\* Mutant: the last generation is skipped past.
RecycleConnSlotOverflow(s) ==
    /\ generations' = [generations EXCEPT ![s] = @ + 1]
    /\ free_conn_ids' = Append(free_conn_ids, s)

\* Mutant: the slot is freed without a new generation.
RecycleConnSlotSameGeneration(s) ==
    /\ UNCHANGED generations
    /\ free_conn_ids' = Append(free_conn_ids, s)

\* recycle_conn_slot: the next occupant gets the next generation; a slot whose
\* generations are used up is never free again.
RecycleConnSlot(s) ==
    IF generations[s] >= GenerationMask
    THEN UNCHANGED <<generations, free_conn_ids>>
    ELSE /\ generations' = [generations EXCEPT ![s] = @ + 1]
         /\ free_conn_ids' = Append(free_conn_ids, s)

\* Mutant: the group goes back to the free list whether or not it was
\* unregistered.
RetireSlotFrees(s) ==
    LET dead == conns[s]
    IN  /\ conns' = [conns EXCEPT ![s] = None]
        /\ active_count' = IF Active(dead) THEN Dec(active_count) ELSE active_count
        /\ RecycleConnSlot(s)
        /\ free_bgids' = Append(free_bgids, dead.bgid)
        /\ \/ /\ registered' = IF dead.ring THEN registered \ {dead.bgid} ELSE registered
              /\ UNCHANGED refused
           \/ /\ dead.ring
              /\ UnregisterMayFail
              /\ refused' = refused \cup {dead.bgid}
              /\ UNCHANGED registered
        /\ UNCHANGED <<next_conn_id, next_bgid, born, leaked, reopened>>

\* retire_slot of an occupied slot.  Operations of the dropped connection stay
\* in the submission queue and in the kernel: nothing cancels them.
RetireSlot(s) ==
    LET dead == conns[s]
    IN  /\ conns' = [conns EXCEPT ![s] = None]
        /\ active_count' = IF Active(dead) THEN Dec(active_count) ELSE active_count
        /\ RecycleConnSlot(s)
        /\ \/ /\ registered' = IF dead.ring THEN registered \ {dead.bgid} ELSE registered
              /\ free_bgids' = Append(free_bgids, dead.bgid)
              /\ UNCHANGED refused
           \/ /\ dead.ring
              /\ UnregisterMayFail
              /\ refused' = refused \cup {dead.bgid}
              /\ UNCHANGED <<registered, free_bgids>>
        /\ UNCHANGED <<next_conn_id, next_bgid, born, leaked, reopened>>

-----------------------------------------------------------------------------
(* API calls.  A stale handle matches no token and changes nothing, so only *)
(* calls through a handle whose token matches are actions.                  *)

\* Back to the caller.
Return ==
    /\ phase' = "idle"
    /\ mode' = "none"
    /\ cur' = 0
    /\ target' = 0
    /\ first_err' = FALSE

\* One round of a pump: submit_conn_ops from the first slot on.
StartRound(m) ==
    /\ phase' = "submit"
    /\ mode' = m
    /\ cur' = 0
    /\ first_err' = FALSE

\* submit_connect_to, connect_blocking_to, and the second half of a reconnect.
SubmitConnectTo(tls, blocking) ==
    /\ \/ phase = "idle"
       \/ phase = "resubmit" /\ (blocking <=> mode = "open")
    /\ \/ /\ BgidAvailable
          /\ ConnIdAvailable
          /\ Submitted(ReservedConnId, NewConn(ReservedConnId, tls))
          /\ IF blocking
             THEN StartRound("open") /\ target' = ReservedConnId
             ELSE Return
          /\ UNCHANGED generations
       \/ SubmitFailed /\ Return
    /\ UNCHANGED <<buf, ops, cq, registered, refused, leaked, reopened>>

\* remove_conn
RemoveConn(s) ==
    /\ phase = "idle"
    /\ IsLive(s)
    /\ RetireSlot(s)
    /\ UNCHANGED <<pumpVars, sq, ops, cq>>

\* submit_reconnect_to and reconnect_to: remove_conn, then submit_connect_to.
Reconnect(s, blocking) ==
    /\ phase = "idle"
    /\ IsLive(s)
    /\ RetireSlot(s)
    /\ phase' = "resubmit"
    /\ mode' = IF blocking THEN "open" ELSE "none"
    /\ UNCHANGED <<cur, target, buf, first_err, sq, ops, cq>>

\* initiate_close; send_close is an error before the WebSocket is open.
InitiateClose(s) ==
    /\ phase = "idle"
    /\ IsLive(s)
    /\ conns[s].state \notin {"Closing", "Closed"}
    /\ conns[s].ws # "Connecting"
    /\ conns' = [conns EXCEPT
                    ![s].ws = IF @ = "Open" THEN "Closing" ELSE @,
                    ![s].state = IF @ = "Open" THEN "Closing" ELSE @]
    /\ UNCHANGED <<generations, free_conn_ids, free_bgids, active_count,
                   next_conn_id, next_bgid, born, refused, reopened, pumpVars, kernelVars>>

\* pump, pump_data and pump_data_spin with their nowait, batch and marked
\* variants.  pump_spin drains and polls until one round makes progress,
\* which is a pump whose drain comes late.
PumpBegin(m) ==
    /\ phase = "idle"
    /\ StartRound(m)
    /\ UNCHANGED <<target, buf, slotVars, kernelVars>>

RingOwners == {s \in ConnIds : IsLive(s) /\ conns[s].ring}

\* Mutant: only rings of connections that are not Closed are unregistered.
DropPoolActive ==
    LET rings == {conns[s].bgid : s \in {t \in RingOwners : Active(conns[t])}}
    IN  /\ phase = "idle"
        /\ phase' = "dropped"
        /\ \E kept \in SUBSET {b \in rings : UnregisterMayFail} :
              /\ registered' = registered \ (rings \ kept)
              /\ leaked' = leaked \cup kept
        /\ UNCHANGED <<mode, cur, target, buf, first_err, slotVars, sq, ops, cq>>

\* Drop for Pool: every ring of a live connection is unregistered, an error
\* ignored.
DropPool ==
    LET rings == {conns[s].bgid : s \in RingOwners}
    IN  /\ phase = "idle"
        /\ phase' = "dropped"
        /\ \E kept \in SUBSET {b \in rings : UnregisterMayFail} :
              /\ registered' = registered \ (rings \ kept)
              /\ leaked' = leaked \cup kept
        /\ UNCHANGED <<mode, cur, target, buf, first_err, slotVars, sq, ops, cq>>

-----------------------------------------------------------------------------
(* The pump.                                                                *)

CannotSubmit(k) == k.state \in {"Connecting", "Closed"}

\* try_submit_send; whether bytes are pending is SendPath's business.
TrySubmitSend(s, k) ==
    LET nothing == [conn |-> k, err |-> FALSE, q |-> sq]
        failed == [conn |-> k, err |-> TRUE, q |-> sq]
        sent == [conn |-> [k EXCEPT !.inflight = TRUE], err |-> FALSE,
                 q |-> Append(sq, Op("Send", s, k))]
    IN  IF k.inflight \/ CannotSubmit(k)
        THEN {nothing}
        ELSE {nothing} \cup {r \in {sent} : Len(sq) < SqEntries}
                       \cup {r \in {failed} : k.tls \/ Len(sq) >= SqEntries}

\* Mutant: multishot_armed is not consulted.
TryRearmAlways(s, k, q) ==
    IF CannotSubmit(k) \/ ~k.ring
    THEN [conn |-> k, err |-> FALSE, q |-> q]
    ELSE IF Len(q) < SqEntries
    THEN [conn |-> [k EXCEPT !.armed = TRUE], err |-> FALSE,
          q |-> Append(q, Op("Recv", s, k))]
    ELSE [conn |-> k, err |-> TRUE, q |-> q]

\* Mutant: a receive that ended is armed again only once the connection is open.
TryRearmOpenOnly(s, k, q) ==
    IF k.armed \/ k.state # "Open" \/ ~k.ring
    THEN [conn |-> k, err |-> FALSE, q |-> q]
    ELSE IF Len(q) < SqEntries
    THEN [conn |-> [k EXCEPT !.armed = TRUE], err |-> FALSE,
          q |-> Append(q, Op("Recv", s, k))]
    ELSE [conn |-> k, err |-> TRUE, q |-> q]

\* try_rearm_multishot, with submission queue q.
TryRearm(s, k, q) ==
    IF k.armed \/ CannotSubmit(k) \/ ~k.ring
    THEN [conn |-> k, err |-> FALSE, q |-> q]
    ELSE IF Len(q) < SqEntries
    THEN [conn |-> [k EXCEPT !.armed = TRUE], err |-> FALSE,
          q |-> Append(q, Op("Recv", s, k))]
    ELSE [conn |-> k, err |-> TRUE, q |-> q]

\* submit_conn_ops, the iteration for one slot.  Success does not synchronise
\* the driver state with the WebSocket client.
SubmitConnOps ==
    /\ phase = "submit"
    /\ cur < next_conn_id
    /\ cur' = cur + 1
    /\ \/ ~IsLive(cur) /\ UNCHANGED <<conns, active_count, reopened, first_err, sq>>
       \/ /\ IsLive(cur)
          /\ \E sent \in TrySubmitSend(cur, conns[cur]) :
                LET r == IF sent.err THEN sent ELSE TryRearm(cur, sent.conn, sent.q)
                IN  /\ sq' = r.q
                    /\ IF r.err
                       THEN FinishConnResult(cur, conns[cur], Err(r.conn))
                       ELSE /\ conns' = [conns EXCEPT ![cur] = r.conn]
                            /\ UNCHANGED <<active_count, reopened, first_err>>
    /\ UNCHANGED <<generations, free_conn_ids, free_bgids, next_conn_id, next_bgid,
                   born, refused, phase, mode, target, buf, ops, cq, registered, leaked>>

\* proactor.submit()
Submit ==
    /\ phase = "submit"
    /\ cur >= next_conn_id
    /\ ops' = ops \cup {sq[i] : i \in 1 .. Len(sq)}
    /\ sq' = <<>>
    /\ phase' = "wait"
    /\ cur' = 0
    /\ UNCHANGED <<mode, target, buf, first_err, slotVars, cq, registered, leaked>>

\* proactor.submit()? or wait_for_cqe()? fails: the pump returns at once.
SubmitError ==
    /\ \/ phase = "submit" /\ cur >= next_conn_id
       \/ phase = "wait"
    /\ IF mode = "open"
       THEN phase' = "failed" /\ cur' = 0 /\ UNCHANGED <<mode, target, first_err>>
       ELSE Return
    /\ UNCHANGED <<buf, slotVars, kernelVars>>

\* wait_for_cqe(wait_nr) and drain_completions: all CQEs posted so far.  Only
\* drive_open_once always waits for one.
Drain ==
    /\ phase = "wait"
    /\ mode = "open" => cq # <<>>
    /\ buf' = cq
    /\ cq' = <<>>
    /\ phase' = "dispatch"
    /\ UNCHANGED <<mode, cur, target, first_err, slotVars, sq, ops, registered, leaked>>

Dispatching == phase = "dispatch" /\ buf # <<>>

idVars == <<generations, free_conn_ids, free_bgids, next_conn_id, next_bgid, born, refused>>

\* A CQE that routes to no connection is dropped.
DropStale ==
    /\ Dispatching
    /\ ~\E s \in ConnIds : Routes(Head(buf), s)
    /\ buf' = Tail(buf)
    /\ UNCHANGED <<phase, mode, cur, target, first_err, slotVars, kernelVars>>

\* on_connect_cqe: register the ring, arm the multishot receive, and begin the
\* TLS or the WebSocket handshake.
OnConnectCqe(s) ==
    LET k == conns[s]
        up == [k EXCEPT !.ring = TRUE, !.armed = TRUE,
                        !.state = IF k.tls THEN "TlsHandshake" ELSE "WsHandshake"]
    IN  /\ Dispatching
        /\ Routes(Head(buf), s)
        /\ Head(buf).kind = "Connect"
        /\ k.state # "Closed"
        /\ buf' = Tail(buf)
        /\ \/ \* the connect failed, or BufferRing::new did
              /\ FinishConnResult(s, k, Err(k))
              /\ UNCHANGED <<sq, registered, leaked>>
           \/ \* registered, but the receive could not be submitted
              /\ Head(buf).res = "ok"
              /\ k.bgid \notin registered
              /\ Len(sq) >= SqEntries
              /\ FinishConnResult(s, k, Err(k))
              /\ UNCHANGED sq
              /\ \E kept \in SUBSET {b \in {k.bgid} : UnregisterMayFail} :
                    /\ registered' = registered \cup kept
                    /\ leaked' = leaked \cup kept
           \/ /\ Head(buf).res = "ok"
              /\ k.bgid \notin registered
              /\ Len(sq) < SqEntries
              /\ FinishConnResult(s, k, Ok(up))
              /\ sq' = Append(sq, Op("Recv", s, k))
              /\ registered' = registered \cup {k.bgid}
              /\ UNCHANGED leaked
        /\ UNCHANGED <<idVars, phase, mode, cur, target, ops, cq>>

\* can_handle_plain_recv_data_batch
CanBatch(c, s) ==
    /\ mode \in {"data", "spin"}
    /\ Routes(c, s)
    /\ ~conns[s].tls
    /\ conns[s].state = "Open"
    /\ c.kind = "Recv"
    /\ c.res = "data"

\* dispatch_conn_completions_data takes the longest run of such CQEs.
BatchOf(s, n) ==
    /\ n \in 1 .. Len(buf)
    /\ \A i \in 1 .. n : CanBatch(buf[i], s)
    /\ n < Len(buf) => ~CanBatch(buf[n + 1], s)

\* One CQE through handle_completion or one of its variants.
Dispatch(s) ==
    /\ Dispatching
    /\ Routes(Head(buf), s)
    /\ Head(buf).kind = "Connect" => conns[s].state = "Closed"
    /\ ~\E n \in 2 .. Len(buf) : BatchOf(s, n)
    /\ \E r \in HandleCompletion(conns[s], Head(buf)) : FinishConnResult(s, conns[s], r)
    /\ buf' = Tail(buf)
    /\ UNCHANGED <<idVars, phase, mode, cur, target, kernelVars>>

\* handle_plain_recv_data_batch and its variants: every buffer is recycled,
\* the client is drained up to the first error, and the result is finished once.
DispatchBatch(s) ==
    /\ Dispatching
    /\ \E n \in 2 .. Len(buf) :
          /\ BatchOf(s, n)
          /\ \E r \in RecvDrain([conns[s] EXCEPT !.armed =
                                    @ /\ \A i \in 1 .. n : buf[i].more]) :
                FinishConnResult(s, conns[s], r)
          /\ buf' = SubSeq(buf, n + 1, Len(buf))
    /\ UNCHANGED <<idVars, phase, mode, cur, target, kernelVars>>

\* All CQEs handled.  pump polls the clients, pump_data_spin may drain again
\* (drain_post_progress, whose first drain comes whatever the errors so far),
\* drive_open_once returns its first error.
EndDispatch ==
    /\ phase = "dispatch"
    /\ buf = <<>>
    /\ \/ mode = "general" /\ phase' = "poll" /\ UNCHANGED <<mode, cur, target, first_err>>
       \/ mode \in {"data", "spin"} /\ Return
       \/ mode = "spin" /\ phase' = "wait"
             /\ UNCHANGED <<mode, cur, target, first_err>>
       \/ mode = "open" /\ phase' = (IF first_err THEN "failed" ELSE "target")
             /\ UNCHANGED <<mode, cur, target, first_err>>
    /\ UNCHANGED <<buf, slotVars, kernelVars>>

\* pump_impl, polling the client of one slot until it has no event.  A Closed
\* connection is skipped; the result is not accounted for unless it is an error.
PollConn ==
    /\ phase = "poll"
    /\ cur < next_conn_id
    /\ cur' = cur + 1
    /\ \/ /\ IsLive(cur) => ~Active(conns[cur])
          /\ UNCHANGED <<conns, active_count, reopened, first_err>>
       \/ /\ IsLive(cur)
          /\ Active(conns[cur])
          /\ \E o \in IF conns[cur].rx THEN WsOutcomes(conns[cur].ws)
                                       ELSE {[ws |-> conns[cur].ws, err |-> FALSE]} :
                LET k == Drained(conns[cur], o.ws)
                IN  IF o.err
                    THEN FinishConnResult(cur, conns[cur], Err(k))
                    ELSE /\ conns' = [conns EXCEPT ![cur] = SyncClose(SyncOpen(k))]
                         /\ UNCHANGED <<active_count, reopened, first_err>>
    /\ UNCHANGED <<idVars, phase, mode, target, buf, kernelVars>>

PollEnd ==
    /\ phase = "poll"
    /\ cur >= next_conn_id
    /\ Return
    /\ UNCHANGED <<buf, slotVars, kernelVars>>

\* drive_target_handshake_event and the test of drive_conn_until_open.
DriveTarget ==
    LET k == conns[target]
        Next1(state) == CASE state = "Open" -> Return
                          [] state = "Closed" -> phase' = "failed"
                                /\ UNCHANGED <<mode, cur, target, first_err>>
                          [] OTHER -> StartRound("open") /\ UNCHANGED target
    IN  /\ phase = "target"
        /\ \/ /\ k.state \in {"Open", "Closed"}
              /\ conns' = [conns EXCEPT ![target] = SyncOpen(k)]
              /\ reopened' = (reopened \/ (~Active(k) /\ Active(SyncOpen(k))))
              /\ UNCHANGED active_count
              /\ Next1(SyncOpen(k).state)
           \/ /\ k.state \notin {"Open", "Closed"}
              /\ \E o \in IF k.rx THEN WsOneEvent(k.ws) ELSE {[ws |-> k.ws, err |-> FALSE]},
                    more \in IF k.rx THEN BOOLEAN ELSE {FALSE} :
                    LET polled == [k EXCEPT !.ws = o.ws, !.rx = more]
                        done == IF o.err THEN Failed(polled) ELSE SyncClose(SyncOpen(polled))
                    IN  /\ conns' = [conns EXCEPT ![target] = done]
                        /\ active_count' = IF Active(done) THEN active_count
                                                           ELSE Dec(active_count)
                        /\ UNCHANGED reopened
                        /\ Next1(done.state)
        /\ UNCHANGED <<idVars, buf, kernelVars>>

\* The Err arm of connect_blocking_to and reconnect_to.
OpenFailed ==
    /\ phase = "failed"
    /\ RetireSlot(target)
    /\ Return
    /\ UNCHANGED <<buf, sq, ops, cq>>

-----------------------------------------------------------------------------
(* The kernel.                                                              *)

\* A Connect or Send completes once, with or without an error.
KernelComplete(op) ==
    /\ op.kind # "Recv"
    /\ Len(cq) < CqBound
    /\ ops' = ops \ {op}
    /\ \E res \in {"ok", "err"} : cq' = Append(cq, Cqe(op, res, FALSE))
    /\ UNCHANGED <<pumpVars, slotVars, sq, registered, leaked>>

\* A multishot receive posts a CQE per chunk while it finds the ring of its
\* buffer group, and ends with end of stream, an error, or no buffer.
KernelRecv(op) ==
    /\ op.kind = "Recv"
    /\ Len(cq) < CqBound
    /\ \/ /\ op.bgid \in registered
          /\ \E more \in BOOLEAN :
                /\ cq' = Append(cq, Cqe(op, "data", more))
                /\ ops' = IF more THEN ops ELSE ops \ {op}
       \/ /\ \E res \in {"eof", "err", "nobufs"} : cq' = Append(cq, Cqe(op, res, FALSE))
          /\ ops' = ops \ {op}
    /\ UNCHANGED <<pumpVars, slotVars, sq, registered, leaked>>

Kernel == \E op \in ops : KernelComplete(op) \/ KernelRecv(op)

-----------------------------------------------------------------------------
Init ==
    /\ conns = [s \in ConnIds |-> None]
    /\ generations = [s \in ConnIds |-> 0]
    /\ born = [s \in ConnIds |-> 0]
    /\ refused = {}
    /\ reopened = FALSE
    /\ free_conn_ids = <<>>
    /\ free_bgids = <<>>
    /\ active_count = 0
    /\ next_conn_id = 0
    /\ next_bgid = 0
    /\ phase = "idle"
    /\ mode = "none"
    /\ cur = 0
    /\ target = 0
    /\ buf = <<>>
    /\ first_err = FALSE
    /\ sq = <<>>
    /\ ops = {}
    /\ cq = <<>>
    /\ registered = {}
    /\ leaked = {}

Api ==
    \/ \E tls \in UseTls, blocking \in Blocking : SubmitConnectTo(tls, blocking)
    \/ \E s \in ConnIds : RemoveConn(s) \/ InitiateClose(s)
    \/ \E s \in ConnIds, blocking \in Blocking : Reconnect(s, blocking)
    \/ \E m \in PumpModes : PumpBegin(m)
    \/ DropPool

Pump ==
    \/ SubmitConnOps \/ Submit \/ SubmitError \/ Drain
    \/ DropStale \/ EndDispatch
    \/ \E s \in ConnIds : OnConnectCqe(s) \/ Dispatch(s) \/ DispatchBatch(s)
    \/ PollConn \/ PollEnd
    \/ DriveTarget \/ OpenFailed

Next == Api \/ Pump \/ Kernel

Spec == Init /\ [][Next]_vars

-----------------------------------------------------------------------------
(* Properties.                                                              *)

OpType == [kind : Kind, token : Nat, bgid : Bgids, inc : Nat]
CqeType == [kind : Kind, token : Nat, bgid : Bgids, inc : Nat,
            res : {"ok", "err", "data", "eof", "nobufs"}, more : BOOLEAN]

\* The state of the pool stays within its types.
TypeOK ==
    /\ conns \in [ConnIds -> Conn \cup {None}]
    /\ generations \in [ConnIds -> Generations]
    /\ born \in [ConnIds -> Nat]
    /\ refused \subseteq Bgids
    /\ reopened \in BOOLEAN
    /\ free_conn_ids \in Seq(ConnIds)
    /\ free_bgids \in Seq(Bgids)
    /\ active_count \in Nat
    /\ next_conn_id \in 0 .. ConnIdMask + 1
    /\ next_bgid \in 0 .. BgidMax
    /\ phase \in {"idle", "resubmit", "submit", "wait", "dispatch", "poll", "target",
                  "failed", "dropped"}
    /\ mode \in {"none", "general", "data", "spin", "open"}
    /\ cur \in Nat
    /\ target \in ConnIds
    /\ first_err \in BOOLEAN
    /\ buf \in Seq(CqeType)
    /\ sq \in Seq(OpType)
    /\ ops \subseteq OpType
    /\ cq \in Seq(CqeType)
    /\ registered \subseteq Bgids
    /\ leaked \subseteq Bgids

\* Everything outstanding: SQEs, operations, CQEs posted or drained.
Outstanding ==
    {sq[i] : i \in 1 .. Len(sq)} \cup ops \cup {cq[i] : i \in 1 .. Len(cq)}
        \cup {buf[i] : i \in 1 .. Len(buf)}

LiveIds == {s \in ConnIds : IsLive(s)}

\* The generation guard: whatever is outstanding is only ever routed to the
\* connection that submitted it, however often its slot was reused since
\* (conn_for_completion; the "generation guard" of the module comment).
NoAliasing ==
    \A c \in Outstanding, s \in ConnIds : Routes(c, s) => c.inc = conns[s].inc

\* Slot ids are never lost nor handed out twice: through every sequence of
\* connects, failed connects, removals and reconnects, a slot is occupied, on the
\* free list once, never used, or out of generations
\* (reserve_conn_id, release_reserved_identity, recycle_conn_slot).
SlotsAccounted ==
    /\ \A i, j \in 1 .. Len(free_conn_ids) :
          free_conn_ids[i] = free_conn_ids[j] => i = j
    /\ \A s \in ConnIds :
          LET free == \E i \in 1 .. Len(free_conn_ids) : free_conn_ids[i] = s
          IN  /\ free => s < next_conn_id
              /\ IsLive(s) => s < next_conn_id /\ ~free
              /\ s < next_conn_id /\ ~IsLive(s) /\ ~free => generations[s] = GenerationMask

\* A live connection has its buffer group to itself: no other live connection
\* has it and it is not free to be given away.  A group the kernel refused to
\* unregister when its connection was removed is out of circulation for good:
\* its memory is gone while the kernel may still pick buffers from it
\* (reserve_bgid, retire_slot: "bgid will not be reused").
BgidExclusive ==
    /\ \A s, t \in LiveIds : conns[s].bgid = conns[t].bgid => s = t
    /\ \A i \in 1 .. Len(free_bgids) :
          /\ free_bgids[i] < next_bgid
          /\ \A j \in 1 .. Len(free_bgids) : free_bgids[i] = free_bgids[j] => i = j
          /\ \A s \in LiveIds : conns[s].bgid # free_bgids[i]
    /\ \A b \in refused :
          /\ b < next_bgid
          /\ \A i \in 1 .. Len(free_bgids) : free_bgids[i] # b
          /\ \A s \in LiveIds : conns[s].bgid # b

\* The operations of connection s that the kernel still has, or whose last CQE
\* has not been handled.
Held(s, kind) ==
    LET mine(c) == c.kind = kind /\ c.token = Token(s, conns[s].gen)
    IN  Cardinality({i \in 1 .. Len(sq) : mine(sq[i])})
        + Cardinality({o \in ops : mine(o)})
        + Cardinality({i \in 1 .. Len(cq) : mine(cq[i]) /\ ~cq[i].more})
        + Cardinality({i \in 1 .. Len(buf) : mine(buf[i]) /\ ~buf[i].more})

\* multishot_armed tells the truth: exactly one receive is with the kernel (or
\* its last CQE under way) when it is set, and none when it is not.  A second
\* one would take buffers out of order; a missing one would leave the
\* connection deaf, since only an unarmed receive is armed again.
RecvAgrees == \A s \in LiveIds : Held(s, "Recv") = IF conns[s].armed THEN 1 ELSE 0

\* send_inflight tells the truth: while it is clear, and send_buf may be
\* compacted and extended, the kernel reads nothing from it; while it is set, a
\* CQE that clears it is still to come.
SendAgrees == \A s \in LiveIds : Held(s, "Send") = IF conns[s].inflight THEN 1 ELSE 0

\* conn_count counts every active connection once and no other, through every
\* path on which a connection can fail: none is missed and none taken off twice
\* (finish_conn_result, fail_conn_and_account, retire_slot).  A connection that
\* is opened again after Closed (ClosedStaysClosed below) is not counted again,
\* and from then on the count is only a lower bound.
ActiveCountAgrees ==
    LET active == Cardinality({s \in LiveIds : Active(conns[s])})
    IN  /\ active_count <= active
        /\ ~reopened => active_count = active

\* drive_conn_until_open does not wait for a CQE when none can come: unless a
\* connection has failed in the submit phase, the one it drives has an operation
\* with the kernel.
BlockingConnectNotStuck ==
    phase = "wait" /\ mode = "open" /\ ~first_err => ops # {} \/ cq # <<>>

\* No ring outlives its connection unless the kernel refused to unregister it:
\* the registered groups are those of the live connections that own a ring (of
\* none once the pool is dropped), and those that retire_slot, a connect whose
\* receive could not be submitted, or Drop for Pool asked for in vain.
RingsOwned ==
    registered = (IF phase = "dropped" THEN {} ELSE {conns[s].bgid : s \in RingOwners})
                     \cup refused \cup leaked

-----------------------------------------------------------------------------
(* What the comments say and the code does not do.                          *)

\* fail_conn: a connection pushed to Closed only has its resources recycled; it
\* stays Closed until it is removed.
ClosedStaysClosed ==
    [][\A s \in ConnIds :
          (IsLive(s) /\ conns[s].state = "Closed" /\ conns'[s] # None)
              => conns'[s].state = "Closed"]_vars

\* connect_blocking_to: a connection that fails makes the call return.  So the
\* call never waits for a CQE when the kernel has nothing to complete.
FailedConnectReturns ==
    phase = "wait" /\ mode = "open" => ops # {} \/ cq # <<>>

\* try_submit_send: send_buf is not dropped before the CQE of its Send.
SendBufferOutlivesSend ==
    \A op \in ops : op.kind = "Send" =>
        \E s \in LiveIds : Token(s, conns[s].gen) = op.token

\* "bgid safe reuse": a receive in the kernel takes buffers only from the ring
\* of the connection that armed it.
RecvUsesOwnRing ==
    \A op \in ops, s \in LiveIds :
        (op.kind = "Recv" /\ conns[s].ring /\ conns[s].bgid = op.bgid)
            => Token(s, conns[s].gen) = op.token

=============================================================================
