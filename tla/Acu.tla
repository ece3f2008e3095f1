-------------------------------- MODULE Acu ---------------------------------
(***************************************************************************)
(* One PD slot of the controller (src/acu/src/acu.c, acu_sc.c): the        *)
(* one-outstanding-command discipline, sequence numbers, the reply and     *)
(* offline timeouts, the Secure Channel handshake and session loss.        *)
(*                                                                         *)
(* osdp_acu_tick first scans the timeouts and then decodes what arrived.   *)
(* The actions are the steps of a tick; a frame is received only when no   *)
(* timeout is due, because the scan at the start of the same tick would    *)
(* have fired it.  Between two steps the application may call the API, as  *)
(* it may from the callbacks.                                              *)
(***************************************************************************)
EXTENDS Wire

CONSTANTS
    Cmds,            \* the commands [code, data] the application sends
    Selectors,       \* key selectors the application starts handshakes with
    Addresses,       \* addresses the slot may be registered for
    ReplyTimeout,    \* OSDP_ACU_REPLY_TIMEOUT_MS, in clock ticks
    OfflineTimeout,  \* OSDP_ACU_OFFLINE_TIMEOUT_MS, in clock ticks
    GivesUp,         \* may the application send something else after a timeout?
    MaxNonces,       \* bound: handshakes started
    MaxRegisters     \* bound: re-registrations of the slot

ASSUME SelectorsAssumption == Selectors \subseteq {0, 1}
ASSUME TimeoutsAssumption == ReplyTimeout \in Nat /\ OfflineTimeout \in Nat
ASSUME AcuBoundsAssumption ==
    MaxNonces \in Nat /\ MaxRegisters \in Nat
ASSUME AddressesAssumption ==
    Addresses # {} /\ Addresses \subseteq 0..Broadcast

VARIABLES
    address,          \* the registered PD address
    next_seq, waiting, pending_seq, pending_code,
    sent_age,         \* now - pending_sent_ms, saturating
    in_scan,          \* timeout_cb is running, the offline check still to come
    online,
    reply_age,        \* now - last_reply_ms, saturating
    scbk, scbk_d,     \* the operational and the default key, or NoKey
    sc_phase, sc_key_selector, sc_rnd_a, sc_rnd_b, sc_session,
    \* history
    nonces,           \* RND.A values used so far
    log,              \* log[i]: the MAC over the bytes of the i-th command issued
    gave_up,          \* the last challenge timed out, and the application sent
                      \* a command instead of trying again
    registers,        \* re-registrations so far
    tx,               \* the last frame written
    timed_out,        \* the last command sent ended in a timeout
    app_secure,       \* what the SC events told the application
    delivered         \* the last reply handed to reply_cb: the command it
                      \* answers (id) and the one reported with it (cmd)

seqVars    == <<next_seq, waiting, pending_seq, pending_code>>
onlineVars == <<online, reply_age>>
scVars     == <<sc_phase, sc_key_selector, sc_rnd_a, sc_rnd_b, sc_session,
                app_secure>>
cfgVars    == <<address, scbk, scbk_d, registers>>
countVars  == <<nonces, log, gave_up>>
acuVars    == <<seqVars, sent_age, in_scan, onlineVars, scVars, cfgVars,
                countVars, tx, timed_out, delivered>>

Phases == {"IDLE", "AWAITING_CCRYPT", "AWAITING_RMAC_I", "ESTABLISHED"}

NoDelivery == [id |-> 0, cmd |-> 0, secure |-> FALSE, code |-> "NONE"]
NoFrame    == Frame(0, 0, "NONE", 0, "NONE", <<>>, 0)
NoNonce    == 0

\* Command instances issued so far; a retry is the same instance.
ids == Len(log)

MutAdvanceSqn(s) == s + 1

\* advance_sqn: 0 is only ever the first number of a connection.
AdvanceSqn(s) == IF s >= 3 THEN 1 ELSE s + 1

MutReplyDue == waiting /\ online /\ sent_age > ReplyTimeout

\* The two deadlines of scan_timeouts_and_offline.
ReplyDue   == waiting /\ sent_age > ReplyTimeout
OfflineDue == online /\ reply_age > OfflineTimeout

AcuInit ==
    /\ address \in Addresses
    /\ next_seq = 0 /\ waiting = FALSE
    /\ pending_seq = 0 /\ pending_code = "NONE"
    /\ sent_age = 0 /\ in_scan = FALSE /\ online = FALSE /\ reply_age = 0
    /\ scbk \in ScbkInit
    /\ scbk_d \in ScbkDInit
    /\ sc_phase = "IDLE" /\ sc_key_selector = 0
    /\ sc_rnd_a = NoNonce /\ sc_rnd_b = NoNonce
    /\ sc_session = SessionInit
    /\ nonces = 0 /\ log = <<>> /\ gave_up = FALSE /\ registers = 0
    /\ tx = NoFrame /\ timed_out = FALSE
    /\ app_secure = FALSE /\ delivered = NoDelivery

-----------------------------------------------------------------------------
(* Helpers shared by the handlers                                          *)

\* The tail of send_sc_cmd and osdp_acu_send_command once the write succeeded.
Transmitted(f) ==
    /\ toPd' = Append(toPd, f)
    /\ waiting' = TRUE
    /\ pending_seq' = f.sqn
    /\ pending_code' = f.code
    /\ sent_age' = 0
    /\ tx' = f
    /\ timed_out' = FALSE

MutResetScHandshake ==
    /\ sc_phase' = "IDLE"
    /\ sc_rnd_a' = NoNonce
    /\ sc_rnd_b' = NoNonce
    /\ app_secure' = FALSE
    /\ UNCHANGED <<sc_key_selector, sc_session>>

\* reset_sc_handshake with clear_session, and the event that reports it.
ResetScHandshake ==
    /\ sc_phase' = "IDLE"
    /\ sc_rnd_a' = NoNonce
    /\ sc_rnd_b' = NoNonce
    /\ sc_session' = SessionInit
    /\ app_secure' = FALSE
    /\ UNCHANGED sc_key_selector

\* osdp_acu_internal_terminate_sc
TerminateSc ==
    /\ waiting' = FALSE
    /\ next_seq' = 0
    /\ ResetScHandshake
    /\ timed_out' = FALSE
    /\ UNCHANGED <<pending_seq, pending_code>>

\* osdp_acu_internal_deliver_reply
DeliverReply(f) ==
    /\ online' = TRUE
    /\ reply_age' = 0
    /\ waiting' = FALSE
    /\ next_seq' = AdvanceSqn(pending_seq)
    /\ timed_out' = FALSE
    /\ delivered' = [id |-> f.id, cmd |-> tx.id,
                     secure |-> sc_phase = "ESTABLISHED", code |-> f.code]
    /\ UNCHANGED <<pending_seq, pending_code>>

-----------------------------------------------------------------------------
(* The application's calls                                                 *)

\* The application's retry policy: unless it GivesUp, a command that timed
\* out is repeated before anything else is sent.
MayMoveOn(code, data) ==
    GivesUp \/ ~timed_out \/ (tx.code = code /\ tx.data = data)

MutMayTransmit == Len(toPd) < MaxWire

\* One outstanding command per PD.  The line bound is the model's.
MayTransmit == ~waiting /\ Len(toPd) < MaxWire

\* osdp_acu_send_command.  wr is the outcome of transport.write: after a
\* short write the MAC chain has advanced and nothing else has.
SendCommand(c, wr) ==
    LET secure == sc_phase = "ESTABLISHED"
        plain  == Frame(address, next_seq, IF secure THEN "SCS_CMD" ELSE "NONE",
                        0, c.code, c.data, 0)
        f      == IF secure THEN Wrap(sc_session, plain) ELSE plain
        retry  == timed_out /\ f = Bytes(tx)
    IN  /\ MayTransmit
        /\ MayMoveOn(c.code, c.data)
        /\ retry \/ ids < MaxIds
        /\ IF wr
           THEN /\ Transmitted([f EXCEPT !.id = IF retry THEN tx.id ELSE ids + 1])
                /\ log' = IF retry THEN log ELSE Append(log, f.mac)
                /\ gave_up' = (gave_up \/ (timed_out /\ tx.scs = "SCS_11"))
           ELSE UNCHANGED <<toPd, waiting, pending_seq, pending_code, sent_age,
                            tx, timed_out, log, gave_up>>
        /\ sc_session' = IF secure THEN AfterWrap(sc_session, plain)
                                   ELSE sc_session
        /\ UNCHANGED <<next_seq, sc_phase, sc_key_selector, sc_rnd_a, sc_rnd_b,
                       app_secure, in_scan, onlineVars, cfgVars, nonces, delivered,
                       toAcu>>

\* osdp_acu_internal_sc_configured, for a bound crypto vtable
HandshakeKey(sel) == IF sel = 1 THEN scbk ELSE scbk_d

MutPhaseAfterChlng(wr) == IF wr THEN "AWAITING_CCRYPT" ELSE sc_phase

\* The phase is reset before the challenge is written, and set after it.
PhaseAfterChlng(wr) == IF wr THEN "AWAITING_CCRYPT" ELSE "IDLE"

\* osdp_acu_start_sc_handshake and osdp_acu_internal_send_chlng
StartScHandshake(sel, wr) ==
    LET f == Frame(address, next_seq, "SCS_11", sel, "CHLNG", <<nonces + 1>>, 0)
    IN  /\ MayTransmit
        /\ HandshakeKey(sel) # NoKey
        /\ GivesUp \/ ~timed_out \/ tx.scs \in {"SCS_11", "SCS_13"}
        /\ nonces < MaxNonces
        /\ nonces' = nonces + 1
        /\ gave_up' = FALSE
        /\ sc_session' = SessionInit
        /\ sc_rnd_a' = nonces + 1
        /\ sc_key_selector' = sel
        /\ app_secure' = FALSE      \* the application's own request
        /\ sc_phase' = PhaseAfterChlng(wr)
        /\ IF wr
           THEN Transmitted(f)
           ELSE UNCHANGED <<toPd, waiting, pending_seq, pending_code, sent_age,
                            tx, timed_out>>
        /\ UNCHANGED <<next_seq, sc_rnd_b, in_scan, onlineVars, cfgVars, log,
                       delivered, toAcu>>

\* osdp_acu_register_pd: the whole slot is cleared, the keys with it.
RegisterPd(a) ==
    /\ registers < MaxRegisters
    /\ registers' = registers + 1
    /\ address' = a
    /\ next_seq' = 0 /\ waiting' = FALSE
    /\ pending_seq' = 0 /\ pending_code' = "NONE"
    /\ sent_age' = 0 /\ in_scan' = FALSE /\ online' = FALSE /\ reply_age' = 0
    /\ scbk' = NoKey /\ scbk_d' = NoKey
    /\ sc_phase' = "IDLE" /\ sc_key_selector' = 0
    /\ sc_rnd_a' = NoNonce /\ sc_rnd_b' = NoNonce
    /\ sc_session' = SessionInit
    /\ timed_out' = FALSE /\ app_secure' = FALSE
    /\ UNCHANGED <<countVars, tx, delivered, wireVars>>

\* osdp_acu_set_pd_scbk
SetPdScbk(k) ==
    /\ scbk' = k
    /\ UNCHANGED <<seqVars, sent_age, in_scan, onlineVars, scVars, address, scbk_d,
                   registers, countVars, tx, timed_out, delivered, wireVars>>

\* osdp_acu_set_pd_scbk_d
SetPdScbkD ==
    /\ scbk_d' = DefaultKey
    /\ UNCHANGED <<seqVars, sent_age, in_scan, onlineVars, scVars, address, scbk,
                   registers, countVars, tx, timed_out, delivered, wireVars>>

-----------------------------------------------------------------------------
(* Timeouts: scan_timeouts_and_offline                                     *)

MutReplyTimesOut ==
    /\ ReplyDue
    /\ waiting' = FALSE
    /\ next_seq' = AdvanceSqn(pending_seq)
    /\ timed_out' = TRUE
    /\ in_scan' = OfflineDue
    /\ UNCHANGED <<pending_seq, pending_code, sent_age, onlineVars, scVars,
                   cfgVars, countVars, tx, delivered, wireVars>>

\* The reply deadline passed.  The handshake phase is left as it is, and the
\* sequence number is kept for the application's retry.  timeout_cb is called
\* here, before the offline check of the same scan.
ReplyTimesOut ==
    /\ ReplyDue
    /\ waiting' = FALSE
    /\ next_seq' = pending_seq
    /\ timed_out' = TRUE
    /\ in_scan' = OfflineDue
    /\ UNCHANGED <<pending_seq, pending_code, sent_age, onlineVars, scVars,
                   cfgVars, countVars, tx, delivered, wireVars>>

MutGoOffline ==
    /\ OfflineDue
    /\ in_scan \/ ~ReplyDue
    /\ in_scan' = FALSE
    /\ online' = FALSE
    /\ UNCHANGED <<seqVars, scVars, timed_out, sent_age, reply_age, cfgVars,
                   countVars, tx, delivered, wireVars>>

\* The PD was silent for too long; a session or a handshake ends with it.
GoOffline ==
    /\ OfflineDue
    /\ in_scan \/ ~ReplyDue
    /\ in_scan' = FALSE
    /\ online' = FALSE
    /\ IF sc_phase # "IDLE"
       THEN TerminateSc
       ELSE UNCHANGED <<seqVars, scVars, timed_out>>
    /\ UNCHANGED <<sent_age, reply_age, cfgVars, countVars, tx, delivered,
                   wireVars>>

-----------------------------------------------------------------------------
(* Replies                                                                 *)

\* A handshake step failed: HANDSHAKE_FAILED, the sequence number is kept.
HandshakeFails ==
    /\ waiting' = FALSE
    /\ timed_out' = FALSE
    /\ ResetScHandshake
    /\ UNCHANGED <<next_seq, pending_seq, pending_code, toPd, sent_age,
                   onlineVars, tx, delivered>>

\* Nothing but the frame is consumed.
Ignored ==
    UNCHANGED <<toPd, seqVars, sent_age, onlineVars, scVars, tx, timed_out,
                delivered>>

\* osdp_acu_internal_handle_ccrypt.  data = <<RND.B, client cryptogram>>.
\* waiting is not consulted: a late CCRYPT is accepted.
HandleCcrypt(f, wr) ==
    LET keys   == DeriveSessionKeys(HandshakeKey(sc_key_selector), sc_rnd_a)
        rndB   == f.data[1]
        scrypt == Frame(address, AdvanceSqn(pending_seq), "SCS_13",
                        sc_key_selector, "SCRYPT",
                        ServerCryptogram(keys, sc_rnd_a, rndB), 0)
    IN  IF f.sqn # pending_seq
        THEN Ignored
        ELSE IF \/ f.scb # sc_key_selector
                \/ f.data[2] # ClientCryptogram(keys, sc_rnd_a, rndB)
        THEN HandshakeFails
        ELSE /\ next_seq' = AdvanceSqn(pending_seq)
             /\ IF wr
                THEN /\ Transmitted(scrypt)
                     /\ sc_phase' = "AWAITING_RMAC_I"
                     /\ sc_rnd_b' = rndB
                     /\ sc_session' = [sc_session EXCEPT !.keys = keys]
                     /\ UNCHANGED <<sc_rnd_a, sc_key_selector, app_secure>>
                ELSE /\ waiting' = FALSE
                     /\ timed_out' = FALSE
                     /\ ResetScHandshake
                     /\ UNCHANGED <<pending_seq, pending_code, toPd, sent_age,
                                    tx>>
             /\ UNCHANGED <<onlineVars, delivered>>

\* osdp_acu_internal_handle_rmac_i.  scb is the PD's status byte.
HandleRmacI(f) ==
    LET keys == sc_session.keys
        rmac == InitialRmac(keys, ServerCryptogram(keys, sc_rnd_a, sc_rnd_b))
    IN  IF f.sqn # pending_seq
        THEN Ignored
        ELSE IF f.scb # 1 \/ f.data # rmac
        THEN HandshakeFails
        ELSE /\ sc_session' = SessionSeeded(keys, rmac)
             /\ next_seq' = AdvanceSqn(pending_seq)
             /\ waiting' = FALSE
             /\ timed_out' = FALSE
             /\ online' = TRUE
             /\ reply_age' = 0
             /\ sc_phase' = "ESTABLISHED"
             /\ app_secure' = TRUE
             /\ UNCHANGED <<toPd, pending_seq, pending_code, sent_age, tx,
                            sc_key_selector, sc_rnd_a, sc_rnd_b, delivered>>

\* A session ends on what a reply says.
SessionEnds ==
    /\ TerminateSc
    /\ UNCHANGED <<toPd, sent_age, onlineVars, tx, delivered>>

\* osdp_acu_internal_handle_sc_reply
HandleScReply(f) ==
    IF f.sqn = 0
    THEN SessionEnds
    ELSE IF ~waiting \/ f.sqn # pending_seq
    THEN Ignored
    ELSE IF ~UnwrapOk(sc_session, f)
    THEN SessionEnds
    ELSE /\ DeliverReply(f)
         /\ sc_session' = AfterUnwrap(sc_session, f)
         /\ UNCHANGED <<toPd, sent_age, sc_phase, sc_key_selector, sc_rnd_a,
                        sc_rnd_b, app_secure, tx>>

MutProcessReply(f) ==
    IF sc_phase = "ESTABLISHED" /\ (f.sqn = 0 \/ f.code # "BUSY")
    THEN SessionEnds
    ELSE IF ~waiting
    THEN Ignored
    ELSE DeliverReply(f) /\ UNCHANGED <<toPd, sent_age, scVars, tx>>

\* process_reply: a reply without a security block
ProcessReply(f) ==
    IF sc_phase = "ESTABLISHED" /\ (f.sqn = 0 \/ f.code # "BUSY")
    THEN SessionEnds
    ELSE IF ~waiting \/ f.sqn # pending_seq
    THEN Ignored
    ELSE DeliverReply(f) /\ UNCHANGED <<toPd, sent_age, scVars, tx>>

\* osdp_acu_tick, for one decoded frame: the routing by security block type
\* and handshake phase.
AcuReceive(wr) ==
    /\ toAcu # <<>>
    /\ ~ReplyDue
    /\ ~OfflineDue
    /\ toAcu' = Tail(toAcu)
    /\ LET f == Head(toAcu)
       IN  IF f.bad \/ f.addr # address
           THEN Ignored
           ELSE CASE f.scs = "NONE" -> ProcessReply(f)
                  [] f.scs = "SCS_12" /\ sc_phase = "AWAITING_CCRYPT" ->
                        HandleCcrypt(f, wr)
                  [] f.scs = "SCS_14" /\ sc_phase = "AWAITING_RMAC_I" ->
                        HandleRmacI(f)
                  [] f.scs = "SCS_REPLY" /\ sc_phase = "ESTABLISHED" ->
                        HandleScReply(f)
                  [] OTHER -> Ignored
    /\ UNCHANGED <<in_scan, cfgVars, countVars>>

AcuNext ==
    \/ \E c \in Cmds, wr \in WriteOutcomes : SendCommand(c, wr)
    \/ \E sel \in Selectors, wr \in WriteOutcomes : StartScHandshake(sel, wr)
    \/ \E a \in Addresses : RegisterPd(a)
    \/ \E k \in Keys : SetPdScbk(k)
    \/ SetPdScbkD
    \/ ReplyTimesOut
    \/ GoOffline
    \/ \E wr \in WriteOutcomes : AcuReceive(wr)
=============================================================================
