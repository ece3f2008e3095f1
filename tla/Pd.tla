-------------------------------- MODULE Pd ----------------------------------
(***************************************************************************)
(* The peripheral (src/pd/src/pd.c, pd_sc.c, pd_dispatch.c): the           *)
(* retransmit cache, the secure-mode gate, the Secure Channel handlers,    *)
(* dispatch to the application and the commands the library carries out    *)
(* itself (KEYSET, COMSET), and the offline timeout.                       *)
(*                                                                         *)
(* Each action is osdp_pd_tick processing one decoded frame: the offline   *)
(* check at the start of the tick comes first, so a frame is processed     *)
(* only when that timeout is not due.                                      *)
(***************************************************************************)
EXTENDS Wire

CONSTANTS
    PdAddresses,        \* addresses the PD may be configured with
    PdOfflineTimeout,   \* OSDP_PD_OFFLINE_TIMEOUT_MS, in clock ticks
    Verdicts,           \* what the application's command handler returns
    ReplyFits,          \* the answers to: does the reply fit the reply cache?
    MaxPdRestarts       \* bound: power cycles of the PD

ASSUME PdTimeoutAssumption == PdOfflineTimeout \in Nat
ASSUME PdAddressesAssumption ==
    PdAddresses # {} /\ PdAddresses \subseteq 0..(Broadcast - 1)
ASSUME VerdictsAssumption ==
    Verdicts \subseteq {"OK", "NOT_SUPPORTED", "BAD_PAYLOAD", "INVALID_ARG",
                        "BUSY", "OTHER"}
ASSUME ReplyFitsAssumption == ReplyFits \subseteq BOOLEAN
ASSUME PdBoundsAssumption == MaxPdRestarts \in Nat

VARIABLES
    pd_address,
    pd_scbk, pd_scbk_d,         \* keys, or NoKey
    pd_session, got_chlng, pd_rnd_a, pd_rnd_b,
    cache,                      \* the last accepted command and its reply
    pd_online,
    comm_age,                   \* now - last_comm_ms, saturating
    \* history
    pd_nonces, pd_restarts,
    runs,                       \* runs[id]: how often id was carried out
    excused                     \* ids the cache does not protect: they came at
                                \* SQN 0, are a COMSET (which drops the cache),
                                \* or their entry was dropped later

pdKeyVars   == <<pd_scbk, pd_scbk_d>>
pdScVars    == <<pd_session, got_chlng, pd_rnd_a, pd_rnd_b, pd_nonces>>
pdCommVars  == <<pd_online, comm_age>>
runVars     == <<runs, excused>>
pdVars      == <<pd_address, pdKeyVars, pdScVars, cache, pdCommVars,
                 pd_restarts, runVars>>

NoReply  == [none |-> TRUE]
NoCache  == [none |-> TRUE]

MaxRuns == 2    \* bound: beyond "more than once" the count tells nothing

NakBadCheck   == 1
NakLength     == 2
NakUnknownCmd == 3
NakScb        == 5
NakEncryption == 6
NakRecord     == 9

PdOfflineDue == pd_online /\ comm_age > PdOfflineTimeout

PdInit ==
    /\ pd_address \in PdAddresses
    /\ pd_scbk \in ScbkInit
    /\ pd_scbk_d \in ScbkDInit
    /\ pd_session = SessionInit
    /\ got_chlng = FALSE /\ pd_rnd_a = 0 /\ pd_rnd_b = 0
    /\ cache = NoCache
    /\ pd_online = FALSE /\ comm_age = 0
    /\ pd_nonces = 0 /\ pd_restarts = 0
    /\ runs = [i \in 1..MaxIds |-> 0] /\ excused = {}

-----------------------------------------------------------------------------
(* Replies.  A reply mirrors the address and sequence number of the        *)
(* command; only osdp_BUSY goes out at sequence 0, and only the handshake  *)
(* replies carry the PD's own address.                                     *)

MutBuildReply(f, code, data) ==
    Frame(IF code = "COM" THEN data[1] ELSE f.addr, f.sqn, "NONE", 0, code,
          data, f.id)

BuildReply(f, code, data) ==
    Frame(f.addr, f.sqn, "NONE", 0, code, data, f.id)
BuildNak(f, err) == BuildReply(f, "NAK", <<err>>)
BuildBusy(f) == Frame(f.addr, 0, "NONE", 0, "BUSY", <<>>, f.id)
BuildHandshakeReply(f, scs, scb, code, data) ==
    Frame(pd_address, f.sqn, scs, scb, code, data, f.id)

\* send_bytes: a write that stops half-way sends no frame, but counts as
\* communication; one that sends nothing does not.
SendBytes(reply, wr) ==
    IF reply = NoReply
    THEN UNCHANGED <<toAcu, pdCommVars>>
    ELSE /\ toAcu' = IF wr THEN Append(toAcu, reply) ELSE toAcu
         /\ \/ pd_online' = TRUE /\ comm_age' = 0
            \/ ~wr /\ UNCHANGED pdCommVars

\* cache_reply: a reply that was not built, or does not fit, leaves a cached
\* command with no answer.
CacheReply(f, reply, fits) ==
    cache' = [cmd |-> f, reply |-> IF fits THEN reply ELSE NoReply]

MutIsRetransmit(f) ==
    /\ f.sqn # 0
    /\ cache # NoCache
    /\ cache.reply # NoReply
    /\ Bytes(cache.cmd) = Bytes(f)

\* is_retransmit: byte-identical to the last accepted command, SQN 0 never.
IsRetransmit(f) ==
    /\ f.sqn # 0
    /\ cache # NoCache
    /\ Bytes(cache.cmd) = Bytes(f)

-----------------------------------------------------------------------------
(* Dispatch: osdp_pd_internal_dispatch                                     *)

\* apply_app_status
Outcome(v) ==
    CASE v = "OK"            -> [kind |-> "SEND", code |-> "ACK", data |-> <<>>]
      [] v = "NOT_SUPPORTED" -> [kind |-> "SEND", code |-> "NAK",
                                 data |-> <<NakUnknownCmd>>]
      [] v = "BAD_PAYLOAD"   -> [kind |-> "SEND", code |-> "NAK",
                                 data |-> <<NakLength>>]
      [] v = "INVALID_ARG"   -> [kind |-> "SEND", code |-> "NAK",
                                 data |-> <<NakRecord>>]
      [] v = "BUSY"          -> [kind |-> "BUSY", code |-> "BUSY", data |-> <<>>]
      [] v = "OTHER"         -> [kind |-> "DROP", code |-> "NONE", data |-> <<>>]

\* osdp_pd_internal_apply_keyset accepts one SCBK of the right length.
UsableKey(f) == f.data # <<>> /\ f.data[1] \in Keys

\* handle_comset with the application's decision eff; apply_app_status and
\* the KEYSET hook for the rest.
Dispatch(f, v, eff) ==
    IF f.code = "COMSET"
    THEN [kind |-> "SEND", code |-> "COM", data |-> <<eff>>]
    ELSE IF f.code = "KEYSET" /\ Outcome(v).kind = "SEND" /\ ~UsableKey(f)
    THEN [kind |-> "SEND", code |-> "NAK", data |-> <<NakRecord>>]
    ELSE Outcome(v)

\* The rotation happens for every outcome that sends a reply, NAKs included.
KeyAfter(f, v) ==
    IF f.code = "KEYSET" /\ Outcome(v).kind = "SEND" /\ UsableKey(f)
    THEN f.data[1]
    ELSE pd_scbk

\* osdp_pd_internal_comset_effective: the application may override the
\* requested address; one that cannot be assigned keeps the current one.
EffectiveAddresses(f) ==
    IF f.code = "COMSET"
    THEN {IF a \in 0..(Broadcast - 1) THEN a ELSE pd_address :
            a \in PdAddresses \cup {f.data[1]}}
    ELSE {pd_address}

\* The handler ran for command f.
RecordRun(f, v) ==
    /\ runs' = IF v # "BUSY" /\ runs[f.id] < MaxRuns
               THEN [runs EXCEPT ![f.id] = @ + 1] ELSE runs
    /\ excused' = IF f.sqn = 0 \/ f.code = "COMSET" THEN excused \cup {f.id} ELSE excused

-----------------------------------------------------------------------------
(* process_frame around a handler: cache, send, then apply a staged COMSET. *)

Answer(f, reply, fits, wr) ==
    /\ CacheReply(f, reply, fits)
    /\ SendBytes(reply, wr)
    /\ UNCHANGED pd_address

\* A handler that only answers: nothing was dispatched.
Refuse(f, reply, fits, wr) ==
    /\ Answer(f, reply, fits, wr)
    /\ UNCHANGED <<pdKeyVars, runVars>>

\* A dispatched command; reply is what the channel made of the outcome.
Dispatched(f, v, eff, reply, fits, wr) ==
    /\ RecordRun(f, v)
    /\ pd_scbk' = KeyAfter(f, v)
    /\ SendBytes(reply, wr)
    /\ IF f.code = "COMSET"
       THEN pd_address' = eff /\ cache' = NoCache
       ELSE /\ UNCHANGED pd_address
            /\ IF Dispatch(f, v, eff).kind = "BUSY"
               THEN cache' = NoCache
               ELSE CacheReply(f, reply, fits)
    /\ UNCHANGED pd_scbk_d

-----------------------------------------------------------------------------
(* Secure Channel handlers                                                 *)

ScConfigured == pd_scbk # NoKey \/ pd_scbk_d # NoKey

\* select_handshake_key
SelectHandshakeKey(sel) == IF sel = 1 THEN pd_scbk ELSE pd_scbk_d

\* handle_chlng: a challenge replaces the session keys and ends the session.
HandleChlng(f, fits, wr) ==
    LET key  == SelectHandshakeKey(f.scb)
        rndA == f.data[1]
        rndB == pd_nonces + 1
        keys == DeriveSessionKeys(key, rndA)
    IN  IF key = NoKey
        THEN Refuse(f, BuildNak(f, NakScb), fits, wr) /\ UNCHANGED pdScVars
        ELSE /\ pd_nonces' = rndB
             /\ pd_rnd_a' = rndA
             /\ pd_rnd_b' = rndB
             /\ pd_session' = [pd_session EXCEPT !.keys = keys,
                                                 !.established = FALSE]
             /\ got_chlng' = TRUE
             /\ Refuse(f, BuildHandshakeReply(f, "SCS_12", f.scb, "CCRYPT",
                            <<rndB, ClientCryptogram(keys, rndA, rndB)>>),
                       fits, wr)

\* handle_scrypt: the server cryptogram proves the ACU holds the base key.
HandleScrypt(f, fits, wr) ==
    LET keys == pd_session.keys
        rmac == InitialRmac(keys, f.data)
    IN  /\ IF ~got_chlng
           THEN /\ Refuse(f, BuildNak(f, NakScb), fits, wr)
                /\ UNCHANGED <<pd_session, got_chlng>>
           ELSE /\ got_chlng' = FALSE
                /\ IF f.data # ServerCryptogram(keys, pd_rnd_a, pd_rnd_b)
                   THEN /\ pd_session' = [pd_session EXCEPT !.established = FALSE]
                        /\ Refuse(f, BuildHandshakeReply(f, "SCS_14", 255,
                                        "RMAC_I", <<>>), fits, wr)
                   ELSE /\ pd_session' = SessionSeeded(keys, rmac)
                        /\ Refuse(f, BuildHandshakeReply(f, "SCS_14", 1,
                                        "RMAC_I", rmac), fits, wr)
        /\ UNCHANGED <<pd_rnd_a, pd_rnd_b, pd_nonces>>

\* handle_operational: a frame that does not unwrap is dropped in silence.
HandleOperational(f, v, eff, fits, wr) ==
    LET inner == AfterUnwrap(pd_session, f)
        out   == Dispatch(f, v, eff)
        plain == Frame(f.addr, f.sqn, "SCS_REPLY", 0, out.code, out.data, f.id)
    IN  /\ IF ~pd_session.established
           THEN /\ Refuse(f, BuildNak(f, NakScb), fits, wr)
                /\ UNCHANGED pd_session
           ELSE IF ~UnwrapOk(pd_session, f)
           THEN /\ Refuse(f, NoReply, fits, wr)
                /\ UNCHANGED pd_session
           ELSE CASE out.kind = "SEND" ->
                        /\ pd_session' = AfterWrap(inner, plain)
                        /\ Dispatched(f, v, eff, Wrap(inner, plain), fits, wr)
                  [] out.kind = "BUSY" ->
                        /\ pd_session' = inner
                        /\ Dispatched(f, v, eff, BuildBusy(f), fits, wr)
                  [] out.kind = "DROP" ->
                        /\ pd_session' = inner
                        /\ Dispatched(f, v, eff, NoReply, fits, wr)
        /\ UNCHANGED <<got_chlng, pd_rnd_a, pd_rnd_b, pd_nonces>>

-----------------------------------------------------------------------------
(* Commands without a security block: handle_command_into_tx               *)

\* clear_command_allowed_pre_sc
ClearAllowed(code) == code \in {"ID", "CAP", "COMSET"}

\* A clear command ends an established session: at SQN 0 it is a restart of
\* the connection, at any other number an interleaving violation.
HandleClear(f, v, eff, fits, wr) ==
    LET out      == Dispatch(f, v, eff)
        violates == pd_session.established /\ f.sqn # 0
        refused  == pd_scbk # NoKey /\ ~ClearAllowed(f.code)
    IN  /\ IF pd_session.established
           THEN pd_session' = SessionInit /\ got_chlng' = FALSE
           ELSE UNCHANGED <<pd_session, got_chlng>>
        /\ IF violates \/ refused
           THEN Refuse(f, BuildNak(f, NakEncryption), fits, wr)
           ELSE Dispatched(f, v, eff,
                           CASE out.kind = "SEND" -> BuildReply(f, out.code, out.data)
                             [] out.kind = "BUSY" -> BuildBusy(f)
                             [] out.kind = "DROP" -> NoReply,
                           fits, wr)
        /\ UNCHANGED <<pd_rnd_a, pd_rnd_b, pd_nonces>>

-----------------------------------------------------------------------------
(* osdp_pd_tick                                                            *)

Ours(f) == f.addr = pd_address \/ f.addr = Broadcast

\* The frame at the head of the line, once the offline check has passed.
PdTakes(f) ==
    /\ toPd # <<>>
    /\ ~PdOfflineDue
    /\ Len(toAcu) < MaxWire
    /\ f = Head(toPd)
    /\ toPd' = Tail(toPd)
    /\ UNCHANGED pd_restarts

\* A failing check is answered, outside the cache, with NAK 0x01.
PdBadCheck(wr) ==
    LET f == Head(toPd) IN
    /\ PdTakes(f)
    /\ f.bad
    /\ SendBytes(IF f.addr = pd_address THEN BuildNak(f, NakBadCheck)
                                        ELSE NoReply, wr)
    /\ UNCHANGED <<pd_address, pdKeyVars, pdScVars, cache, runVars>>

PdNotOurs ==
    LET f == Head(toPd) IN
    /\ PdTakes(f)
    /\ ~f.bad
    /\ ~Ours(f)
    /\ UNCHANGED <<toAcu, pd_address, pdKeyVars, pdScVars, cache, pdCommVars,
                   runVars>>

\* process_frame, for a retransmit: the cached reply is sent again.
PdRetransmit(wr) ==
    LET f == Head(toPd) IN
    /\ PdTakes(f)
    /\ ~f.bad
    /\ Ours(f)
    /\ IsRetransmit(f)
    /\ SendBytes(cache.reply, wr)
    /\ UNCHANGED <<pd_address, pdKeyVars, pdScVars, cache, runVars>>

\* process_frame, for a fresh command: handle_command_into_tx and, for a
\* configured PD, osdp_pd_internal_handle_sc_into_tx.
PdFresh(v, fits, wr) ==
    LET f == Head(toPd) IN
    /\ PdTakes(f)
    /\ ~f.bad
    /\ Ours(f)
    /\ ~IsRetransmit(f)
    /\ CASE f.scs = "NONE" ->
                \E eff \in EffectiveAddresses(f) :
                    HandleClear(f, v, eff, fits, wr)
         [] f.scs = "SCS_11" /\ ScConfigured -> HandleChlng(f, fits, wr)
         [] f.scs = "SCS_13" /\ ScConfigured -> HandleScrypt(f, fits, wr)
         [] f.scs = "SCS_CMD" /\ ScConfigured ->
                \E eff \in EffectiveAddresses(f) :
                    HandleOperational(f, v, eff, fits, wr)
         [] OTHER ->
                Refuse(f, BuildNak(f, NakScb), fits, wr) /\ UNCHANGED pdScVars

ForgetCache ==
    /\ cache' = NoCache
    /\ excused' = IF cache = NoCache THEN excused ELSE excused \cup {cache.cmd.id}

\* check_offline_timeout: the retransmit cache goes, the session stays.
PdGoOffline ==
    /\ PdOfflineDue
    /\ pd_online' = FALSE
    /\ ForgetCache
    /\ UNCHANGED <<pd_address, pdKeyVars, pdScVars, comm_age, pd_restarts,
                   runs, wireVars>>

\* A power cycle: osdp_pd_init, then the application binds the keys it has
\* stored.
PdRestart ==
    /\ pd_restarts < MaxPdRestarts
    /\ pd_restarts' = pd_restarts + 1
    /\ pd_session' = SessionInit
    /\ got_chlng' = FALSE /\ pd_rnd_a' = 0 /\ pd_rnd_b' = 0
    /\ ForgetCache
    /\ pd_online' = FALSE /\ comm_age' = 0
    /\ UNCHANGED <<pd_address, pdKeyVars, pd_nonces, runs, wireVars>>

PdNext ==
    \/ \E wr \in WriteOutcomes : PdBadCheck(wr)
    \/ PdNotOurs
    \/ \E wr \in WriteOutcomes : PdRetransmit(wr)
    \/ \E v \in Verdicts, fits \in ReplyFits, wr \in WriteOutcomes :
            PdFresh(v, fits, wr)
    \/ PdGoOffline
    \/ PdRestart
=============================================================================
