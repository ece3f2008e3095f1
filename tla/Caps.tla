-------------------------------- MODULE Caps --------------------------------
(***************************************************************************)
(* What a PD tells its controller about itself and what it can keep: the   *)
(* capability report (src/pd/src/pd_pdcap.c), the working buffers the      *)
(* application binds and the sizes computed from them (src/pd/src/pd.c),   *)
(* and the commands answered from that state (src/pd/src/pd_dispatch.c).   *)
(*                                                                         *)
(* Sizes are real numbers of bytes.  The line is reliable here: loss and   *)
(* sequence numbers are the business of Link and Transfer.  A command is   *)
(* [code, payload, extra, secure, turn]: the bytes that are decoded, the   *)
(* number of the others, the channel, and what tells a new command from a  *)
(* repeat.  A reply is [of, code, payload, extra, size, made].             *)
(***************************************************************************)
EXTENDS Codec, FiniteSets

CONSTANTS
    BufferCalls,    \* bindings the application may ask for: region -> capacity
    RecordCalls,    \* record lists it may hand to osdp_pd_set_pdcap
    Receivers,      \* capacities of multi-part buffers; 0 detaches
    ItemCounts,     \* numbers of points a status provider claims
    Requests,       \* commands the controller sends: <<code, payload, extra>>
    MaxCalls,       \* bound: configuration calls
    MaxCommands     \* bound: commands and repeats

\* A capacity is a size_t, a capability record three bytes and a payload a
\* sequence of them; osdp_POLL carries nothing.
ASSUME CapsAssumption ==
    /\ \A bufs \in BufferCalls : \A r \in DOMAIN bufs : bufs[r] \in Nat
    /\ Receivers \subseteq Nat
    /\ \A rs \in RecordCalls : rs \in Seq([1..3 -> 0..255])
    /\ \A r \in Requests : r[2] \in Seq(0..255) /\ r[3] \in Nat
    /\ \A r \in Requests : r[1] = "POLL" => r[2] = <<>> /\ r[3] = 0

VARIABLES
    buf,            \* capacity of tx, rx_plain, rpl_cache and cmd_cache
    cache,          \* what the retransmit caches hold: [cmd, reply]
    records,        \* pdcap_records
    receiver,       \* mfg_reasm.cap; 0 when no buffer is bound
    key,            \* "none", "default" (SCBK-D) or "keyed" (SCBK)
    session,        \* sc.session.established
    acuRx,          \* acu_rx_size
    provider,       \* points the status provider claims; NoProvider
    keepactive,     \* keepactive_cb is bound
    sized,          \* the fragment the application has cut, and for which link
    sent,           \* the last command, or Nothing
    answer,         \* the reply the controller got to it, or Nothing
    told,           \* the last capability report the controller decoded
    calls, commands

pdVars  == <<buf, cache, records, receiver, key, session, acuRx, provider, keepactive>>
acuVars == <<sent, answer, told>>
vars    == <<pdVars, acuVars, sized, calls, commands>>

Nothing    == [none |-> TRUE]
NoProvider == 0
Regions    == {"tx", "rx_plain", "rpl_cache", "cmd_cache"}

\* Build-time constants and wire limits.
BufLen       == 512     \* OSDP_PD_BUF_LEN
BufMinLen    == 8       \* OSDP_PD_BUF_MIN_LEN
ScratchLen   == 64      \* OSDP_PD_REPLY_SCRATCH_LEN
MaxRecords   == 13      \* OSDP_PD_MAX_PDCAP_RECORDS
FrameMaxLen  == 1440    \* OSDP_FRAME_MAX_LEN, OSDP_STREAM_BUFFER_LEN
MpHeader     == 6       \* OSDP_MP_HEADER_BYTES
DefaultAcuRx == 128     \* OSDP_PD_DEFAULT_ACU_RX_SIZE

-----------------------------------------------------------------------------
(* Sizes of frames.                                                        *)

Least(a, b) == IF a < b THEN a ELSE b

\* frame_overhead: header, security block, code, MAC and CRC; a built frame
\* also has the marking byte in front.
FrameOverhead(secure) == 5 + (IF secure THEN 2 + 4 ELSE 0) + 1 + 2
Mark == 1

\* osdp_sc_wrap_frame: an empty payload is sent under a MAC only, any other
\* is padded and encrypted.
FrameLen(secure, n) ==
    FrameOverhead(secure) + (IF secure /\ n > 0 THEN Padded(n) ELSE n)

\* osdp_frame_max_payload
FrameMaxPayload(secure, cap) ==
    IF cap <= Mark + FrameOverhead(secure) THEN 0
    ELSE Least(cap - Mark, FrameMaxLen) - FrameOverhead(secure)

\* osdp_sc_max_payload, for SCS_17 and SCS_18.
ScMaxPayload(cap) ==
    LET blocks == FrameMaxPayload(TRUE, cap) \div AesBlock
    IN  IF blocks = 0 THEN 0 ELSE blocks * AesBlock - 1

\* max_payload_for_cap
MaxPayloadForCap(secure, cap) ==
    IF secure THEN ScMaxPayload(cap) ELSE FrameMaxPayload(FALSE, cap)

\* Takes the smaller of the two payloads' capacity but not the header.
MutMaxFragmentPayload(secure, tx, acu) == MaxPayloadForCap(secure, Least(tx, acu))

\* osdp_pd_max_fragment_payload
MaxFragmentPayload(secure, tx, acu) ==
    LET max == MaxPayloadForCap(secure, Least(tx, acu))
    IN  IF max <= MpHeader THEN 0 ELSE max - MpHeader

\* osdp_sc_unwrap_frame: in a session the payload, still padded, has to
\* fit rx_plain.
Unwraps(secure, n) == secure /\ n > 0 => Padded(n) <= buf.rx_plain

-----------------------------------------------------------------------------
(* Capability records <<function_code, compliance_level, num_objects>>.    *)

\* record_size_value
RecordSize(r) == r[2] + 256 * r[3]

UpTo(max)  == 0..max
AnyValue   == 0..255

\* k_pdcap_catalog: the values Annex B defines.
Catalog ==
    << [c |-> UpTo(4), n |-> AnyValue], [c |-> UpTo(4), n |-> AnyValue],
       [c |-> UpTo(3), n |-> UpTo(0)],  [c |-> UpTo(6), n |-> AnyValue],
       [c |-> UpTo(2), n |-> AnyValue], [c |-> UpTo(3), n |-> AnyValue],
       [c |-> UpTo(0), n |-> UpTo(0)],  [c |-> UpTo(1), n |-> UpTo(0)],
       [c |-> UpTo(1), n |-> UpTo(1)],  [c |-> AnyValue, n |-> AnyValue],
       [c |-> AnyValue, n |-> AnyValue], [c |-> UpTo(3), n |-> UpTo(0)],
       [c |-> UpTo(0), n |-> AnyValue], [c |-> UpTo(3), n |-> UpTo(0)],
       [c |-> UpTo(1), n |-> UpTo(0)],  [c |-> UpTo(4) \cup 128..255, n |-> UpTo(0)] >>

\* osdp_pdcap_validate_record
ValidRecord(r) ==
    /\ r[1] \in DOMAIN Catalog
    /\ r[2] \in Catalog[r[1]].c
    /\ r[3] \in Catalog[r[1]].n

\* Forgets the receive buffer size.
MutReserved == {8, 9}

\* is_reserved_pdcap_fn
Reserved == {8, 9, 10}

\* osdp_pd_check_pdcap on one record: this PD can honour it.
RecordHonest(r) ==
    /\ r[1] = 9 => r[2] % 2 = 0 \/ key # "none"
    /\ r[1] = 10 => /\ RecordSize(r) <= FrameMaxLen
                    /\ key = "none" \/ ScMaxPayload(RecordSize(r)) <= buf.rx_plain
    /\ r[1] = 11 => \/ RecordSize(r) = 0
                    \/ receiver # 0 /\ RecordSize(r) <= receiver

\* Advertises the bound buffer, which no frame may fill.
MutFillReserved ==
    << <<8, 1, 0>>, <<9, 1, IF key = "keyed" THEN 0 ELSE 1>>,
       <<10, buf.rx_plain % 256, buf.rx_plain \div 256>> >>

\* osdp_pd_internal_fill_reserved_pdcap
FillReserved ==
    LET rx == Least(buf.rx_plain, FrameMaxLen)
    IN  << <<8, 1, 0>>, <<9, 1, IF key = "keyed" THEN 0 ELSE 1>>,
           <<10, rx % 256, rx \div 256>> >>

\* osdp_pd_internal_sort_pdcap: insert each record behind the last one it does
\* not come before.
InsertRecord(sorted, r) ==
    InsertAt(sorted, 1 + Max({0} \cup {j \in DOMAIN sorted : sorted[j][1] <= r[1]}), r)
SortPdcap(rs) ==
    LET sorted[i \in 0..Len(rs)] ==
            IF i = 0 THEN <<>> ELSE InsertRecord(sorted[i-1], rs[i])
    IN  sorted[Len(rs)]

\* osdp_pd_get_pdcap and the report handle_pdcap builds.
Report == SortPdcap(FillReserved \o records)

-----------------------------------------------------------------------------
(* Calls of the application.                                               *)

CapsInit ==
    /\ buf = [r \in Regions |-> BufLen]
    /\ cache = [cmd |-> Nothing, reply |-> Nothing]
    /\ records = <<>> /\ receiver = 0
    /\ key = "none" /\ session = FALSE
    /\ acuRx = DefaultAcuRx
    /\ provider = NoProvider /\ keepactive = FALSE
    /\ sized = Nothing
    /\ sent = Nothing /\ answer = Nothing /\ told = Nothing
    /\ calls = 0 /\ commands = 0

Call == calls < MaxCalls /\ calls' = calls + 1 /\ UNCHANGED <<commands, acuVars>>

\* What the caches still hold once some of the regions are rebound: the
\* whole entry goes with either cache.
MutCacheAfter(bufs) == cache
CacheAfter(bufs) ==
    IF DOMAIN bufs \cap {"rpl_cache", "cmd_cache"} # {}
    THEN [cmd |-> Nothing, reply |-> Nothing] ELSE cache

\* The bytes in storage that was never written as a reply.
Garbage == [of |-> Nothing, code |-> "garbage"]

\* Rebinding the reply cache without forgetting its entry would leave the
\* length of the old reply over the bytes of the new storage.
Rebound(c, bufs) ==
    IF "rpl_cache" \in DOMAIN bufs /\ c.reply # Nothing THEN [c EXCEPT !.reply = Garbage] ELSE c

\* osdp_pd_set_buffers: all regions or none.
SetBuffers(bufs) ==
    /\ Call
    /\ \A r \in DOMAIN bufs : bufs[r] >= BufMinLen
    /\ buf' = [r \in Regions |-> IF r \in DOMAIN bufs THEN bufs[r] ELSE buf[r]]
    /\ cache' = Rebound(CacheAfter(bufs), bufs)
    /\ UNCHANGED <<records, receiver, key, session, acuRx, provider, keepactive,
                   sized>>

\* osdp_pd_set_pdcap
SetPdcap(rs) ==
    /\ Call
    /\ Len(rs) <= MaxRecords
    /\ \A i \in DOMAIN rs : rs[i][1] \notin Reserved /\ ValidRecord(rs[i])
    /\ \A i \in DOMAIN rs : RecordHonest(rs[i])
    /\ records' = rs
    /\ UNCHANGED <<buf, cache, receiver, key, session, acuRx, provider, keepactive, sized>>

\* osdp_pd_set_mfg_receiver
SetMfgReceiver(cap) ==
    /\ Call
    /\ receiver' = cap
    /\ UNCHANGED <<buf, cache, records, key, session, acuRx, provider, keepactive,
                   sized>>

\* osdp_pd_set_sc_scbk_d, osdp_pd_set_sc_scbk (crypto and cUID with them).
SetKey ==
    /\ Call
    /\ key' \in IF key = "none" THEN {"default", "keyed"} ELSE {"keyed"} \ {key}
    /\ UNCHANGED <<buf, cache, records, receiver, session, acuRx, provider, keepactive,
                   sized>>

\* osdp_pd_set_status_provider, osdp_pd_set_keepactive_handler
SetStatusProvider(n) ==
    /\ Call
    /\ provider' = n
    /\ UNCHANGED <<buf, cache, records, receiver, key, session, acuRx, keepactive,
                   sized>>

SetKeepactiveHandler ==
    /\ Call
    /\ keepactive' = ~keepactive
    /\ UNCHANGED <<buf, cache, records, receiver, key, session, acuRx, provider,
                   sized>>

\* The application asks how much of a long message it may send at once and
\* keeps the piece for the next poll.
CutFragment ==
    /\ Call
    /\ sized' = [n |-> MaxFragmentPayload(session, buf.tx, acuRx),
                 for |-> <<session, buf.tx, acuRx>>]
    /\ sized'.n > 0
    /\ UNCHANGED pdVars

\* The handshake and its end, which Link models.
SessionChanges ==
    /\ Call
    /\ key # "none"
    /\ session' = ~session
    /\ UNCHANGED <<buf, cache, records, receiver, key, acuRx, provider, keepactive,
                   sized>>

-----------------------------------------------------------------------------
(* Commands.  A handler gives the reply [code, payload].                   *)

ReplyWith(code, payload) == [code |-> code, payload |-> payload, extra |-> 0]
AckReply == ReplyWith("ACK", <<>>)
NakReply(reason) == ReplyWith("NAK", <<reason>>)
NakCmdLength == NakReply(2)
NakUnknownCmd == NakReply(3)
NakEncryptionRequired == NakReply(6)
NakRecordInvalid == NakReply(9)

\* A library-built payload, or NAK 0x09 when the scratch cannot hold it.
FromScratch(code, message) ==
    LET payload == Build(ReplyLayout[code], message, ScratchLen)
    IN  IF payload = Refused THEN NakRecordInvalid ELSE ReplyWith(code, payload)

\* handle_status_request: the count a provider claims is clamped.
StatusReply ==
    [LSTAT |-> "LSTATR", ISTAT |-> "ISTATR", OSTAT |-> "OSTATR", RSTAT |-> "RSTATR"]
HandleStatusRequest(code) ==
    FromScratch(StatusReply[code],
        IF code = "LSTAT" THEN [records |-> << <<0, 0>> >>, tail |-> <<>>]
        ELSE [records |-> [i \in 1..Least(provider, ScratchLen) |-> <<1>>],
              tail |-> <<>>])

\* handle_acurxsize and handle_keepactive; the keepactive hook may decline.
HandleAcurxsize(payload) ==
    IF Decode(Acurxsize, payload, 0) = Refused THEN NakCmdLength ELSE AckReply
HandleKeepactive(payload, accepts) ==
    IF ~keepactive THEN NakUnknownCmd
    ELSE IF Decode(Keepactive, payload, 0) = Refused THEN NakCmdLength
    ELSE IF accepts THEN AckReply ELSE NakUnknownCmd

\* handle_pdcap
HandlePdcap == FromScratch("PDCAP", [records |-> Report, tail |-> <<>>])

\* osdp_pd_internal_dispatch.  What no handler takes goes to the
\* application: the fragment it holds on a poll, else NOT_SUPPORTED, or ACK.
Dispatch(code, payload, accepts) ==
    CASE code = "ACURXSIZE"  -> HandleAcurxsize(payload)
      [] code = "KEEPACTIVE" -> HandleKeepactive(payload, accepts)
      [] code \in DOMAIN StatusReply /\ provider # NoProvider -> HandleStatusRequest(code)
      [] code = "CAP" /\ records # <<>> -> HandlePdcap
      [] code = "POLL" /\ sized # Nothing ->
            [ReplyWith("MFGREP", <<>>) EXCEPT !.extra = MpHeader + sized.n]
      [] OTHER -> IF accepts THEN AckReply ELSE NakUnknownCmd

\* clear_command_allowed_pre_sc
ClearAllowed == {"ID", "CAP", "COMSET"}

\* The bytes of a command or of a reply.
Size(m) == Len(m.payload) + m.extra

\* osdp_frame_build into tx; a reply that does not fit is not sent.  made is
\* history: the rx_plain of the time, which a report speaks of.
Framed(cmd, secure, reply) ==
    LET size == Mark + FrameLen(secure, Size(reply))
    IN  IF size > buf.tx \/ size - Mark > FrameMaxLen THEN Nothing
        ELSE [of |-> cmd, code |-> reply.code, payload |-> reply.payload,
              extra |-> reply.extra, size |-> size, made |-> buf.rx_plain]

\* The command reaches dispatch: it was unwrapped, or the PD runs it in the
\* clear.
Dispatched(cmd) ==
    IF cmd.secure THEN Unwraps(TRUE, Size(cmd)) ELSE key # "keyed" \/ cmd.code \in ClearAllowed

\* handle_command_into_tx: the frame built for a command, if any.
Handle(cmd, accepts) ==
    IF Dispatched(cmd) THEN Framed(cmd, cmd.secure, Dispatch(cmd.code, cmd.payload, accepts))
    ELSE IF cmd.secure THEN Nothing ELSE Framed(cmd, FALSE, NakEncryptionRequired)

\* cache_reply: each part only if it fits its cache.
CacheReply(cmd, reply) ==
    [cmd   |-> IF FrameLen(cmd.secure, Size(cmd)) <= buf.cmd_cache THEN cmd ELSE Nothing,
     reply |-> IF reply # Nothing /\ reply.size <= buf.rpl_cache THEN reply ELSE Nothing]

\* What the controller takes from a reply: a report it can decode.
Hears(reply) ==
    /\ answer' = reply
    /\ told' = IF reply # Nothing /\ reply.code = "PDCAP"
               THEN [report |-> Decode(Pdcap, reply.payload, MaxRecords + 3).records,
                     made |-> reply.made]
               ELSE told

\* process_frame for a command that is not in the cache.
Execute(cmd, accepts) ==
    LET reply == Handle(cmd, accepts)
        size  == Decode(Acurxsize, cmd.payload, 0)
    IN  /\ cache' = CacheReply(cmd, reply)
        /\ acuRx' = IF cmd.code = "ACURXSIZE" /\ Dispatched(cmd) /\ size # Refused
                    THEN size.records[1][1] ELSE acuRx
        /\ sized' = IF cmd.code = "POLL" /\ Dispatched(cmd) THEN Nothing ELSE sized
        /\ Hears(reply)

Command ==
    /\ commands < MaxCommands
    /\ commands' = commands + 1
    /\ UNCHANGED <<calls, buf, records, receiver, key, session, provider, keepactive>>

\* The controller sends a new command.  The stream decoder discards a frame
\* longer than it can hold, and the PD never sees it.
Send(code, payload, extra, accepts) ==
    LET cmd == [code |-> code, payload |-> payload, extra |-> extra, secure |-> session,
                turn |-> IF sent = Nothing THEN 0 ELSE 1 - sent.turn]
    IN  /\ Command
        /\ sent' = cmd
        /\ IF FrameLen(session, Size(cmd)) <= FrameMaxLen THEN Execute(cmd, accepts)
           ELSE answer' = Nothing /\ UNCHANGED <<cache, acuRx, sized, told>>

\* The controller repeats its command: process_frame replays the reply of a
\* byte-identical command, silence included, and runs any other.  (A secure
\* repeat that misses the cache fails its MAC: see Link.)
Again(accepts) ==
    /\ Command
    /\ sent # Nothing /\ FrameLen(sent.secure, Size(sent)) <= FrameMaxLen
    /\ UNCHANGED sent
    /\ \/ /\ cache.cmd = sent
          /\ Hears(cache.reply)
          /\ UNCHANGED <<cache, acuRx, sized>>
       \/ cache.cmd # sent /\ ~sent.secure /\ ~session /\ Execute(sent, accepts)

CapsNext ==
    \/ \E bufs \in BufferCalls : SetBuffers(bufs)
    \/ \E rs \in RecordCalls : SetPdcap(rs)
    \/ \E cap \in Receivers : SetMfgReceiver(cap)
    \/ \E n \in ItemCounts : SetStatusProvider(n)
    \/ SetKey \/ SetKeepactiveHandler \/ CutFragment \/ SessionChanges
    \/ \E r \in Requests, accepts \in BOOLEAN : Send(r[1], r[2], r[3], accepts)
    \/ \E accepts \in BOOLEAN : Again(accepts)

CapsSpec == CapsInit /\ [][CapsNext]_vars

-----------------------------------------------------------------------------
(* Properties                                                              *)

\* The receive buffer size that the report gives (function code 10).
Promised == {RecordSize(told.report[i]) : i \in {j \in DOMAIN told.report : told.report[j][1] = 10}}

\* A controller that keeps its frames within the receive buffer size of the
\* report it was given is answered, in the clear and in a session, as long
\* as rx_plain is the buffer the report spoke of: the report never promises
\* a frame that the stream decoder or the decryption would drop
\* (osdp_pd_internal_fill_reserved_pdcap against osdp_sc_decrypt_payload).
PromisedFrameReceived ==
    [][ /\ sent' # sent /\ sent'.code = "MFG"
        /\ told # Nothing /\ told.made = buf.rx_plain
        /\ \E n \in Promised : FrameLen(session, Size(sent')) <= n
        /\ buf.tx >= Mark + FrameLen(TRUE, 1)
        => answer' # Nothing]_vars

\* The report the controller decodes is in the order of Annex B and answers
\* each function code of the library exactly once, whatever lists were
\* bound before (osdp_pd_internal_sort_pdcap, is_reserved_pdcap_fn).
ReportSorted ==
    told # Nothing =>
        LET report == told.report
        IN  /\ \A i, j \in DOMAIN report : i < j => report[i][1] <= report[j][1]
            /\ \A fn \in {8, 9, 10} :
                   Cardinality({i \in DOMAIN report : report[i][1] = fn}) = 1
            /\ \A i \in DOMAIN report : ValidRecord(report[i])

\* Whatever the application rebinds between a command and its repeat, what the
\* controller hears, if it hears anything, is an answer to the command it sent
\* and never the bytes of a buffer that holds no reply (osdp_pd_set_buffers,
\* process_frame).
ReplayGenuine == answer # Nothing => answer.of = sent

\* A fragment cut with osdp_pd_max_fragment_payload is sent on the next poll
\* and fits the controller's declared buffer unless the link has changed in
\* between, and a longer one would not have fitted, the mark counted
\* (max_payload_for_cap, osdp_sc_wrap_frame, osdp_frame_build).
FragmentFits ==
    [][ /\ sent' # sent /\ sent'.code = "POLL"
        /\ sized # Nothing /\ sized.for = <<session, buf.tx, acuRx>>
        /\ session \/ key # "keyed"
        => /\ answer' # Nothing /\ answer'.size <= acuRx
           /\ LET longer == Mark + FrameLen(session, MpHeader + sized.n + 1)
              IN  longer > Least(buf.tx, acuRx) \/ longer - Mark > FrameMaxLen]_vars
=============================================================================
