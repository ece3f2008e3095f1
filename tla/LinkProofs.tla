----------------------------- MODULE LinkProofs -----------------------------
(***************************************************************************)
(* Link, for every value of its constants: its types and what the events   *)
(* tell the application; then the Secure Channel between the slot and the  *)
(* PD: two ends that both hold a session hold the same one, and a reply    *)
(* that is delivered out of it answers the bytes it is reported for.       *)
(***************************************************************************)
EXTENDS Link, TLAPS

\* The slot's own part of the types, and the session facts: everything a step
\* of the slot needs to preserve what its events tell the application.
SlotInv ==
    /\ next_seq \in 0..3 /\ pending_seq \in 0..3
    /\ sc_phase \in Phases /\ app_secure \in BOOLEAN /\ online \in BOOLEAN
    /\ sc_session.established \in BOOLEAN
    /\ EventsTellPhase
    /\ EstablishedIsOnline

-----------------------------------------------------------------------------
\* advance_sqn stays within the two bits of the control byte and never
\* returns to 0.
LEMMA AdvanceSqnRange ==
    ASSUME NEW s \in 0..3
    PROVE  AdvanceSqn(s) \in 1..3
BY DEF AdvanceSqn

\* What reset_sc_handshake does to the facts above.
LEMMA ResetKeepsSlotInv ==
    ASSUME ResetScHandshake
    PROVE  /\ sc_phase' = "IDLE" /\ app_secure' = FALSE
           /\ sc_session'.established = FALSE
BY DEF ResetScHandshake, SessionInit

\* A slot without a session or a handshake satisfies SlotInv.
LEMMA IdleSlotInv ==
    ASSUME next_seq' \in 0..3, pending_seq' \in 0..3, online' \in BOOLEAN,
           sc_phase' = "IDLE", app_secure' = FALSE,
           sc_session'.established = FALSE
    PROVE  SlotInv'
<1>1. sc_phase' \in Phases
  BY DEF Phases
<1>2. sc_phase' # "ESTABLISHED"
  OBVIOUS
<1> QED
  BY <1>1, <1>2, Zenon DEF SlotInv, EventsTellPhase, EstablishedIsOnline

\* A freshly registered slot satisfies SlotInv.
LEMMA SlotInvInit == Init => SlotInv
<1> SUFFICES ASSUME Init PROVE SlotInv
  OBVIOUS
<1>1. next_seq = 0 /\ pending_seq = 0 /\ sc_phase = "IDLE" /\ sc_session = SessionInit
      /\ app_secure = FALSE /\ online = FALSE
  BY DEF Init, AcuInit
<1>2. sc_session.established = FALSE
  BY <1>1 DEF SessionInit
<1>3. next_seq \in 0..3 /\ pending_seq \in 0..3 /\ sc_phase \in Phases
  BY <1>1 DEF Phases
<1>4. EventsTellPhase /\ EstablishedIsOnline
  BY <1>1, <1>2 DEF EventsTellPhase, EstablishedIsOnline
<1> QED
  BY <1>1, <1>2, <1>3, <1>4 DEF SlotInv

\* The calls of the application.
LEMMA SendCommandKeepsSlotInv ==
    ASSUME SlotInv, NEW c, NEW wr \in BOOLEAN, SendCommand(c, wr)
    PROVE  SlotInv'
<1>1. sc_session'.established = sc_session.established
  BY DEF SendCommand, AfterWrap, SlotInv
<1>2. pending_seq' \in 0..3
  BY DEF SendCommand, Transmitted, SlotInv, Frame, Wrap
<1> QED
  BY <1>1, <1>2 DEF SendCommand, SlotInv, EventsTellPhase,
       EstablishedIsOnline, onlineVars

\* A handshake request ends the session before it writes anything, so a
\* failing write cannot leave half of one.
LEMMA StartScHandshakeKeepsSlotInv ==
    ASSUME SlotInv, NEW sel, NEW wr \in BOOLEAN, StartScHandshake(sel, wr)
    PROVE  SlotInv'
<1>1. sc_session'.established = FALSE
  BY DEF StartScHandshake, SessionInit
<1>2. pending_seq' \in 0..3
  BY DEF StartScHandshake, Transmitted, SlotInv, Frame
<1>3. sc_phase' \in {"AWAITING_CCRYPT", "IDLE"} /\ app_secure' = FALSE
  BY DEF StartScHandshake, PhaseAfterChlng
<1> QED
  BY <1>1, <1>2, <1>3 DEF StartScHandshake, SlotInv, EventsTellPhase,
       EstablishedIsOnline, onlineVars, Phases

\* Registering over a live slot clears session, phase and online together.
LEMMA RegisterPdKeepsSlotInv ==
    ASSUME SlotInv, NEW a, RegisterPd(a)
    PROVE  SlotInv'
<1>1. sc_session'.established = FALSE
  BY DEF RegisterPd, SessionInit
<1>2. next_seq' \in 0..3 /\ pending_seq' \in 0..3
  BY DEF RegisterPd
<1> QED
  BY <1>1, <1>2, IdleSlotInv DEF RegisterPd

\* A step that leaves the slot's session, sequence and online state alone.
LEMMA SlotUntouched ==
    ASSUME SlotInv, UNCHANGED <<seqVars, online, scVars>>
    PROVE  SlotInv'
BY DEF SlotInv, EventsTellPhase, EstablishedIsOnline, seqVars, scVars

\* Losing a session, for whatever reason.
LEMMA TerminateScKeepsSlotInv ==
    ASSUME SlotInv, TerminateSc, online' \in BOOLEAN
    PROVE  SlotInv'
BY ResetKeepsSlotInv, IdleSlotInv DEF TerminateSc, SlotInv

\* The reply timeout touches no session state.
LEMMA ReplyTimesOutKeepsSlotInv ==
    ASSUME SlotInv, ReplyTimesOut
    PROVE  SlotInv'
BY DEF ReplyTimesOut, SlotInv, EventsTellPhase, EstablishedIsOnline,
       onlineVars, scVars

\* The offline transition takes the session with it.
LEMMA GoOfflineKeepsSlotInv ==
    ASSUME SlotInv, GoOffline
    PROVE  SlotInv'
<1>1. CASE sc_phase # "IDLE"
  BY <1>1, TerminateScKeepsSlotInv DEF GoOffline
<1>2. CASE sc_phase = "IDLE"
  BY <1>2 DEF GoOffline, SlotInv, EventsTellPhase, EstablishedIsOnline,
       seqVars, scVars
<1> QED
  BY <1>1, <1>2

-----------------------------------------------------------------------------
\* Replies.
LEMMA IgnoredKeepsSlotInv ==
    ASSUME SlotInv, Ignored
    PROVE  SlotInv'
BY SlotUntouched DEF Ignored, onlineVars

\* A session that a reply ends is gone from phase, record and event alike.
LEMMA SessionEndsKeepsSlotInv ==
    ASSUME SlotInv, SessionEnds
    PROVE  SlotInv'
BY TerminateScKeepsSlotInv DEF SessionEnds, SlotInv, onlineVars

\* So is a handshake that fails.
LEMMA HandshakeFailsKeepsSlotInv ==
    ASSUME SlotInv, HandshakeFails
    PROVE  SlotInv'
BY ResetKeepsSlotInv, IdleSlotInv DEF HandshakeFails, SlotInv, onlineVars

\* Accepting a CCRYPT leaves the handshake unfinished: no event, no session.
LEMMA HandleCcryptKeepsSlotInv ==
    ASSUME SlotInv, sc_phase = "AWAITING_CCRYPT", NEW f, NEW wr \in BOOLEAN,
           HandleCcrypt(f, wr)
    PROVE  SlotInv'
<1> DEFINE keys == DeriveSessionKeys(HandshakeKey(sc_key_selector), sc_rnd_a)
           accepted == ~( \/ f.scb # sc_key_selector
                          \/ f.data[2] # ClientCryptogram(keys, sc_rnd_a, f.data[1]))
<1>1. CASE f.sqn # pending_seq
  BY <1>1, IgnoredKeepsSlotInv DEF HandleCcrypt
<1>2. CASE f.sqn = pending_seq /\ ~accepted
  BY <1>2, HandshakeFailsKeepsSlotInv DEF HandleCcrypt
<1>3. CASE f.sqn = pending_seq /\ accepted /\ wr
  <2>1. next_seq' = AdvanceSqn(pending_seq) /\ pending_seq' = AdvanceSqn(pending_seq)
    BY <1>3 DEF HandleCcrypt, Transmitted, Frame
  <2>2. sc_phase' = "AWAITING_RMAC_I" /\ app_secure' = app_secure /\ online' = online
    BY <1>3 DEF HandleCcrypt, onlineVars
  <2>3. sc_session' = [sc_session EXCEPT !.keys = keys]
    BY <1>3 DEF HandleCcrypt
  <2>4. sc_session'.established = sc_session.established
    BY <2>3
  <2> QED
    BY <2>1, <2>2, <2>4, AdvanceSqnRange DEF SlotInv, EventsTellPhase,
       EstablishedIsOnline, Phases
<1>4. CASE f.sqn = pending_seq /\ accepted /\ ~wr
  <2>1. next_seq' = AdvanceSqn(pending_seq) /\ pending_seq' = pending_seq
        /\ online' = online /\ ResetScHandshake
    BY <1>4 DEF HandleCcrypt, onlineVars
  <2> QED
    BY <2>1, ResetKeepsSlotInv, AdvanceSqnRange, IdleSlotInv DEF SlotInv
<1> QED
  BY <1>1, <1>2, <1>3, <1>4

\* Accepting an RMAC_I is the one step that establishes a session: the event,
\* the phase, the session and the online mark are set together.
LEMMA HandleRmacIKeepsSlotInv ==
    ASSUME SlotInv, NEW f, HandleRmacI(f)
    PROVE  SlotInv'
<1> DEFINE rmac == InitialRmac(sc_session.keys,
                       ServerCryptogram(sc_session.keys, sc_rnd_a, sc_rnd_b))
<1>1. CASE f.sqn # pending_seq
  BY <1>1, IgnoredKeepsSlotInv DEF HandleRmacI
<1>2. CASE f.sqn = pending_seq /\ (f.scb # 1 \/ f.data # rmac)
  BY <1>2, HandshakeFailsKeepsSlotInv DEF HandleRmacI
<1>3. CASE f.sqn = pending_seq /\ ~(f.scb # 1 \/ f.data # rmac)
  <2>1. /\ sc_session' = SessionSeeded(sc_session.keys, rmac)
        /\ next_seq' = AdvanceSqn(pending_seq) /\ pending_seq' = pending_seq
        /\ online' = TRUE /\ sc_phase' = "ESTABLISHED" /\ app_secure' = TRUE
    BY <1>3 DEF HandleRmacI
  <2>2. sc_session'.established = TRUE
    BY <2>1 DEF SessionSeeded
  <2>3. next_seq' \in 0..3 /\ pending_seq' \in 0..3
    BY <2>1, AdvanceSqnRange DEF SlotInv
  <2> QED
    BY <2>1, <2>2, <2>3 DEF SlotInv, EventsTellPhase, EstablishedIsOnline, Phases
<1> QED
  BY <1>1, <1>2, <1>3

\* A secure reply is ignored, ends the session, or is delivered.
LEMMA HandleScReplyKeepsSlotInv ==
    ASSUME SlotInv, NEW f, HandleScReply(f)
    PROVE  SlotInv'
<1>1. CASE f.sqn = 0
  BY <1>1, SessionEndsKeepsSlotInv DEF HandleScReply
<1>2. CASE f.sqn # 0 /\ (~waiting \/ f.sqn # pending_seq)
  BY <1>2, IgnoredKeepsSlotInv DEF HandleScReply
<1>3. CASE f.sqn # 0 /\ ~(~waiting \/ f.sqn # pending_seq) /\ ~UnwrapOk(sc_session, f)
  BY <1>3, SessionEndsKeepsSlotInv DEF HandleScReply
<1>4. CASE f.sqn # 0 /\ ~(~waiting \/ f.sqn # pending_seq) /\ UnwrapOk(sc_session, f)
  <2>1. DeliverReply(f) /\ sc_session' = AfterUnwrap(sc_session, f)
        /\ sc_phase' = sc_phase /\ app_secure' = app_secure
    BY <1>4 DEF HandleScReply
  <2>2. sc_session'.established = sc_session.established
    BY <2>1 DEF AfterUnwrap
  <2>3. next_seq' \in 0..3 /\ pending_seq' \in 0..3 /\ online' = TRUE
    BY <2>1, AdvanceSqnRange DEF DeliverReply, SlotInv
  <2> QED
    BY <2>1, <2>2, <2>3 DEF SlotInv, EventsTellPhase, EstablishedIsOnline
<1> QED
  BY <1>1, <1>2, <1>3, <1>4

\* So is a plain one.
LEMMA ProcessReplyKeepsSlotInv ==
    ASSUME SlotInv, NEW f, ProcessReply(f)
    PROVE  SlotInv'
<1> DEFINE ends    == sc_phase = "ESTABLISHED" /\ (f.sqn = 0 \/ f.code # "BUSY")
           ignored == ~waiting \/ f.sqn # pending_seq
<1>1. CASE ends
  BY <1>1, SessionEndsKeepsSlotInv DEF ProcessReply
<1>2. CASE ~ends /\ ignored
  BY <1>2, IgnoredKeepsSlotInv DEF ProcessReply
<1>3. CASE ~ends /\ ~ignored
  <2>1. DeliverReply(f) /\ UNCHANGED scVars
    BY <1>3 DEF ProcessReply
  <2>2. next_seq' \in 0..3 /\ pending_seq' \in 0..3 /\ online' = TRUE
    BY <2>1, AdvanceSqnRange DEF DeliverReply, SlotInv
  <2> QED
    BY <2>1, <2>2 DEF scVars, SlotInv, EventsTellPhase, EstablishedIsOnline
<1> QED
  BY <1>1, <1>2, <1>3

\* Whatever frame arrives, and however osdp_acu_tick routes it.
LEMMA AcuReceiveKeepsSlotInv ==
    ASSUME SlotInv, NEW wr \in BOOLEAN, AcuReceive(wr)
    PROVE  SlotInv'
<1> DEFINE f == Head(toAcu)
<1>1. \/ Ignored
      \/ ProcessReply(f)
      \/ sc_phase = "AWAITING_CCRYPT" /\ HandleCcrypt(f, wr)
      \/ HandleRmacI(f)
      \/ HandleScReply(f)
  BY Zenon DEF AcuReceive
<1> QED
  BY <1>1, IgnoredKeepsSlotInv, ProcessReplyKeepsSlotInv,
     HandleCcryptKeepsSlotInv, HandleRmacIKeepsSlotInv, HandleScReplyKeepsSlotInv

-----------------------------------------------------------------------------
\* SlotInv is inductive: every step of either end, the line or the clock keeps
\* it.
LEMMA SlotInvStep == SlotInv /\ [Next]_vars => SlotInv'
<1> SUFFICES ASSUME SlotInv, [Next]_vars PROVE SlotInv'
  OBVIOUS
<1>0. WriteOutcomes \subseteq BOOLEAN
  BY DEF WriteOutcomes
<1>1. CASE AcuNext
  <2>1. CASE \E c \in Cmds, wr \in WriteOutcomes : SendCommand(c, wr)
    BY <2>1, <1>0, SendCommandKeepsSlotInv
  <2>2. CASE \E sel \in Selectors, wr \in WriteOutcomes : StartScHandshake(sel, wr)
    BY <2>2, <1>0, StartScHandshakeKeepsSlotInv
  <2>3. CASE \E a \in Addresses : RegisterPd(a)
    BY <2>3, RegisterPdKeepsSlotInv
  <2>4. CASE \E k \in Keys : SetPdScbk(k)
    BY <2>4, SlotUntouched DEF SetPdScbk, onlineVars
  <2>5. CASE SetPdScbkD
    BY <2>5, SlotUntouched DEF SetPdScbkD, onlineVars
  <2>6. CASE ReplyTimesOut
    BY <2>6, ReplyTimesOutKeepsSlotInv
  <2>7. CASE GoOffline
    BY <2>7, GoOfflineKeepsSlotInv
  <2>8. CASE \E wr \in WriteOutcomes : AcuReceive(wr)
    BY <2>8, <1>0, AcuReceiveKeepsSlotInv
  <2> QED
    BY <1>1, <2>1, <2>2, <2>3, <2>4, <2>5, <2>6, <2>7, <2>8 DEF AcuNext
<1>2. CASE UNCHANGED acuVars
  BY <1>2, SlotUntouched DEF acuVars, onlineVars
<1>3. CASE Tick
  BY <1>3, SlotUntouched DEF Tick
<1> QED
  BY <1>1, <1>2, <1>3 DEF Next, vars

\* Whatever is lost, delayed, corrupted, timed out or restarted, and for any
\* keys, timeouts and commands: the SC events and what osdp_acu_send_command
\* does to a frame always agree.
THEOREM EventsAlwaysTellPhase == Spec => []EventsTellPhase
<1>1. SlotInv => EventsTellPhase
  BY DEF SlotInv
<1> QED
  BY <1>1, SlotInvInit, SlotInvStep, PTL DEF Spec

\* A slot that considers its PD offline never holds a session with it.
THEOREM OfflineHasNoSession == Spec => []EstablishedIsOnline
<1>1. SlotInv => EstablishedIsOnline
  BY DEF SlotInv
<1> QED
  BY <1>1, SlotInvInit, SlotInvStep, PTL DEF Spec

-----------------------------------------------------------------------------
(* Types.                                                                  *)

\* A dispatch ends in one of the three outcomes the channels know.
LEMMA DispatchKind ==
    ASSUME NEW f, NEW v \in Verdicts, NEW eff
    PROVE  Dispatch(f, v, eff).kind \in {"SEND", "BUSY", "DROP"}
<1>1. v \in {"OK", "NOT_SUPPORTED", "BAD_PAYLOAD", "INVALID_ARG", "BUSY", "OTHER"}
  BY VerdictsAssumption
<1>2. Outcome(v).kind \in {"SEND", "BUSY", "DROP"}
  BY <1>1 DEF Outcome
<1> QED
  BY <1>2 DEF Dispatch

\* The operations of osdp_sc_session_t keep its shape.
LEMMA SessionTypes ==
    /\ SessionType(SessionInit)
    /\ \A k, r : SessionType(SessionSeeded(k, r))
    /\ \A s, f : SessionType(s) => SessionType(AfterWrap(s, f))
    /\ \A s, f : SessionType(s) => SessionType(AfterUnwrap(s, f))
    /\ \A s, k : SessionType(s) => SessionType([s EXCEPT !.keys = k])
    /\ \A s, k : SessionType(s) =>
            SessionType([s EXCEPT !.keys = k, !.established = FALSE])
    /\ \A s : SessionType(s) => SessionType([s EXCEPT !.established = FALSE])
BY DEF SessionType, SessionInit, SessionSeeded, AfterWrap, AfterUnwrap

\* The saturating ages.
LEMMA OlderRange ==
    ASSUME NEW limit \in Nat, NEW age \in 0..(limit + 1)
    PROVE  Older(age, limit) \in 0..(limit + 1)
BY DEF Older

\* reset_sc_handshake leaves a well-formed idle slot.
LEMMA ResetTypes ==
    ASSUME SlotTypeOK, ResetScHandshake
    PROVE  sc_phase' \in Phases /\ sc_key_selector' \in {0, 1} /\ SessionType(sc_session')
BY SessionTypes DEF SlotTypeOK, ResetScHandshake, Phases

\* osdp_acu_send_command keeps the types, written or not.
LEMMA SendCommandTypes ==
    ASSUME SlotTypeOK, NEW c, NEW wr \in BOOLEAN, SendCommand(c, wr)
    PROVE  SlotTypeOK'
<1>1. SessionType(sc_session')
  BY SessionTypes DEF SendCommand, SlotTypeOK
<1>2. pending_seq' \in 0..3 /\ sent_age' \in 0..(ReplyTimeout + 1)
  BY TimeoutsAssumption DEF SendCommand, Transmitted, SlotTypeOK, Frame, Wrap
<1>3. waiting' \in BOOLEAN
  BY Zenon DEF SendCommand, Transmitted, SlotTypeOK
<1> QED
  BY <1>1, <1>2, <1>3 DEF SendCommand, SlotTypeOK, onlineVars, cfgVars

\* osdp_acu_start_sc_handshake keeps the types, written or not.
LEMMA StartScHandshakeTypes ==
    ASSUME SlotTypeOK, NEW sel \in Selectors, NEW wr \in BOOLEAN,
           StartScHandshake(sel, wr)
    PROVE  SlotTypeOK'
<1>1. SessionType(sc_session') /\ sc_key_selector' \in {0, 1} /\ sc_phase' \in Phases
  BY SessionTypes, SelectorsAssumption DEF StartScHandshake, PhaseAfterChlng, Phases
<1>2. pending_seq' \in 0..3 /\ sent_age' \in 0..(ReplyTimeout + 1)
  BY TimeoutsAssumption DEF StartScHandshake, Transmitted, SlotTypeOK, Frame
<1>3. waiting' \in BOOLEAN
  BY Zenon DEF StartScHandshake, Transmitted, SlotTypeOK
<1> QED
  BY <1>1, <1>2, <1>3 DEF StartScHandshake, SlotTypeOK, onlineVars, cfgVars

\* osdp_acu_register_pd keeps the types.
LEMMA RegisterPdTypes ==
    ASSUME SlotTypeOK, NEW a \in Addresses, RegisterPd(a)
    PROVE  SlotTypeOK'
<1>1. SessionType(sc_session') /\ sc_phase' \in Phases
  BY SessionTypes DEF RegisterPd, Phases
<1>2. /\ next_seq' \in 0..3 /\ pending_seq' \in 0..3 /\ sc_key_selector' \in {0, 1}
      /\ sent_age' \in 0..(ReplyTimeout + 1) /\ reply_age' \in 0..(OfflineTimeout + 1)
  BY TimeoutsAssumption DEF RegisterPd
<1> QED
  BY <1>1, <1>2 DEF RegisterPd, SlotTypeOK

\* osdp_acu_internal_terminate_sc restarts the sequence numbers in range.
LEMMA TerminateScTypes ==
    ASSUME SlotTypeOK, TerminateSc
    PROVE  /\ waiting' \in BOOLEAN /\ next_seq' \in 0..3 /\ pending_seq' \in 0..3
           /\ sc_phase' \in Phases /\ sc_key_selector' \in {0, 1}
           /\ SessionType(sc_session')
<1>1. next_seq' \in 0..3 /\ pending_seq' \in 0..3
  BY DEF TerminateSc, SlotTypeOK
<1> QED
  BY <1>1, ResetTypes DEF TerminateSc

\* The two deadlines keep the types.
LEMMA TimeoutTypes ==
    ASSUME SlotTypeOK, ReplyTimesOut \/ GoOffline
    PROVE  SlotTypeOK'
<1>1. CASE ReplyTimesOut
  BY <1>1 DEF ReplyTimesOut, SlotTypeOK, OfflineDue, onlineVars, scVars, cfgVars
<1>2. CASE GoOffline /\ sc_phase # "IDLE"
  BY <1>2, TerminateScTypes DEF GoOffline, SlotTypeOK, cfgVars
<1>3. CASE GoOffline /\ sc_phase = "IDLE"
  BY <1>3 DEF GoOffline, SlotTypeOK, cfgVars, scVars, seqVars
<1> QED
  BY <1>1, <1>2, <1>3

\* The outcomes of a received frame, one by one.
LEMMA ReplyTypes ==
    ASSUME SlotTypeOK, NEW f, UNCHANGED <<in_scan, cfgVars>>,
           Ignored \/ SessionEnds \/ HandshakeFails
    PROVE  SlotTypeOK'
<1>1. CASE Ignored
  BY <1>1 DEF Ignored, SlotTypeOK, seqVars, onlineVars, scVars, cfgVars
<1>2. CASE SessionEnds
  BY <1>2, TerminateScTypes DEF SessionEnds, SlotTypeOK, onlineVars, cfgVars
<1>3. CASE HandshakeFails
  BY <1>3, ResetTypes DEF HandshakeFails, SlotTypeOK, onlineVars, cfgVars
<1> QED
  BY <1>1, <1>2, <1>3

\* A delivered reply advances the sequence number within its range.
LEMMA DeliverReplyTypes ==
    ASSUME SlotTypeOK, NEW f, DeliverReply(f)
    PROVE  /\ waiting' \in BOOLEAN /\ online' \in BOOLEAN
           /\ next_seq' \in 0..3 /\ pending_seq' \in 0..3
           /\ reply_age' \in 0..(OfflineTimeout + 1)
<1>1. next_seq' \in 0..3 /\ pending_seq' \in 0..3
  BY AdvanceSqnRange DEF DeliverReply, SlotTypeOK
<1>2. reply_age' \in 0..(OfflineTimeout + 1)
  BY TimeoutsAssumption DEF DeliverReply
<1> QED
  BY <1>1, <1>2 DEF DeliverReply

\* The handshake's second step, with the SCRYPT written or not.
LEMMA HandleCcryptTypes ==
    ASSUME SlotTypeOK, UNCHANGED <<in_scan, cfgVars>>, NEW f,
           NEW wr \in BOOLEAN, HandleCcrypt(f, wr)
    PROVE  SlotTypeOK'
<1> DEFINE keys == DeriveSessionKeys(HandshakeKey(sc_key_selector), sc_rnd_a)
           accepted == ~( \/ f.scb # sc_key_selector
                          \/ f.data[2] # ClientCryptogram(keys, sc_rnd_a, f.data[1]))
<1>1. CASE ~(f.sqn = pending_seq /\ accepted)
  BY <1>1, ReplyTypes DEF HandleCcrypt
<1>2. CASE f.sqn = pending_seq /\ accepted /\ wr
  <2>1. next_seq' \in 0..3 /\ pending_seq' \in 0..3 /\ sent_age' \in 0..(ReplyTimeout + 1)
    BY <1>2, AdvanceSqnRange, TimeoutsAssumption
       DEF HandleCcrypt, Transmitted, Frame, SlotTypeOK
  <2>2. waiting' = TRUE /\ sc_phase' = "AWAITING_RMAC_I"
        /\ sc_session' = [sc_session EXCEPT !.keys = keys]
        /\ UNCHANGED <<sc_key_selector, online, reply_age>>
    BY <1>2 DEF HandleCcrypt, Transmitted, onlineVars
  <2>3. SessionType(sc_session') /\ sc_phase' \in Phases
    BY <2>2, SessionTypes DEF SlotTypeOK, Phases
  <2> QED
    BY <2>1, <2>2, <2>3 DEF SlotTypeOK, cfgVars
<1>3. CASE f.sqn = pending_seq /\ accepted /\ ~wr
  <2>1. ResetScHandshake /\ waiting' = FALSE
        /\ UNCHANGED <<pending_seq, sent_age, online, reply_age>>
    BY <1>3 DEF HandleCcrypt, onlineVars
  <2>2. next_seq' \in 0..3
    BY <1>3, AdvanceSqnRange DEF HandleCcrypt, SlotTypeOK
  <2> QED
    BY <2>1, <2>2, ResetTypes DEF SlotTypeOK, cfgVars
<1> QED
  BY <1>1, <1>2, <1>3

\* The handshake's last step.
LEMMA HandleRmacITypes ==
    ASSUME SlotTypeOK, UNCHANGED <<in_scan, cfgVars>>, NEW f, HandleRmacI(f)
    PROVE  SlotTypeOK'
<1> DEFINE rmac == InitialRmac(sc_session.keys,
                       ServerCryptogram(sc_session.keys, sc_rnd_a, sc_rnd_b))
           accepted == f.sqn = pending_seq /\ ~(f.scb # 1 \/ f.data # rmac)
<1>1. CASE ~accepted
  BY <1>1, ReplyTypes DEF HandleRmacI
<1>2. CASE accepted
  <2>1. /\ sc_session' = SessionSeeded(sc_session.keys, rmac)
        /\ next_seq' = AdvanceSqn(pending_seq) /\ reply_age' = 0
        /\ waiting' = FALSE /\ online' = TRUE /\ sc_phase' = "ESTABLISHED"
        /\ UNCHANGED <<pending_seq, sent_age, sc_key_selector>>
    BY <1>2 DEF HandleRmacI
  <2>2. next_seq' \in 0..3 /\ reply_age' \in 0..(OfflineTimeout + 1)
    BY <2>1, AdvanceSqnRange, TimeoutsAssumption DEF SlotTypeOK
  <2>3. SessionType(sc_session') /\ sc_phase' \in Phases
    BY <2>1, SessionTypes DEF Phases
  <2> QED
    BY <2>1, <2>2, <2>3 DEF SlotTypeOK, cfgVars
<1> QED
  BY <1>1, <1>2

\* Plain and secure replies.
LEMMA OperationalTypes ==
    ASSUME SlotTypeOK, UNCHANGED <<in_scan, cfgVars>>, NEW f,
           ProcessReply(f) \/ HandleScReply(f)
    PROVE  SlotTypeOK'
<1>1. \/ Ignored \/ SessionEnds
      \/ DeliverReply(f) /\ UNCHANGED <<sent_age, scVars>>
      \/ /\ DeliverReply(f)
         /\ sc_session' = AfterUnwrap(sc_session, f)
         /\ UNCHANGED <<sent_age, sc_phase, sc_key_selector>>
  BY Zenon DEF ProcessReply, HandleScReply
<1>2. CASE DeliverReply(f) /\ UNCHANGED <<sent_age, scVars>>
  BY <1>2, DeliverReplyTypes DEF SlotTypeOK, scVars, cfgVars
<1>3. CASE /\ DeliverReply(f)
           /\ sc_session' = AfterUnwrap(sc_session, f)
           /\ UNCHANGED <<sent_age, sc_phase, sc_key_selector>>
  BY <1>3, DeliverReplyTypes, SessionTypes DEF SlotTypeOK, cfgVars
<1> QED
  BY <1>1, <1>2, <1>3, ReplyTypes

\* The routing of a received frame, whatever the phase.
LEMMA AcuReceiveTypes ==
    ASSUME SlotTypeOK, NEW wr \in BOOLEAN, AcuReceive(wr)
    PROVE  SlotTypeOK'
<1> DEFINE f == Head(toAcu)
<1>1. \/ Ignored \/ ProcessReply(f) \/ HandleCcrypt(f, wr)
      \/ HandleRmacI(f) \/ HandleScReply(f)
  BY Zenon DEF AcuReceive
<1>2. UNCHANGED <<in_scan, cfgVars>>
  BY DEF AcuReceive
<1> QED
  BY <1>1, <1>2, ReplyTypes, OperationalTypes, HandleCcryptTypes, HandleRmacITypes

\* Sending and caching touch neither keys nor session.
LEMMA SendBytesTypes ==
    ASSUME PdTypeOK, NEW reply, NEW wr, SendBytes(reply, wr)
    PROVE  pd_online' \in BOOLEAN /\ comm_age' \in 0..(PdOfflineTimeout + 1)
<1>1. comm_age' \in 0..(PdOfflineTimeout + 1)
  BY PdTimeoutAssumption DEF SendBytes, PdTypeOK, pdCommVars
<1>2. pd_online' \in BOOLEAN
  BY Zenon DEF SendBytes, PdTypeOK, pdCommVars
<1> QED
  BY <1>1, <1>2

\* An answer without a dispatch leaves address and keys alone.
LEMMA RefuseTypes ==
    ASSUME PdTypeOK, NEW f, NEW reply, NEW fits, NEW wr,
           Refuse(f, reply, fits, wr),
           SessionType(pd_session'), got_chlng' \in BOOLEAN
    PROVE  PdTypeOK'
<1>1. SendBytes(reply, wr) /\ UNCHANGED <<pd_address, pd_scbk, pd_scbk_d>>
  BY DEF Refuse, Answer, pdKeyVars
<1> QED
  BY <1>1, SendBytesTypes DEF PdTypeOK

\* A dispatched command leaves a usable key and an assignable address.
LEMMA DispatchedTypes ==
    ASSUME PdTypeOK, NEW f, NEW v, NEW eff \in EffectiveAddresses(f), NEW reply,
           NEW fits, NEW wr,
           Dispatched(f, v, eff, reply, fits, wr),
           SessionType(pd_session'), got_chlng' \in BOOLEAN
    PROVE  PdTypeOK'
<1>1. eff \in 0..(Broadcast - 1)
  BY DEF EffectiveAddresses, PdTypeOK
<1>2. pd_address' \in 0..(Broadcast - 1)
  BY <1>1 DEF Dispatched, PdTypeOK
<1>3. pd_scbk' \in Keys \cup {NoKey}
  BY DEF Dispatched, KeyAfter, UsableKey, PdTypeOK
<1>4. SendBytes(reply, wr) /\ UNCHANGED pd_scbk_d
  BY DEF Dispatched
<1> QED
  BY <1>2, <1>3, <1>4, SendBytesTypes DEF PdTypeOK

\* CHLNG and SCRYPT keep the PD's types.
LEMMA HandshakeTypes ==
    ASSUME PdTypeOK, NEW f, NEW fits, NEW wr,
           HandleChlng(f, fits, wr) \/ HandleScrypt(f, fits, wr)
    PROVE  PdTypeOK'
<1>1. \E reply : Refuse(f, reply, fits, wr)
  BY DEF HandleChlng, HandleScrypt
<1>2. got_chlng' \in BOOLEAN
  BY Zenon DEF HandleChlng, HandleScrypt, pdScVars, PdTypeOK
<1>3. \/ pd_session' = pd_session
      \/ \E k : pd_session' = [pd_session EXCEPT !.keys = k, !.established = FALSE]
      \/ pd_session' = [pd_session EXCEPT !.established = FALSE]
      \/ \E k, r : pd_session' = SessionSeeded(k, r)
  BY Zenon DEF HandleChlng, HandleScrypt, pdScVars
<1>4. SessionType(pd_session')
  BY <1>3, SessionTypes DEF PdTypeOK
<1> QED
  BY <1>1, <1>2, <1>4, RefuseTypes

\* A wrapped command keeps the PD's types, whatever the handler says.
LEMMA HandleOperationalTypes ==
    ASSUME PdTypeOK, NEW f, NEW v \in Verdicts, NEW eff \in EffectiveAddresses(f),
           NEW fits, NEW wr, HandleOperational(f, v, eff, fits, wr)
    PROVE  PdTypeOK'
<1> DEFINE kind == Dispatch(f, v, eff).kind
<1>1. got_chlng' \in BOOLEAN
  BY DEF HandleOperational, PdTypeOK
<1>2. CASE ~(pd_session.established /\ UnwrapOk(pd_session, f))
  <2>1. pd_session' = pd_session /\ \E reply : Refuse(f, reply, fits, wr)
    BY <1>2 DEF HandleOperational
  <2> QED
    BY <2>1, <1>1, RefuseTypes DEF PdTypeOK
<1>3. CASE pd_session.established /\ UnwrapOk(pd_session, f)
  <2>1. /\ \E reply : Dispatched(f, v, eff, reply, fits, wr)
        /\ \/ pd_session' = AfterUnwrap(pd_session, f)
           \/ \E g : pd_session' = AfterWrap(AfterUnwrap(pd_session, f), g)
    <3>1. CASE kind = "SEND"
      BY <1>3, <3>1 DEF HandleOperational
    <3>2. CASE kind = "BUSY"
      BY <1>3, <3>2 DEF HandleOperational
    <3>3. CASE kind = "DROP"
      BY <1>3, <3>3 DEF HandleOperational
    <3> QED
      BY <3>1, <3>2, <3>3, DispatchKind
  <2>2. SessionType(pd_session')
    BY <2>1, SessionTypes DEF PdTypeOK
  <2> QED
    BY <2>1, <2>2, <1>1, DispatchedTypes
<1> QED
  BY <1>2, <1>3

\* So does a clear one.
LEMMA HandleClearTypes ==
    ASSUME PdTypeOK, NEW f, NEW v, NEW eff \in EffectiveAddresses(f),
           NEW fits, NEW wr, HandleClear(f, v, eff, fits, wr)
    PROVE  PdTypeOK'
<1>1. got_chlng' \in BOOLEAN
  BY Zenon DEF HandleClear, PdTypeOK
<1>2. pd_session' = SessionInit \/ pd_session' = pd_session
  BY DEF HandleClear
<1>3. SessionType(pd_session')
  BY <1>2, SessionTypes DEF PdTypeOK
<1>4. \E reply : \/ Refuse(f, reply, fits, wr)
                 \/ Dispatched(f, v, eff, reply, fits, wr)
  BY DEF HandleClear
<1> QED
  BY <1>1, <1>3, <1>4, RefuseTypes, DispatchedTypes

\* A fresh command, on any channel.
LEMMA PdFreshTypes ==
    ASSUME PdTypeOK, NEW v \in Verdicts, NEW fits, NEW wr, PdFresh(v, fits, wr)
    PROVE  PdTypeOK'
<1> DEFINE f == Head(toPd)
<1>1. \/ Refuse(f, BuildNak(f, NakScb), fits, wr) /\ UNCHANGED pdScVars
      \/ \E eff \in EffectiveAddresses(f) : HandleClear(f, v, eff, fits, wr)
      \/ HandleChlng(f, fits, wr)
      \/ HandleScrypt(f, fits, wr)
      \/ \E eff \in EffectiveAddresses(f) : HandleOperational(f, v, eff, fits, wr)
  BY DEF PdFresh
<1>2. CASE Refuse(f, BuildNak(f, NakScb), fits, wr) /\ UNCHANGED pdScVars
  <2>1. SessionType(pd_session') /\ got_chlng' \in BOOLEAN
    BY <1>2 DEF pdScVars, PdTypeOK
  <2> QED
    BY <1>2, <2>1, RefuseTypes
<1> QED
  BY <1>1, <1>2, HandleClearTypes, HandshakeTypes, HandleOperationalTypes

\* Every step of the PD keeps its types.
LEMMA PdNextTypes ==
    ASSUME PdTypeOK, PdNext
    PROVE  PdTypeOK'
<1>1. CASE \E v \in Verdicts, fits \in ReplyFits, wr \in WriteOutcomes :
               PdFresh(v, fits, wr)
  BY <1>1, PdFreshTypes
<1>2. CASE \E wr \in WriteOutcomes : PdBadCheck(wr) \/ PdRetransmit(wr)
  <2>1. /\ \E reply, wr : SendBytes(reply, wr)
        /\ UNCHANGED <<pd_address, pdKeyVars, pdScVars>>
    BY <1>2 DEF PdBadCheck, PdRetransmit
  <2> QED
    BY <2>1, SendBytesTypes DEF PdTypeOK, pdKeyVars, pdScVars
<1>3. CASE PdNotOurs \/ PdGoOffline
  BY <1>3 DEF PdNotOurs, PdGoOffline, PdTypeOK, pdKeyVars, pdScVars, pdCommVars
<1>4. CASE PdRestart
  <2>1. SessionType(pd_session')
    BY <1>4, SessionTypes DEF PdRestart
  <2>2. comm_age' \in 0..(PdOfflineTimeout + 1)
    BY <1>4, PdTimeoutAssumption DEF PdRestart
  <2> QED
    BY <1>4, <2>1, <2>2 DEF PdRestart, PdTypeOK, pdKeyVars
<1> QED
  BY <1>1, <1>2, <1>3, <1>4 DEF PdNext

\* Every step of the slot keeps its types.
LEMMA AcuNextTypes ==
    ASSUME SlotTypeOK, AcuNext
    PROVE  SlotTypeOK'
<1>0. WriteOutcomes \subseteq BOOLEAN
  BY DEF WriteOutcomes
<1>1. CASE \E c \in Cmds, wr \in WriteOutcomes : SendCommand(c, wr)
  BY <1>1, <1>0, SendCommandTypes
<1>2. CASE \E sel \in Selectors, wr \in WriteOutcomes : StartScHandshake(sel, wr)
  BY <1>2, <1>0, StartScHandshakeTypes
<1>3. CASE \E a \in Addresses : RegisterPd(a)
  BY <1>3, RegisterPdTypes
<1>4. CASE (\E k \in Keys : SetPdScbk(k)) \/ SetPdScbkD
  BY <1>4 DEF SetPdScbk, SetPdScbkD, SlotTypeOK, seqVars, onlineVars, scVars
<1>5. CASE ReplyTimesOut \/ GoOffline
  BY <1>5, TimeoutTypes
<1>6. CASE \E wr \in WriteOutcomes : AcuReceive(wr)
  BY <1>6, <1>0, AcuReceiveTypes
<1> QED
  BY <1>1, <1>2, <1>3, <1>4, <1>5, <1>6 DEF AcuNext

\* The clock keeps the ages within their saturation.
LEMMA TickTypes ==
    ASSUME TypeOK, Tick
    PROVE  TypeOK'
<1>1. /\ sent_age' \in 0..(ReplyTimeout + 1)
      /\ reply_age' \in 0..(OfflineTimeout + 1)
      /\ comm_age' \in 0..(PdOfflineTimeout + 1)
  BY OlderRange, TimeoutsAssumption, PdTimeoutAssumption
     DEF Tick, TypeOK, SlotTypeOK, PdTypeOK
<1> QED
  BY <1>1 DEF Tick, TypeOK, SlotTypeOK, PdTypeOK, seqVars, scVars, cfgVars,
     pdKeyVars, pdScVars

\* Both ends start well typed.
LEMMA TypesInit == Init => TypeOK
<1> SUFFICES ASSUME Init PROVE TypeOK
  OBVIOUS
<1>1. SessionType(sc_session) /\ SessionType(pd_session) /\ sc_phase \in Phases
  BY SessionTypes DEF Init, AcuInit, PdInit, Phases
<1>2. /\ next_seq \in 0..3 /\ pending_seq \in 0..3 /\ sc_key_selector \in {0, 1}
      /\ sent_age \in 0..(ReplyTimeout + 1) /\ reply_age \in 0..(OfflineTimeout + 1)
      /\ comm_age \in 0..(PdOfflineTimeout + 1)
  BY TimeoutsAssumption, PdTimeoutAssumption DEF Init, AcuInit, PdInit
<1>3. /\ scbk \in Keys \cup {NoKey} /\ scbk_d \in {DefaultKey, NoKey}
      /\ pd_scbk \in Keys \cup {NoKey} /\ pd_scbk_d \in {DefaultKey, NoKey}
      /\ address \in Addresses /\ pd_address \in 0..(Broadcast - 1)
  BY KeysInitAssumption, PdAddressesAssumption DEF Init, AcuInit, PdInit
<1>4. /\ waiting = FALSE /\ in_scan = FALSE /\ online = FALSE
      /\ pd_online = FALSE /\ got_chlng = FALSE
  BY DEF Init, AcuInit, PdInit
<1> QED
  BY <1>1, <1>2, <1>3, <1>4 DEF TypeOK, SlotTypeOK, PdTypeOK

\* A step of one end leaves the other's types alone.
LEMMA SlotTypesUntouched ==
    ASSUME SlotTypeOK, UNCHANGED acuVars
    PROVE  SlotTypeOK'
BY DEF acuVars, seqVars, onlineVars, scVars, cfgVars, SlotTypeOK

\* The same for the PD.
LEMMA PdTypesUntouched ==
    ASSUME PdTypeOK, UNCHANGED pdVars
    PROVE  PdTypeOK'
BY DEF pdVars, pdKeyVars, pdScVars, pdCommVars, PdTypeOK

\* Both ends keep the types of their fields, for every key set, timeout,
\* command set and fault: sequence numbers fit two bits, no PD ends up at the
\* broadcast address, no key is anything but a configured or a set one.
THEOREM TypesHold == Spec => []TypeOK
<1>1. TypeOK /\ [Next]_vars => TypeOK'
  <2> SUFFICES ASSUME TypeOK, [Next]_vars PROVE TypeOK'
    OBVIOUS
  <2>1. CASE AcuNext /\ UNCHANGED pdVars
    BY <2>1, AcuNextTypes, PdTypesUntouched DEF TypeOK
  <2>2. CASE PdNext /\ UNCHANGED acuVars
    BY <2>2, PdNextTypes, SlotTypesUntouched DEF TypeOK
  <2>3. CASE UNCHANGED <<acuVars, pdVars>>
    BY <2>3, SlotTypesUntouched, PdTypesUntouched DEF TypeOK
  <2>4. CASE Tick
    BY <2>4, TickTypes
  <2> QED
    BY <2>1, <2>2, <2>3, <2>4 DEF Next, vars
<1> QED
  BY <1>1, TypesInit, PTL DEF Spec

-----------------------------------------------------------------------------
(* What the terms of the handshake and of the chain are made of.           *)

Nonce(keys)  == keys[2]     \* RND.A, of session keys
RmacKeys(d)  == d[2]        \* the session keys of an Initial R-MAC
MacIcv(mac)  == mac[3]      \* what a MAC is chained from

\* The fields of a frame.
IsFrame(f) ==
    /\ DOMAIN f = {"addr", "sqn", "scs", "scb", "code", "data", "mac", "bad", "id"}
    /\ f.bad \in BOOLEAN

IsSeq(s) == \E S : s \in Seq(S)

\* A challenge on the line, and a reply that makes the slot seed its session.
Challenges(f) == f.scs = "SCS_11"
Seeds(g)      == g.scs = "SCS_14" /\ g.scb = 1

\* keys are the session keys of a handshake the PD took part in: their nonce
\* has been used, no challenge still on the line has it, and unless the PD has
\* gone on to a later challenge or forgotten everything, they are its keys.
Known(keys, n, line, pdKeys) ==
    /\ Nonce(keys) \in Nat /\ Nonce(keys) <= n
    /\ \A j \in 1..Len(line) : Challenges(line[j]) => Nonce(keys) < line[j].data[1]
    /\ pdKeys = NoKeys \/ Nonce(keys) < Nonce(pdKeys) \/ keys = pdKeys

\* Every challenge has a nonce of its own, and they are on the line in order.
NoncesInOrder(n, line) ==
    /\ \A j \in 1..Len(line) :
          Challenges(line[j]) => line[j].data[1] \in Nat /\ line[j].data[1] <= n
    /\ \A i, j \in 1..Len(line) :
          i < j /\ Challenges(line[i]) /\ Challenges(line[j])
              => line[i].data[1] < line[j].data[1]

SeedsKnown(g, n, line, pdKeys) == Seeds(g) => Known(RmacKeys(g.data), n, line, pdKeys)

LineInv ==
    /\ IsSeq(toPd) /\ IsSeq(toAcu)
    /\ \A j \in 1..Len(toPd) : IsFrame(toPd[j])
    /\ \A j \in 1..Len(toAcu) : IsFrame(toAcu[j])

\* The PD's keys, and the R-MACs it has sent or keeps for a retransmit.
PdKeysInv ==
    /\ pd_session.keys # NoKeys => Known(pd_session.keys, nonces, toPd, pd_session.keys)
    /\ got_chlng \/ pd_session.established => pd_session.keys # NoKeys
    /\ \A j \in 1..Len(toAcu) : SeedsKnown(toAcu[j], nonces, toPd, pd_session.keys)
    /\ cache # NoCache /\ cache.reply # NoReply
          => SeedsKnown(cache.reply, nonces, toPd, pd_session.keys) /\ IsFrame(cache.reply)

\* The slot's keys are those of the last handshake it started.
SlotKeysInv ==
    /\ nonces \in Nat
    /\ sc_phase = "AWAITING_CCRYPT" => sc_rnd_a = nonces
    /\ sc_phase \in {"AWAITING_RMAC_I", "ESTABLISHED"} => Nonce(sc_session.keys) = nonces
    /\ sc_phase = "ESTABLISHED" => Known(sc_session.keys, nonces, toPd, pd_session.keys)

KeysInv == /\ TypeOK /\ LineInv /\ NoncesInOrder(nonces, toPd) /\ PdKeysInv /\ SlotKeysInv

-----------------------------------------------------------------------------
(* Terms and sequences.                                                    *)

LEMMA Terms ==
    /\ \A k, n : Nonce(DeriveSessionKeys(k, n)) = n /\ DeriveSessionKeys(k, n) # NoKeys
    /\ \A k, s : RmacKeys(InitialRmac(k, s)) = k
    /\ \A k, i, f : MacIcv(ComputeMac(k, i, f)) = i
BY DEF Nonce, RmacKeys, MacIcv, DeriveSessionKeys, InitialRmac, ComputeMac, NoKeys

LEMMA Appended ==
    ASSUME NEW s, IsSeq(s), NEW x
    PROVE  /\ IsSeq(Append(s, x)) /\ Len(s) \in Nat /\ Len(Append(s, x)) = Len(s) + 1
           /\ \A j \in 1..Len(s) : Append(s, x)[j] = s[j]
           /\ Append(s, x)[Len(s) + 1] = x
<1> PICK S : s \in Seq(S)
  BY DEF IsSeq
<1>1. s \in Seq(S \cup {x})
  OBVIOUS
<1>2. Append(s, x) \in Seq(S \cup {x})
  BY <1>1
<1> QED
  BY <1>1, <1>2 DEF IsSeq

LEMMA Taken ==
    ASSUME NEW s, IsSeq(s), s # <<>>
    PROVE  /\ IsSeq(Tail(s)) /\ Len(s) \in Nat /\ Len(s) > 0 /\ Len(Tail(s)) = Len(s) - 1
           /\ Head(s) = s[1]
           /\ \A j \in 1..Len(Tail(s)) : Tail(s)[j] = s[j + 1]
<1> PICK S : s \in Seq(S)
  BY DEF IsSeq
<1> QED
  BY DEF IsSeq

LEMMA Replaced ==
    ASSUME NEW s, IsSeq(s), s # <<>>, NEW x
    PROVE  LET t == <<x>> \o Tail(s)
           IN  /\ IsSeq(t) /\ Len(s) \in Nat /\ Len(t) = Len(s) /\ t[1] = x
               /\ \A j \in 2..Len(s) : t[j] = s[j]
<1> PICK S : s \in Seq(S)
  BY DEF IsSeq
<1>1. <<x>> \in Seq(S \cup {x}) /\ Tail(s) \in Seq(S \cup {x})
  OBVIOUS
<1>2. <<x>> \o Tail(s) \in Seq(S \cup {x})
  BY <1>1
<1> QED
  BY <1>1, <1>2 DEF IsSeq

LEMMA Corrupted ==
    ASSUME NEW f, IsFrame(f)
    PROVE  LET g == [f EXCEPT !.bad = TRUE]
           IN  /\ IsFrame(g) /\ g.addr = f.addr /\ g.sqn = f.sqn /\ g.scs = f.scs
               /\ g.scb = f.scb /\ g.code = f.code /\ g.data = f.data /\ g.mac = f.mac
               /\ g.id = f.id
BY DEF IsFrame

-----------------------------------------------------------------------------
(* What a step may do to the line without touching what is known.          *)

\* A frame leaves the line.
LEMMA KnownTaken ==
    ASSUME NEW K, NEW n, NEW line, NEW pk, IsSeq(line), line # <<>>, Known(K, n, line, pk)
    PROVE  Known(K, n, Tail(line), pk)
BY Taken DEF Known

\* A frame joins it; a challenge has a new nonce.
LEMMA KnownSent ==
    ASSUME NEW K, NEW n \in Nat, NEW m \in Nat, NEW line, NEW pk, NEW f, IsSeq(line),
           Known(K, n, line, pk), n <= m, Challenges(f) => f.data[1] \in Nat /\ n < f.data[1]
    PROVE  Known(K, m, Append(line, f), pk)
BY Appended DEF Known

\* The first frame is replaced by one that is a challenge only if it was the
\* same challenge.
LEMMA KnownReplaced ==
    ASSUME NEW K, NEW n, NEW line, NEW pk, NEW x, IsSeq(line), line # <<>>,
           x.scs = Head(line).scs, x.data = Head(line).data, Known(K, n, line, pk)
    PROVE  Known(K, n, <<x>> \o Tail(line), pk)
<1> DEFINE t == <<x>> \o Tail(line)
<1>1. Len(line) \in Nat /\ Len(t) = Len(line) /\ t[1] = x /\ \A j \in 2..Len(line) : t[j] = line[j]
  BY Replaced
<1>2. Head(line) = line[1]
  BY Taken
<1> HIDE DEF t
<1> QED
  BY <1>1, <1>2 DEF Known, Challenges

\* The PD forgets its keys.
LEMMA KnownForgotten ==
    ASSUME NEW K, NEW n, NEW line, NEW pk, Known(K, n, line, pk)
    PROVE  Known(K, n, line, NoKeys)
BY DEF Known

\* The PD takes a challenge: its keys have a nonce above everything known.
LEMMA KnownChallenged ==
    ASSUME NEW K, NEW n, NEW line, NEW pk, NEW qk, IsSeq(line), line # <<>>,
           Challenges(Head(line)), Nonce(qk) = Head(line).data[1], Known(K, n, line, pk)
    PROVE  Known(K, n, Tail(line), qk)
BY Taken DEF Known

\* ... and no challenge behind it has it.
LEMMA ChallengeKnown ==
    ASSUME NEW n, NEW line, NEW qk, IsSeq(line), line # <<>>, NoncesInOrder(n, line),
           Challenges(Head(line)), Nonce(qk) = Head(line).data[1]
    PROVE  Known(qk, n, Tail(line), qk)
BY Taken DEF Known, NoncesInOrder

\* The order of the challenges survives the same three changes.
LEMMA OrderTaken ==
    ASSUME NEW n, NEW line, IsSeq(line), line # <<>>, NoncesInOrder(n, line)
    PROVE  NoncesInOrder(n, Tail(line))
<1> DEFINE t == Tail(line)
<1>1. /\ Len(line) \in Nat /\ Len(line) > 0 /\ Len(t) = Len(line) - 1
      /\ \A j \in 1..Len(t) : t[j] = line[j + 1]
  BY Taken
<1> HIDE DEF t
<1>2. \A j \in 1..Len(t) : j + 1 \in 1..Len(line) /\ t[j] = line[j + 1]
  BY <1>1
<1>3. \A i, j \in 1..Len(t) : i < j => i + 1 < j + 1
  BY <1>1
<1> QED
  BY <1>2, <1>3 DEF NoncesInOrder, t

LEMMA OrderSent ==
    ASSUME NEW n \in Nat, NEW m \in Nat, NEW line, NEW f, IsSeq(line), NoncesInOrder(n, line),
           n <= m, Challenges(f) => f.data[1] \in Nat /\ n < f.data[1] /\ f.data[1] <= m
    PROVE  NoncesInOrder(m, Append(line, f))
<1> DEFINE t == Append(line, f)
<1>1. /\ Len(line) \in Nat /\ Len(t) = Len(line) + 1 /\ t[Len(line) + 1] = f
      /\ \A j \in 1..Len(line) : t[j] = line[j]
  BY Appended
<1> HIDE DEF t
<1>2. ASSUME NEW j \in 1..Len(t), Challenges(t[j])
      PROVE  t[j].data[1] \in Nat /\ t[j].data[1] <= m
  <2>1. CASE j = Len(line) + 1
    BY <2>1, <1>1, <1>2
  <2>2. CASE j # Len(line) + 1
    <3>1. j \in 1..Len(line) /\ t[j] = line[j]
      BY <2>2, <1>1
    <3> QED
      BY <3>1, <1>2 DEF NoncesInOrder
  <2> QED
    BY <2>1, <2>2
<1>3. ASSUME NEW i \in 1..Len(t), NEW j \in 1..Len(t), i < j, Challenges(t[i]), Challenges(t[j])
      PROVE  t[i].data[1] < t[j].data[1]
  <2>1. i \in 1..Len(line) /\ t[i] = line[i]
    BY <1>1, <1>3
  <2>2. CASE j = Len(line) + 1
    BY <2>1, <2>2, <1>1, <1>3 DEF NoncesInOrder
  <2>3. CASE j # Len(line) + 1
    <3>1. j \in 1..Len(line) /\ t[j] = line[j]
      BY <2>3, <1>1
    <3> QED
      BY <2>1, <3>1, <1>3 DEF NoncesInOrder
  <2> QED
    BY <2>2, <2>3
<1> QED
  BY <1>2, <1>3 DEF NoncesInOrder, t

LEMMA OrderReplaced ==
    ASSUME NEW n, NEW line, NEW x, IsSeq(line), line # <<>>,
           x.scs = Head(line).scs, x.data = Head(line).data, NoncesInOrder(n, line)
    PROVE  NoncesInOrder(n, <<x>> \o Tail(line))
<1> DEFINE t == <<x>> \o Tail(line)
<1>1. Len(line) \in Nat /\ Len(t) = Len(line) /\ t[1] = x /\ \A j \in 2..Len(line) : t[j] = line[j]
  BY Replaced
<1>2. Head(line) = line[1]
  BY Taken
<1> HIDE DEF t
<1> QED
  BY <1>1, <1>2 DEF NoncesInOrder, Challenges

-----------------------------------------------------------------------------
(* The slot.                                                               *)

\* What a step of the slot puts on the line.
SlotSends ==
    \/ toPd' = toPd
    \/ \E f : /\ toPd' = Append(toPd, f) /\ IsFrame(f)
              /\ Challenges(f) => f.data[1] = nonces + 1 /\ nonces' = nonces + 1

SlotTakes == toAcu' = toAcu \/ (toAcu # <<>> /\ toAcu' = Tail(toAcu))

\* Where a step leaves the handshake and the keys.
SlotIdles  == sc_phase' = "IDLE"
SlotKeeps  == /\ sc_phase' = sc_phase /\ sc_rnd_a' = sc_rnd_a
              /\ sc_session'.keys = sc_session.keys /\ nonces' = nonces
SlotAsks   == sc_phase' = "AWAITING_CCRYPT" /\ sc_rnd_a' = nonces'
SlotProves == /\ sc_phase = "AWAITING_CCRYPT" /\ sc_phase' = "AWAITING_RMAC_I"
              /\ Nonce(sc_session'.keys) = sc_rnd_a /\ nonces' = nonces
SlotSeeds  == /\ sc_phase = "AWAITING_RMAC_I" /\ sc_phase' = "ESTABLISHED" /\ nonces' = nonces
              /\ toAcu # <<>> /\ Seeds(Head(toAcu)) /\ toPd' = toPd
              /\ RmacKeys(Head(toAcu).data) = sc_session.keys
              /\ sc_session'.keys = sc_session.keys

SlotEffect ==
    /\ SlotSends /\ SlotTakes
    /\ nonces' \in {nonces, nonces + 1}
    /\ SlotIdles \/ SlotKeeps \/ SlotAsks \/ SlotProves \/ SlotSeeds

LEMMA SendCommandEffect ==
    ASSUME TypeOK, NEW c, NEW wr \in BOOLEAN, SendCommand(c, wr)
    PROVE  SlotEffect
<1> DEFINE secure == sc_phase = "ESTABLISHED"
           plain  == Frame(address, next_seq, IF secure THEN "SCS_CMD" ELSE "NONE",
                           0, c.code, c.data, 0)
           f      == IF secure THEN Wrap(sc_session, plain) ELSE plain
           retry  == timed_out /\ f = Bytes(tx)
           i      == IF retry THEN tx.id ELSE ids + 1
<1>1. IsFrame(plain) /\ plain.scs \in {"SCS_CMD", "NONE"}
  BY DEF Frame, IsFrame
<1> HIDE DEF plain
<1>2. IsFrame(f) /\ f.scs \in {"SCS_CMD", "NONE"}
  <2>1. CASE secure
    <3> DEFINE mac == ComputeMac(sc_session.keys, sc_session.last_inbound_mac, plain)
    <3>1. f = [plain EXCEPT !.mac = mac]
      BY <2>1 DEF Wrap
    <3> HIDE DEF mac, f
    <3> QED
      BY <1>1, <3>1 DEF IsFrame
  <2>2. CASE ~secure
    BY <1>1, <2>2
  <2> QED
    BY <2>1, <2>2
<1>3. SlotSends
  <2>1. CASE ~wr
    BY <2>1 DEF SendCommand, SlotSends
  <2>2. CASE wr
    <3>1. toPd' = Append(toPd, [f EXCEPT !.id = i])
      BY <2>2 DEF SendCommand, Transmitted, plain
    <3> HIDE DEF f, i
    <3>2. IsFrame([f EXCEPT !.id = i]) /\ ~Challenges([f EXCEPT !.id = i])
      BY <1>2 DEF IsFrame, Challenges
    <3> QED
      BY <3>1, <3>2 DEF SlotSends
  <2> QED
    BY <2>1, <2>2
<1>4. sc_session'.keys = sc_session.keys
  <2> DEFINE mac == ComputeMac(sc_session.keys, sc_session.last_inbound_mac, plain)
  <2>1. sc_session' \in {sc_session, [sc_session EXCEPT !.last_outbound_mac = mac]}
    BY DEF SendCommand, AfterWrap, plain
  <2> HIDE DEF mac
  <2> QED
    BY <2>1 DEF TypeOK, SlotTypeOK, SessionType
<1>5. sc_phase' = sc_phase /\ sc_rnd_a' = sc_rnd_a /\ nonces' = nonces /\ toAcu' = toAcu
  BY DEF SendCommand
<1>6. SlotKeeps /\ SlotTakes /\ nonces' = nonces
  BY <1>4, <1>5 DEF SlotKeeps, SlotTakes
<1> QED
  BY <1>3, <1>6 DEF SlotEffect

LEMMA StartScHandshakeEffect ==
    ASSUME NEW sel, NEW wr \in BOOLEAN, StartScHandshake(sel, wr)
    PROVE  SlotEffect
<1> DEFINE f == Frame(address, next_seq, "SCS_11", sel, "CHLNG", <<nonces + 1>>, 0)
<1>1. IsFrame(f) /\ f.data[1] = nonces + 1
  BY DEF Frame, IsFrame
<1>2. toPd' = toPd \/ toPd' = Append(toPd, f)
  BY DEF StartScHandshake, Transmitted
<1>3. nonces' = nonces + 1 /\ sc_rnd_a' = nonces + 1 /\ toAcu' = toAcu
      /\ sc_phase' \in {"AWAITING_CCRYPT", "IDLE"}
  BY DEF StartScHandshake, PhaseAfterChlng
<1> HIDE DEF f
<1>4. SlotSends
  BY <1>1, <1>2, <1>3, Zenon DEF SlotSends
<1>5. SlotTakes /\ (SlotIdles \/ SlotAsks)
  BY <1>3, Zenon DEF SlotTakes, SlotIdles, SlotAsks
<1> QED
  BY <1>3, <1>4, <1>5 DEF SlotEffect

LEMMA ReceiveEffect ==
    ASSUME TypeOK, NEW wr \in BOOLEAN, AcuReceive(wr)
    PROVE  SlotEffect
<1> DEFINE f == Head(toAcu)
<1>0. toAcu # <<>> /\ toAcu' = Tail(toAcu) /\ nonces' = nonces
  BY DEF AcuReceive, countVars
<1>1. \/ Ignored \/ ProcessReply(f) \/ HandleScReply(f)
      \/ sc_phase = "AWAITING_CCRYPT" /\ HandleCcrypt(f, wr)
      \/ sc_phase = "AWAITING_RMAC_I" /\ f.scs = "SCS_14" /\ HandleRmacI(f)
  BY Zenon DEF AcuReceive
<1>2. CASE Ignored
  BY <1>0, <1>2 DEF Ignored, scVars, SlotEffect, SlotSends, SlotTakes, SlotKeeps
<1>3. CASE SessionEnds
  BY <1>0, <1>3 DEF SessionEnds, TerminateSc, ResetScHandshake, SlotEffect, SlotSends,
     SlotTakes, SlotIdles
<1>4. CASE HandshakeFails
  BY <1>0, <1>4 DEF HandshakeFails, ResetScHandshake, SlotEffect, SlotSends, SlotTakes, SlotIdles
<1>5. CASE ProcessReply(f)
  <2>1. Ignored \/ SessionEnds \/ UNCHANGED <<toPd, scVars>>
    BY <1>5 DEF ProcessReply
  <2>2. CASE UNCHANGED <<toPd, scVars>>
    BY <1>0, <2>2 DEF scVars, SlotEffect, SlotSends, SlotTakes, SlotKeeps
  <2> QED
    BY <2>1, <2>2, <1>2, <1>3
<1>6. CASE HandleScReply(f)
  <2>1. \/ Ignored \/ SessionEnds
        \/ /\ sc_session' = AfterUnwrap(sc_session, f)
           /\ UNCHANGED <<toPd, sc_phase, sc_rnd_a>>
    BY <1>6 DEF HandleScReply
  <2>2. CASE /\ sc_session' = AfterUnwrap(sc_session, f)
             /\ UNCHANGED <<toPd, sc_phase, sc_rnd_a>>
    <3>1. sc_session'.keys = sc_session.keys
      BY <2>2 DEF AfterUnwrap, TypeOK, SlotTypeOK, SessionType
    <3> QED
      BY <1>0, <2>2, <3>1 DEF SlotEffect, SlotSends, SlotTakes, SlotKeeps
  <2> QED
    BY <2>1, <2>2, <1>2, <1>3
<1>7. CASE sc_phase = "AWAITING_CCRYPT" /\ HandleCcrypt(f, wr)
  <2> DEFINE keys   == DeriveSessionKeys(HandshakeKey(sc_key_selector), sc_rnd_a)
             scrypt == Frame(address, AdvanceSqn(pending_seq), "SCS_13", sc_key_selector,
                             "SCRYPT", ServerCryptogram(keys, sc_rnd_a, f.data[1]), 0)
  <2>1. \/ Ignored \/ HandshakeFails
        \/ ResetScHandshake /\ toPd' = toPd
        \/ /\ toPd' = Append(toPd, scrypt) /\ sc_phase' = "AWAITING_RMAC_I"
           /\ sc_session' = [sc_session EXCEPT !.keys = keys]
    BY <1>7 DEF HandleCcrypt, Transmitted
  <2>2. CASE ResetScHandshake /\ toPd' = toPd
    BY <1>0, <2>2 DEF ResetScHandshake, SlotEffect, SlotSends, SlotTakes, SlotIdles
  <2>3. CASE /\ toPd' = Append(toPd, scrypt) /\ sc_phase' = "AWAITING_RMAC_I"
             /\ sc_session' = [sc_session EXCEPT !.keys = keys]
    <3>1. IsFrame(scrypt) /\ ~Challenges(scrypt)
      BY DEF Challenges, Frame, IsFrame
    <3>2. sc_session'.keys = keys
      BY <2>3 DEF TypeOK, SlotTypeOK, SessionType
    <3>3. Nonce(sc_session'.keys) = sc_rnd_a
      BY <3>2, Terms
    <3> HIDE DEF scrypt, keys
    <3> QED
      BY <1>0, <1>7, <2>3, <3>1, <3>3 DEF SlotEffect, SlotSends, SlotTakes, SlotProves
  <2> QED
    BY <2>1, <2>2, <2>3, <1>2, <1>4
<1>8. CASE sc_phase = "AWAITING_RMAC_I" /\ f.scs = "SCS_14" /\ HandleRmacI(f)
  <2> DEFINE keys == sc_session.keys
             rmac == InitialRmac(keys, ServerCryptogram(keys, sc_rnd_a, sc_rnd_b))
  <2>1. \/ Ignored \/ HandshakeFails
        \/ /\ f.scb = 1 /\ f.data = rmac /\ sc_session' = SessionSeeded(keys, rmac)
           /\ sc_phase' = "ESTABLISHED" /\ toPd' = toPd
    BY <1>8 DEF HandleRmacI
  <2>2. CASE /\ f.scb = 1 /\ f.data = rmac /\ sc_session' = SessionSeeded(keys, rmac)
             /\ sc_phase' = "ESTABLISHED" /\ toPd' = toPd
    <3>1. sc_session'.keys = keys
      BY <2>2 DEF SessionSeeded
    <3>2. RmacKeys(f.data) = keys
      BY <2>2, Terms
    <3> QED
      BY <1>0, <1>8, <2>2, <3>1, <3>2 DEF SlotEffect, SlotSends, SlotTakes, SlotSeeds, Seeds
  <2> QED
    BY <2>1, <2>2, <1>2, <1>4
<1> QED
  BY <1>1, <1>2, <1>5, <1>6, <1>7, <1>8

\* Every step of the slot.
LEMMA AcuNextEffect ==
    ASSUME TypeOK, AcuNext
    PROVE  SlotEffect
<1>0. WriteOutcomes \subseteq BOOLEAN
  BY DEF WriteOutcomes
<1>1. CASE \E c \in Cmds, wr \in WriteOutcomes : SendCommand(c, wr)
  BY <1>1, <1>0, SendCommandEffect
<1>2. CASE \E sel \in Selectors, wr \in WriteOutcomes : StartScHandshake(sel, wr)
  BY <1>2, <1>0, StartScHandshakeEffect
<1>3. CASE \E a \in Addresses : RegisterPd(a)
  <2>1. SlotIdles /\ UNCHANGED <<nonces, toPd, toAcu>>
    BY <1>3 DEF RegisterPd, countVars, wireVars, SlotIdles
  <2> QED
    BY <2>1 DEF SlotEffect, SlotSends, SlotTakes
<1>4. CASE (\E k \in Keys : SetPdScbk(k)) \/ SetPdScbkD \/ ReplyTimesOut
  <2>1. UNCHANGED <<nonces, toPd, toAcu, sc_phase, sc_rnd_a, sc_session>>
    BY <1>4 DEF SetPdScbk, SetPdScbkD, ReplyTimesOut, countVars, wireVars, scVars
  <2> QED
    BY <2>1 DEF SlotEffect, SlotSends, SlotTakes, SlotKeeps
<1>5. CASE GoOffline
  <2>1. SlotIdles \/ UNCHANGED <<sc_phase, sc_rnd_a, sc_session>>
    BY <1>5 DEF GoOffline, TerminateSc, ResetScHandshake, scVars, SlotIdles
  <2>2. UNCHANGED <<nonces, toPd, toAcu>>
    BY <1>5 DEF GoOffline, countVars, wireVars
  <2> QED
    BY <2>1, <2>2 DEF SlotEffect, SlotSends, SlotTakes, SlotKeeps
<1>6. CASE \E wr \in WriteOutcomes : AcuReceive(wr)
  BY <1>6, <1>0, ReceiveEffect
<1> QED
  BY <1>1, <1>2, <1>3, <1>4, <1>5, <1>6 DEF AcuNext

\* No step of the slot disturbs what is known of the sessions.
LEMMA SlotKeepsKeys ==
    ASSUME KeysInv, SlotEffect, UNCHANGED <<pd_session, got_chlng, cache>>
    PROVE  LineInv' /\ NoncesInOrder(nonces, toPd)' /\ PdKeysInv' /\ SlotKeysInv'
<1>0. /\ IsSeq(toPd) /\ IsSeq(toAcu) /\ nonces \in Nat /\ nonces' \in Nat /\ nonces <= nonces'
      /\ NoncesInOrder(nonces, toPd)
  BY DEF KeysInv, LineInv, SlotKeysInv, SlotEffect
<1>1. /\ IsSeq(toPd)' /\ \A j \in 1..Len(toPd') : IsFrame(toPd'[j])
      /\ NoncesInOrder(nonces', toPd')
      /\ \A K, pk : Known(K, nonces, toPd, pk) => Known(K, nonces', toPd', pk)
  <2>1. CASE toPd' = toPd
    <3>1. \A K, pk : Known(K, nonces, toPd, pk) => Known(K, nonces', toPd, pk)
      BY <1>0 DEF Known
    <3>2. NoncesInOrder(nonces', toPd)
      BY <1>0 DEF NoncesInOrder
    <3> QED
      BY <2>1, <3>1, <3>2, <1>0 DEF KeysInv, LineInv
  <2>2. CASE \E f : /\ toPd' = Append(toPd, f) /\ IsFrame(f)
                    /\ Challenges(f) => f.data[1] = nonces + 1 /\ nonces' = nonces + 1
    <3> PICK f : /\ toPd' = Append(toPd, f) /\ IsFrame(f)
                 /\ Challenges(f) => f.data[1] = nonces + 1 /\ nonces' = nonces + 1
      BY <2>2
    <3>1. Challenges(f) => f.data[1] \in Nat /\ nonces < f.data[1] /\ f.data[1] <= nonces'
      BY <1>0
    <3>2. NoncesInOrder(nonces', Append(toPd, f))
      BY <1>0, <3>1, OrderSent
    <3>3. ASSUME NEW K, NEW pk, Known(K, nonces, toPd, pk)
          PROVE  Known(K, nonces', Append(toPd, f), pk)
      BY <1>0, <3>1, <3>3, KnownSent
    <3>4. IsSeq(Append(toPd, f)) /\ \A j \in 1..Len(Append(toPd, f)) : IsFrame(Append(toPd, f)[j])
      <4> DEFINE t == Append(toPd, f)
      <4>1. /\ IsSeq(t) /\ Len(toPd) \in Nat /\ Len(t) = Len(toPd) + 1
            /\ t[Len(toPd) + 1] = f /\ \A j \in 1..Len(toPd) : t[j] = toPd[j]
        BY <1>0, Appended
      <4> HIDE DEF t
      <4>2. \A j \in 1..Len(t) : j \in 1..Len(toPd) \/ j = Len(toPd) + 1
        BY <4>1
      <4>3. \A j \in 1..Len(toPd) : IsFrame(toPd[j])
        BY DEF KeysInv, LineInv
      <4>4. \A j \in 1..Len(t) : IsFrame(t[j])
        BY <4>1, <4>2, <4>3
      <4> QED
        BY <4>1, <4>4 DEF t
    <3> QED
      BY <3>2, <3>3, <3>4
  <2> QED
    BY <2>1, <2>2 DEF SlotEffect, SlotSends
<1>2. /\ IsSeq(toAcu)' /\ \A j \in 1..Len(toAcu') : IsFrame(toAcu'[j])
      /\ \A j \in 1..Len(toAcu') : SeedsKnown(toAcu'[j], nonces, toPd, pd_session.keys)
  <2>1. CASE toAcu' = toAcu
    BY <2>1, <1>0 DEF KeysInv, LineInv, PdKeysInv
  <2>2. CASE toAcu # <<>> /\ toAcu' = Tail(toAcu)
    <3>1. /\ IsSeq(Tail(toAcu))
          /\ \A j \in 1..Len(Tail(toAcu)) : j + 1 \in 1..Len(toAcu) /\ Tail(toAcu)[j] = toAcu[j + 1]
      BY <2>2, <1>0, Taken
    <3> QED
      BY <3>1, <2>2 DEF KeysInv, LineInv, PdKeysInv
  <2> QED
    BY <2>1, <2>2 DEF SlotEffect, SlotTakes
<1>3. LineInv' /\ NoncesInOrder(nonces, toPd)'
  BY <1>1, <1>2 DEF LineInv
<1>4. PdKeysInv'
  <2>1. \A g : SeedsKnown(g, nonces, toPd, pd_session.keys)
                  => SeedsKnown(g, nonces', toPd', pd_session.keys)
    BY <1>1 DEF SeedsKnown
  <2>2. PdKeysInv /\ pd_session' = pd_session /\ got_chlng' = got_chlng /\ cache' = cache
    BY DEF KeysInv
  <2> QED
    BY <1>1, <1>2, <2>1, <2>2 DEF PdKeysInv
<1>5. SlotKeysInv'
  <2>1. CASE SlotIdles
    BY <2>1, <1>0 DEF SlotKeysInv, SlotIdles
  <2>2. CASE SlotKeeps
    BY <2>2, <1>0, <1>1 DEF SlotKeysInv, SlotKeeps, KeysInv
  <2>3. CASE SlotAsks
    BY <2>3, <1>0 DEF SlotKeysInv, SlotAsks
  <2>4. CASE SlotProves
    BY <2>4, <1>0 DEF SlotKeysInv, SlotProves, KeysInv
  <2>5. CASE SlotSeeds
    <3>1. Head(toAcu) = toAcu[1] /\ 1 \in 1..Len(toAcu)
      BY <2>5, <1>0, Taken DEF SlotSeeds
    <3>2. Known(RmacKeys(Head(toAcu).data), nonces, toPd, pd_session.keys)
      BY <2>5, <3>1 DEF SlotSeeds, KeysInv, PdKeysInv, SeedsKnown
    <3>3. Known(sc_session'.keys, nonces, toPd, pd_session.keys)
      BY <2>5, <3>2 DEF SlotSeeds
    <3> QED
      BY <2>5, <3>3, <1>0 DEF SlotSeeds, SlotKeysInv, KeysInv
  <2> QED
    BY <2>1, <2>2, <2>3, <2>4, <2>5 DEF SlotEffect
<1> QED
  BY <1>3, <1>4, <1>5

-----------------------------------------------------------------------------
(* The PD.                                                                 *)

\* What becomes of an answer.
Replied(f, reply) ==
    /\ toAcu' = toAcu \/ (reply # NoReply /\ toAcu' = Append(toAcu, reply))
    /\ cache' = NoCache \/ \E r \in {reply, NoReply} : cache' = [cmd |-> f, reply |-> r]

\* An answer is a frame, osdp_BUSY is at sequence number 0, and what is sent
\* out of a session is chained from the command.
Answers(f, g) ==
    /\ IsFrame(g)
    /\ g.code = "BUSY" => g.sqn = 0
    /\ g.scs = "SCS_REPLY" => f.scs = "SCS_CMD" /\ g.id = f.id /\ MacIcv(g.mac) = f.mac

\* Where a command leaves the PD's keys.
PdChallenged(f) ==
    /\ Challenges(f) /\ pd_session'.keys # NoKeys /\ Nonce(pd_session'.keys) = f.data[1]
PdSeeds(reply) ==
    /\ got_chlng /\ pd_session'.keys = pd_session.keys
    /\ RmacKeys(reply.data) = pd_session.keys
PdKeeps ==
    /\ pd_session'.keys = pd_session.keys
    /\ pd_session'.established \/ got_chlng' => pd_session.established \/ got_chlng
PdForgets ==
    /\ pd_session'.keys = NoKeys /\ ~pd_session'.established /\ ~got_chlng'

PdEffect(f, reply) ==
    /\ Replied(f, reply)
    /\ reply # NoReply => Answers(f, reply)
    /\ \/ PdSeeds(reply)
       \/ /\ PdChallenged(f) \/ PdKeeps \/ PdForgets
          /\ reply # NoReply => ~Seeds(reply)

LEMMA RefuseReplied ==
    ASSUME NEW f, NEW reply, NEW fits, NEW wr, Refuse(f, reply, fits, wr)
    PROVE  Replied(f, reply)
<1>1. toAcu' = toAcu \/ (reply # NoReply /\ toAcu' = Append(toAcu, reply))
  BY DEF Refuse, Answer, SendBytes
<1>2. cache' = [cmd |-> f, reply |-> reply] \/ cache' = [cmd |-> f, reply |-> NoReply]
  BY DEF Refuse, Answer, CacheReply
<1> QED
  BY <1>1, <1>2, Zenon DEF Replied

LEMMA DispatchedReplied ==
    ASSUME NEW f, NEW v, NEW eff, NEW reply, NEW fits, NEW wr,
           Dispatched(f, v, eff, reply, fits, wr)
    PROVE  Replied(f, reply)
<1>1. toAcu' = toAcu \/ (reply # NoReply /\ toAcu' = Append(toAcu, reply))
  BY DEF Dispatched, SendBytes
<1>2. \/ cache' = NoCache \/ cache' = [cmd |-> f, reply |-> reply]
      \/ cache' = [cmd |-> f, reply |-> NoReply]
  BY DEF Dispatched, CacheReply
<1> QED
  BY <1>1, <1>2, Zenon DEF Replied

LEMMA NakAnswers ==
    ASSUME NEW f, NEW err
    PROVE  Answers(f, BuildNak(f, err)) /\ ~Seeds(BuildNak(f, err))
BY DEF Answers, Seeds, BuildNak, BuildReply, Frame, IsFrame

\* Only the outcome "busy" says osdp_BUSY.
LEMMA SendIsNotBusy ==
    ASSUME NEW f, NEW v \in Verdicts, NEW eff, Dispatch(f, v, eff).kind = "SEND"
    PROVE  Dispatch(f, v, eff).code # "BUSY"
<1>1. v \in {"OK", "NOT_SUPPORTED", "BAD_PAYLOAD", "INVALID_ARG", "BUSY", "OTHER"}
  BY VerdictsAssumption
<1>2. Outcome(v).kind = "SEND" => Outcome(v).code # "BUSY"
  BY <1>1 DEF Outcome
<1> QED
  BY <1>2 DEF Dispatch

LEMMA ChlngEffect ==
    ASSUME TypeOK, NEW f, NEW fits, NEW wr, Challenges(f), HandleChlng(f, fits, wr)
    PROVE  \E reply : PdEffect(f, reply)
<1> DEFINE key  == SelectHandshakeKey(f.scb)
           rndA == f.data[1]
           rndB == pd_nonces + 1
           keys == DeriveSessionKeys(key, rndA)
           ccrypt == BuildHandshakeReply(f, "SCS_12", f.scb, "CCRYPT",
                                         <<rndB, ClientCryptogram(keys, rndA, rndB)>>)
<1>1. CASE key = NoKey
  <2>1. Refuse(f, BuildNak(f, NakScb), fits, wr) /\ UNCHANGED pdScVars
    BY <1>1 DEF HandleChlng
  <2>2. PdKeeps
    BY <2>1 DEF PdKeeps, pdScVars
  <2> QED
    BY <2>1, <2>2, NakAnswers, RefuseReplied DEF PdEffect
<1>2. CASE key # NoKey
  <2>1. /\ Refuse(f, ccrypt, fits, wr)
        /\ pd_session' = [pd_session EXCEPT !.keys = keys, !.established = FALSE]
    BY <1>2 DEF HandleChlng
  <2>2. Answers(f, ccrypt) /\ ~Seeds(ccrypt)
    BY DEF Answers, Seeds, BuildHandshakeReply, Frame, IsFrame
  <2>3. pd_session'.keys = keys
    BY <2>1 DEF TypeOK, PdTypeOK, SessionType
  <2>4. PdChallenged(f)
    BY <2>3, Terms DEF PdChallenged
  <2> HIDE DEF ccrypt
  <2> QED
    BY <2>1, <2>2, <2>4, RefuseReplied DEF PdEffect
<1> QED
  BY <1>1, <1>2

LEMMA ScryptEffect ==
    ASSUME TypeOK, NEW f, NEW fits, NEW wr, HandleScrypt(f, fits, wr)
    PROVE  \E reply : PdEffect(f, reply)
<1> DEFINE keys == pd_session.keys
           rmac == InitialRmac(keys, f.data)
           good == BuildHandshakeReply(f, "SCS_14", 1, "RMAC_I", rmac)
           poor == BuildHandshakeReply(f, "SCS_14", 255, "RMAC_I", <<>>)
<1>1. CASE ~got_chlng
  <2>1. Refuse(f, BuildNak(f, NakScb), fits, wr) /\ UNCHANGED <<pd_session, got_chlng>>
    BY <1>1 DEF HandleScrypt
  <2>2. PdKeeps
    BY <2>1 DEF PdKeeps
  <2> QED
    BY <2>1, <2>2, NakAnswers, RefuseReplied DEF PdEffect
<1>2. CASE got_chlng /\ f.data # ServerCryptogram(keys, pd_rnd_a, pd_rnd_b)
  <2>1. Refuse(f, poor, fits, wr) /\ pd_session' = [pd_session EXCEPT !.established = FALSE]
    BY <1>2 DEF HandleScrypt
  <2>2. Answers(f, poor) /\ ~Seeds(poor)
    BY DEF Answers, Seeds, BuildHandshakeReply, Frame, IsFrame
  <2>3. PdKeeps
    BY <1>2, <2>1 DEF PdKeeps, TypeOK, PdTypeOK, SessionType
  <2> HIDE DEF poor
  <2> QED
    BY <2>1, <2>2, <2>3, RefuseReplied DEF PdEffect
<1>3. CASE got_chlng /\ f.data = ServerCryptogram(keys, pd_rnd_a, pd_rnd_b)
  <2>1. Refuse(f, good, fits, wr) /\ pd_session' = SessionSeeded(keys, rmac)
    BY <1>3 DEF HandleScrypt
  <2>2. Answers(f, good) /\ good.data = rmac
    BY DEF Answers, Seeds, BuildHandshakeReply, Frame, IsFrame
  <2>3. pd_session'.keys = keys
    BY <2>1 DEF SessionSeeded
  <2>4. PdSeeds(good)
    BY <1>3, <2>2, <2>3, Terms DEF PdSeeds
  <2> HIDE DEF good
  <2> QED
    BY <2>1, <2>2, <2>4, RefuseReplied DEF PdEffect
<1> QED
  BY <1>1, <1>2, <1>3

LEMMA OperationalEffect ==
    ASSUME TypeOK, NEW f, NEW v \in Verdicts, NEW eff, NEW fits, NEW wr,
           f.scs = "SCS_CMD", HandleOperational(f, v, eff, fits, wr)
    PROVE  \E reply : PdEffect(f, reply)
<1> DEFINE inner == AfterUnwrap(pd_session, f)
           out   == Dispatch(f, v, eff)
           plain == Frame(f.addr, f.sqn, "SCS_REPLY", 0, out.code, out.data, f.id)
<1>0. got_chlng' = got_chlng
  BY DEF HandleOperational
<1>1. CASE ~(pd_session.established /\ UnwrapOk(pd_session, f))
  <2>1. /\ pd_session' = pd_session
        /\ Refuse(f, BuildNak(f, NakScb), fits, wr) \/ Refuse(f, NoReply, fits, wr)
    BY <1>1 DEF HandleOperational
  <2>2. PdKeeps
    BY <2>1, <1>0 DEF PdKeeps
  <2> QED
    BY <2>1, <2>2, NakAnswers, RefuseReplied DEF PdEffect
<1>2. inner.keys = pd_session.keys /\ inner.established = pd_session.established
      /\ inner.last_inbound_mac = f.mac /\ SessionType(inner)
  BY DEF AfterUnwrap, TypeOK, PdTypeOK, SessionType
<1> HIDE DEF inner
<1>3. CASE pd_session.established /\ UnwrapOk(pd_session, f) /\ out.kind = "SEND"
  <2>1. /\ pd_session' = AfterWrap(inner, plain)
        /\ Dispatched(f, v, eff, Wrap(inner, plain), fits, wr)
    BY <1>3 DEF HandleOperational, inner
  <2>2. PdKeeps
    BY <2>1, <1>0, <1>2, <1>3 DEF PdKeeps, AfterWrap, SessionType
  <2>3. /\ IsFrame(plain) /\ plain.code = out.code /\ plain.scs = "SCS_REPLY" /\ plain.id = f.id
        /\ out.code # "BUSY"
    BY <1>3, SendIsNotBusy DEF Frame, IsFrame
  <2> HIDE DEF plain
  <2> DEFINE mac == ComputeMac(inner.keys, inner.last_inbound_mac, plain)
  <2>4. MacIcv(mac) = f.mac
    BY <1>2, Terms
  <2>5. Wrap(inner, plain) = [plain EXCEPT !.mac = mac]
    BY DEF Wrap
  <2> HIDE DEF mac, out
  <2>6. Answers(f, [plain EXCEPT !.mac = mac]) /\ ~Seeds([plain EXCEPT !.mac = mac])
    BY <2>3, <2>4 DEF Answers, Seeds, IsFrame
  <2>7. Replied(f, Wrap(inner, plain))
    BY <2>1, DispatchedReplied
  <2> QED
    BY <2>2, <2>5, <2>6, <2>7 DEF PdEffect
<1>4. CASE pd_session.established /\ UnwrapOk(pd_session, f) /\ out.kind \in {"BUSY", "DROP"}
  <2>1. /\ pd_session' = inner
        /\ \/ Dispatched(f, v, eff, BuildBusy(f), fits, wr)
           \/ Dispatched(f, v, eff, NoReply, fits, wr)
    BY <1>4 DEF HandleOperational, inner
  <2>2. PdKeeps
    BY <2>1, <1>0, <1>2, <1>4 DEF PdKeeps
  <2>3. Answers(f, BuildBusy(f)) /\ ~Seeds(BuildBusy(f))
    BY DEF Answers, Seeds, BuildBusy, Frame, IsFrame
  <2>4. Replied(f, BuildBusy(f)) \/ Replied(f, NoReply)
    BY <2>1, DispatchedReplied
  <2> QED
    BY <2>2, <2>3, <2>4 DEF PdEffect
<1> QED
  BY <1>1, <1>3, <1>4, DispatchKind

LEMMA ClearEffect ==
    ASSUME TypeOK, NEW f, NEW v \in Verdicts, NEW eff, NEW fits, NEW wr,
           HandleClear(f, v, eff, fits, wr)
    PROVE  \E reply : PdEffect(f, reply)
<1> DEFINE out == Dispatch(f, v, eff)
<1>1. PdKeeps \/ PdForgets
  <2>1. CASE pd_session.established
    <3>1. pd_session' = SessionInit /\ got_chlng' = FALSE
      BY <2>1 DEF HandleClear
    <3> QED
      BY <3>1 DEF PdForgets, SessionInit
  <2>2. CASE ~pd_session.established
    <3>1. pd_session' = pd_session /\ got_chlng' = got_chlng
      BY <2>2 DEF HandleClear
    <3> QED
      BY <3>1 DEF PdKeeps
  <2> QED
    BY <2>1, <2>2
<1>2. \/ Refuse(f, BuildNak(f, NakEncryption), fits, wr)
      \/ out.kind = "SEND" /\ Dispatched(f, v, eff, BuildReply(f, out.code, out.data), fits, wr)
      \/ Dispatched(f, v, eff, BuildBusy(f), fits, wr)
      \/ Dispatched(f, v, eff, NoReply, fits, wr)
  <2>1. out.kind \in {"SEND", "BUSY", "DROP"}
    BY DispatchKind
  <2> QED
    BY <2>1 DEF HandleClear
<1>3. /\ Answers(f, BuildBusy(f)) /\ ~Seeds(BuildBusy(f))
      /\ Answers(f, BuildNak(f, NakEncryption)) /\ ~Seeds(BuildNak(f, NakEncryption))
  BY NakAnswers DEF Answers, Seeds, BuildBusy, Frame, IsFrame
<1>4. CASE out.kind = "SEND" /\ Dispatched(f, v, eff, BuildReply(f, out.code, out.data), fits, wr)
  <2>1. out.code # "BUSY"
    BY <1>4, SendIsNotBusy
  <2>2. Replied(f, BuildReply(f, out.code, out.data))
    BY <1>4, DispatchedReplied
  <2> HIDE DEF out
  <2>3. Answers(f, BuildReply(f, out.code, out.data)) /\ ~Seeds(BuildReply(f, out.code, out.data))
    BY <2>1 DEF Answers, Seeds, BuildReply, Frame, IsFrame
  <2> QED
    BY <2>2, <2>3, <1>1 DEF PdEffect
<1> QED
  BY <1>1, <1>2, <1>3, <1>4, RefuseReplied, DispatchedReplied DEF PdEffect

LEMMA PdFreshEffect ==
    ASSUME TypeOK, NEW v \in Verdicts, NEW fits, NEW wr, PdFresh(v, fits, wr)
    PROVE  \E reply : PdEffect(Head(toPd), reply)
<1> DEFINE f == Head(toPd)
<1>1. \/ Refuse(f, BuildNak(f, NakScb), fits, wr) /\ UNCHANGED pdScVars
      \/ \E eff \in EffectiveAddresses(f) : HandleClear(f, v, eff, fits, wr)
      \/ Challenges(f) /\ HandleChlng(f, fits, wr)
      \/ HandleScrypt(f, fits, wr)
      \/ \E eff \in EffectiveAddresses(f) :
            f.scs = "SCS_CMD" /\ HandleOperational(f, v, eff, fits, wr)
  BY DEF PdFresh, Challenges
<1>2. CASE Refuse(f, BuildNak(f, NakScb), fits, wr) /\ UNCHANGED pdScVars
  <2>1. PdKeeps
    BY <1>2 DEF PdKeeps, pdScVars
  <2> QED
    BY <1>2, <2>1, NakAnswers, RefuseReplied DEF PdEffect
<1> QED
  BY <1>1, <1>2, ClearEffect, ChlngEffect, ScryptEffect, OperationalEffect

\* A frame leaves the line to the PD, and what is known moves with it: the PD's
\* keys stay, are forgotten, or are those of the challenge it took.
LEMMA PdKeepsKeys ==
    ASSUME KeysInv, toPd # <<>>, toPd' = Tail(toPd), NEW reply, PdEffect(Head(toPd), reply),
           UNCHANGED <<nonces, sc_phase, sc_rnd_a, sc_session>>
    PROVE  LineInv' /\ NoncesInOrder(nonces, toPd)' /\ PdKeysInv' /\ SlotKeysInv'
<1> DEFINE f == Head(toPd)
<1>0. IsSeq(toPd) /\ IsSeq(toAcu) /\ nonces \in Nat /\ NoncesInOrder(nonces, toPd)
  BY DEF KeysInv, LineInv, SlotKeysInv
<1>1. /\ IsSeq(toPd') /\ NoncesInOrder(nonces, toPd')
      /\ \A j \in 1..Len(toPd') : j + 1 \in 1..Len(toPd) /\ toPd'[j] = toPd[j + 1]
  BY <1>0, OrderTaken, Taken
<1>2. \A K : Known(K, nonces, toPd, pd_session.keys) => Known(K, nonces, toPd', pd_session.keys)
  BY <1>0, KnownTaken
<1>3. \A K : Known(K, nonces, toPd, pd_session.keys) => Known(K, nonces, toPd', pd_session'.keys)
  <2>1. CASE PdChallenged(f)
    BY <2>1, <1>0, KnownChallenged DEF PdChallenged
  <2>2. CASE pd_session'.keys = pd_session.keys
    BY <2>2, <1>2
  <2>3. CASE pd_session'.keys = NoKeys
    BY <2>3, <1>2, KnownForgotten
  <2> QED
    BY <2>1, <2>2, <2>3 DEF PdEffect, PdSeeds, PdKeeps, PdForgets
<1>4. \A g : SeedsKnown(g, nonces, toPd, pd_session.keys)
                => SeedsKnown(g, nonces, toPd', pd_session'.keys)
  BY <1>3 DEF SeedsKnown
<1>5. reply # NoReply => IsFrame(reply) /\ SeedsKnown(reply, nonces, toPd', pd_session'.keys)
  <2>1. CASE PdSeeds(reply)
    <3>1. pd_session.keys # NoKeys
      BY <2>1 DEF PdSeeds, KeysInv, PdKeysInv
    <3>2. Known(pd_session.keys, nonces, toPd', pd_session'.keys)
      BY <1>3, <3>1 DEF KeysInv, PdKeysInv
    <3> QED
      BY <2>1, <3>2 DEF PdSeeds, SeedsKnown, PdEffect, Answers
  <2>2. CASE reply # NoReply => ~Seeds(reply)
    BY <2>2 DEF SeedsKnown, PdEffect, Answers
  <2> QED
    BY <2>1, <2>2 DEF PdEffect
<1>6. /\ IsSeq(toAcu')
      /\ \A j \in 1..Len(toAcu') :
            IsFrame(toAcu'[j]) /\ SeedsKnown(toAcu'[j], nonces, toPd', pd_session'.keys)
  <2>0. \A j \in 1..Len(toAcu) :
            IsFrame(toAcu[j]) /\ SeedsKnown(toAcu[j], nonces, toPd', pd_session'.keys)
    BY <1>4 DEF KeysInv, LineInv, PdKeysInv
  <2>1. CASE toAcu' = toAcu
    BY <2>0, <2>1, <1>0
  <2>2. CASE reply # NoReply /\ toAcu' = Append(toAcu, reply)
    <3>1. /\ IsSeq(toAcu') /\ Len(toAcu) \in Nat /\ Len(toAcu') = Len(toAcu) + 1
          /\ toAcu'[Len(toAcu) + 1] = reply /\ \A j \in 1..Len(toAcu) : toAcu'[j] = toAcu[j]
      BY <2>2, <1>0, Appended
    <3>2. \A j \in 1..Len(toAcu') : j \in 1..Len(toAcu) \/ j = Len(toAcu) + 1
      BY <3>1
    <3> QED
      BY <3>1, <3>2, <2>0, <2>2, <1>5
  <2> QED
    BY <2>1, <2>2 DEF PdEffect, Replied
<1>7. LineInv' /\ NoncesInOrder(nonces, toPd)'
  BY <1>1, <1>6 DEF LineInv, KeysInv
<1>8. SlotKeysInv'
  BY <1>3 DEF SlotKeysInv, KeysInv
<1>9. PdKeysInv'
  <2>1. pd_session'.keys # NoKeys => Known(pd_session'.keys, nonces, toPd', pd_session'.keys)
    <3>1. CASE PdChallenged(f)
      BY <3>1, <1>0, ChallengeKnown DEF PdChallenged
    <3>2. CASE pd_session'.keys = pd_session.keys
      BY <3>2, <1>3 DEF KeysInv, PdKeysInv
    <3> QED
      BY <3>1, <3>2 DEF PdEffect, PdSeeds, PdKeeps, PdForgets
  <2>2. got_chlng' \/ pd_session'.established => pd_session'.keys # NoKeys
    BY DEF PdEffect, PdSeeds, PdKeeps, PdForgets, PdChallenged, KeysInv, PdKeysInv
  <2>3. cache' # NoCache /\ cache'.reply # NoReply
            => SeedsKnown(cache'.reply, nonces, toPd', pd_session'.keys) /\ IsFrame(cache'.reply)
    BY <1>5 DEF PdEffect, Replied
  <2> QED
    BY <2>1, <2>2, <2>3, <1>6 DEF PdKeysInv
<1> QED
  BY <1>7, <1>8, <1>9

\* A frame that is corrupted or swallowed on the line.
LEMMA WireKeepsKeys ==
    ASSUME KeysInv, WireNext, UNCHANGED <<pd_session, got_chlng, cache, nonces, sc_phase, sc_rnd_a,
                                          sc_session>>
    PROVE  LineInv' /\ NoncesInOrder(nonces, toPd)' /\ PdKeysInv' /\ SlotKeysInv'
<1>0. /\ IsSeq(toPd) /\ IsSeq(toAcu) /\ NoncesInOrder(nonces, toPd)
      /\ \A j \in 1..Len(toPd) : IsFrame(toPd[j])
      /\ \A j \in 1..Len(toAcu) :
            IsFrame(toAcu[j]) /\ SeedsKnown(toAcu[j], nonces, toPd, pd_session.keys)
  BY DEF KeysInv, LineInv, PdKeysInv
<1> DEFINE x == [Head(toPd) EXCEPT !.bad = TRUE]
           y == [Head(toAcu) EXCEPT !.bad = TRUE]
<1>1. /\ IsSeq(toPd') /\ NoncesInOrder(nonces, toPd')
      /\ \A j \in 1..Len(toPd') : IsFrame(toPd'[j])
      /\ \A K : Known(K, nonces, toPd, pd_session.keys) => Known(K, nonces, toPd', pd_session.keys)
  <2>1. CASE toPd' = toPd
    BY <2>1, <1>0
  <2>2. CASE toPd # <<>> /\ toPd' = Tail(toPd)
    <3>1. /\ IsSeq(toPd')
          /\ \A j \in 1..Len(toPd') : j + 1 \in 1..Len(toPd) /\ toPd'[j] = toPd[j + 1]
      BY <2>2, <1>0, Taken
    <3> QED
      BY <2>2, <3>1, <1>0, OrderTaken, KnownTaken
  <2>3. CASE toPd # <<>> /\ toPd' = <<x>> \o Tail(toPd)
    <3>1. Head(toPd) = toPd[1] /\ 1 \in 1..Len(toPd) /\ Len(toPd) \in Nat
      BY <2>3, <1>0, Taken
    <3>2. IsFrame(x) /\ x.scs = Head(toPd).scs /\ x.data = Head(toPd).data
      BY <3>1, <1>0, Corrupted
    <3> HIDE DEF x
    <3>3. /\ IsSeq(toPd') /\ Len(toPd') = Len(toPd) /\ toPd'[1] = x
          /\ \A j \in 2..Len(toPd) : toPd'[j] = toPd[j]
      BY <2>3, <1>0, Replaced
    <3>4. \A j \in 1..Len(toPd') : j = 1 \/ j \in 2..Len(toPd)
      BY <3>1, <3>3
    <3>5. \A j \in 1..Len(toPd') : IsFrame(toPd'[j])
      BY <3>1, <3>2, <3>3, <3>4, <1>0
    <3> QED
      BY <2>3, <3>2, <3>3, <3>5, <1>0, OrderReplaced, KnownReplaced
  <2> QED
    BY <2>1, <2>2, <2>3 DEF WireNext, Lose, Corrupt
<1>2. \A g : SeedsKnown(g, nonces, toPd, pd_session.keys)
                => SeedsKnown(g, nonces, toPd', pd_session.keys)
  BY <1>1 DEF SeedsKnown
<1>3. /\ IsSeq(toAcu')
      /\ \A j \in 1..Len(toAcu') :
            IsFrame(toAcu'[j]) /\ SeedsKnown(toAcu'[j], nonces, toPd', pd_session.keys)
  <2>1. CASE toAcu' = toAcu
    BY <2>1, <1>0, <1>2
  <2>2. CASE toAcu # <<>> /\ toAcu' = Tail(toAcu)
    <3>1. /\ IsSeq(toAcu')
          /\ \A j \in 1..Len(toAcu') : j + 1 \in 1..Len(toAcu) /\ toAcu'[j] = toAcu[j + 1]
      BY <2>2, <1>0, Taken
    <3> QED
      BY <3>1, <1>0, <1>2
  <2>3. CASE toAcu # <<>> /\ toAcu' = <<y>> \o Tail(toAcu)
    <3>1. Head(toAcu) = toAcu[1] /\ 1 \in 1..Len(toAcu) /\ Len(toAcu) \in Nat
      BY <2>3, <1>0, Taken
    <3>2. IsFrame(y) /\ y.scs = Head(toAcu).scs /\ y.scb = Head(toAcu).scb /\ y.data = Head(toAcu).data
      BY <3>1, <1>0, Corrupted
    <3> HIDE DEF y
    <3>3. /\ IsSeq(toAcu') /\ Len(toAcu') = Len(toAcu) /\ toAcu'[1] = y
          /\ \A j \in 2..Len(toAcu) : toAcu'[j] = toAcu[j]
      BY <2>3, <1>0, Replaced
    <3>4. \A j \in 1..Len(toAcu') : j = 1 \/ j \in 2..Len(toAcu)
      BY <3>1, <3>3
    <3>5. SeedsKnown(y, nonces, toPd', pd_session.keys)
      BY <3>1, <3>2, <1>0, <1>2 DEF SeedsKnown, Seeds
    <3> QED
      BY <3>1, <3>2, <3>3, <3>4, <3>5, <1>0, <1>2
  <2> QED
    BY <2>1, <2>2, <2>3 DEF WireNext, Lose, Corrupt
<1>4. LineInv' /\ NoncesInOrder(nonces, toPd)'
  BY <1>1, <1>3 DEF LineInv
<1>5. PdKeysInv'
  BY <1>1, <1>2, <1>3 DEF PdKeysInv, KeysInv
<1>6. SlotKeysInv'
  BY <1>1 DEF SlotKeysInv, KeysInv
<1> QED
  BY <1>4, <1>5, <1>6

\* A step of the PD that leaves its keys and its cache alone: a failing check, a
\* frame for another PD, a retransmit.
LEMMA AnswerKeepsKeys ==
    ASSUME KeysInv, toPd # <<>>, toPd' = Tail(toPd), NEW g,
           toAcu' = toAcu \/ toAcu' = Append(toAcu, g),
           toAcu' # toAcu => IsFrame(g) /\ SeedsKnown(g, nonces, toPd, pd_session.keys),
           UNCHANGED <<pd_session, got_chlng, cache, nonces, sc_phase, sc_rnd_a, sc_session>>
    PROVE  LineInv' /\ NoncesInOrder(nonces, toPd)' /\ PdKeysInv' /\ SlotKeysInv'
<1>0. /\ IsSeq(toPd) /\ IsSeq(toAcu) /\ NoncesInOrder(nonces, toPd)
      /\ \A j \in 1..Len(toPd) : IsFrame(toPd[j])
      /\ \A j \in 1..Len(toAcu) :
            IsFrame(toAcu[j]) /\ SeedsKnown(toAcu[j], nonces, toPd, pd_session.keys)
  BY DEF KeysInv, LineInv, PdKeysInv
<1>1. /\ IsSeq(toPd') /\ NoncesInOrder(nonces, toPd')
      /\ \A j \in 1..Len(toPd') : j + 1 \in 1..Len(toPd) /\ toPd'[j] = toPd[j + 1]
  BY <1>0, OrderTaken, Taken
<1>2. \A K : Known(K, nonces, toPd, pd_session.keys) => Known(K, nonces, toPd', pd_session.keys)
  BY <1>0, KnownTaken
<1>3. \A h : SeedsKnown(h, nonces, toPd, pd_session.keys)
                => SeedsKnown(h, nonces, toPd', pd_session.keys)
  BY <1>2 DEF SeedsKnown
<1>4. /\ IsSeq(toAcu')
      /\ \A j \in 1..Len(toAcu') :
            IsFrame(toAcu'[j]) /\ SeedsKnown(toAcu'[j], nonces, toPd', pd_session.keys)
  <2>1. CASE toAcu' = toAcu
    BY <2>1, <1>0, <1>3
  <2>2. CASE toAcu' # toAcu
    <3>0. toAcu' = Append(toAcu, g)
      BY <2>2
    <3>1. /\ IsSeq(toAcu') /\ Len(toAcu) \in Nat /\ Len(toAcu') = Len(toAcu) + 1
          /\ toAcu'[Len(toAcu) + 1] = g /\ \A j \in 1..Len(toAcu) : toAcu'[j] = toAcu[j]
      BY <3>0, <1>0, Appended
    <3>2. \A j \in 1..Len(toAcu') : j \in 1..Len(toAcu) \/ j = Len(toAcu) + 1
      BY <3>1
    <3> QED
      BY <3>1, <3>2, <2>2, <1>0, <1>3
  <2> QED
    BY <2>1, <2>2
<1>5. LineInv' /\ NoncesInOrder(nonces, toPd)'
  BY <1>0, <1>1, <1>4 DEF LineInv
<1>6. PdKeysInv'
  BY <1>2, <1>3, <1>4 DEF PdKeysInv, KeysInv
<1>7. SlotKeysInv'
  BY <1>2 DEF SlotKeysInv, KeysInv
<1> QED
  BY <1>5, <1>6, <1>7

\* What PdBadCheck, PdNotOurs and PdRetransmit send: nothing, a NAK or the
\* cached reply.
LEMMA AnswerSent ==
    ASSUME NEW wr, PdBadCheck(wr) \/ PdNotOurs \/ PdRetransmit(wr)
    PROVE  /\ toPd # <<>> /\ toPd' = Tail(toPd)
           /\ UNCHANGED <<pd_address, pd_session, got_chlng, cache, runs, excused>>
           /\ \/ toAcu' = toAcu
              \/ toAcu' = Append(toAcu, BuildNak(Head(toPd), NakBadCheck))
              \/ /\ cache # NoCache /\ cache.reply # NoReply /\ IsRetransmit(Head(toPd))
                 /\ toAcu' = Append(toAcu, cache.reply)
<1>1. CASE PdBadCheck(wr)
  <2>1. /\ PdTakes(Head(toPd)) /\ UNCHANGED <<pd_address, pdScVars, cache, runVars>>
        /\ SendBytes(IF Head(toPd).addr = pd_address THEN BuildNak(Head(toPd), NakBadCheck)
                                                     ELSE NoReply, wr)
    BY <1>1 DEF PdBadCheck
  <2>2. toAcu' = toAcu \/ toAcu' = Append(toAcu, BuildNak(Head(toPd), NakBadCheck))
    BY <2>1, Zenon DEF SendBytes
  <2> QED
    BY <2>1, <2>2 DEF PdTakes, pdScVars, runVars
<1>2. CASE PdNotOurs
  BY <1>2 DEF PdNotOurs, PdTakes, pdScVars, runVars
<1>3. CASE PdRetransmit(wr)
  <2>1. /\ PdTakes(Head(toPd)) /\ UNCHANGED <<pd_address, pdScVars, cache, runVars>>
        /\ SendBytes(cache.reply, wr) /\ IsRetransmit(Head(toPd))
    BY <1>3 DEF PdRetransmit
  <2>2. toAcu' = toAcu \/ (cache.reply # NoReply /\ toAcu' = Append(toAcu, cache.reply))
    BY <2>1, Zenon DEF SendBytes
  <2>3. cache # NoCache
    BY <2>1 DEF IsRetransmit
  <2> QED
    BY <2>1, <2>2, <2>3 DEF PdTakes, pdScVars, runVars
<1> QED
  BY <1>1, <1>2, <1>3

\* The PD's other two steps: it drops its cache, and on a restart everything.
LEMMA ForgettingKeepsKeys ==
    ASSUME KeysInv, cache' = NoCache, UNCHANGED <<toPd, toAcu, nonces, sc_phase, sc_rnd_a, sc_session>>,
           UNCHANGED <<pd_session, got_chlng>> \/ PdForgets
    PROVE  LineInv' /\ NoncesInOrder(nonces, toPd)' /\ PdKeysInv' /\ SlotKeysInv'
<1>1. \A K : Known(K, nonces, toPd, pd_session.keys) => Known(K, nonces, toPd, pd_session'.keys)
  BY KnownForgotten DEF PdForgets
<1>2. \A g : SeedsKnown(g, nonces, toPd, pd_session.keys)
                => SeedsKnown(g, nonces, toPd, pd_session'.keys)
  BY <1>1 DEF SeedsKnown
<1>3. LineInv' /\ NoncesInOrder(nonces, toPd)'
  BY DEF KeysInv, LineInv
<1>4. SlotKeysInv'
  BY <1>1 DEF KeysInv, SlotKeysInv
<1>5. PdKeysInv'
  BY <1>1, <1>2 DEF KeysInv, PdKeysInv, PdForgets
<1> QED
  BY <1>3, <1>4, <1>5

LEMMA PdNextKeepsKeys ==
    ASSUME KeysInv, PdNext, UNCHANGED acuVars
    PROVE  LineInv' /\ NoncesInOrder(nonces, toPd)' /\ PdKeysInv' /\ SlotKeysInv'
<1>0. UNCHANGED <<nonces, sc_phase, sc_rnd_a, sc_session>> /\ TypeOK
  BY DEF acuVars, scVars, countVars, KeysInv
<1>1. CASE \E v \in Verdicts, fits \in ReplyFits, wr \in WriteOutcomes : PdFresh(v, fits, wr)
  <2>1. \E reply : PdEffect(Head(toPd), reply)
    BY <1>0, <1>1, PdFreshEffect
  <2>2. toPd # <<>> /\ toPd' = Tail(toPd)
    BY <1>1 DEF PdFresh, PdTakes
  <2> QED
    BY <2>1, <2>2, <1>0, PdKeepsKeys
<1>2. CASE \E wr \in WriteOutcomes : PdBadCheck(wr) \/ PdNotOurs \/ PdRetransmit(wr)
  <2> DEFINE nak == BuildNak(Head(toPd), NakBadCheck)
  <2>1. /\ toPd # <<>> /\ toPd' = Tail(toPd) /\ UNCHANGED <<pd_session, got_chlng, cache>>
        /\ \/ toAcu' = toAcu \/ toAcu' = Append(toAcu, nak)
           \/ /\ cache # NoCache /\ cache.reply # NoReply
              /\ toAcu' = Append(toAcu, cache.reply)
    BY <1>2, AnswerSent
  <2>2. IsFrame(nak) /\ SeedsKnown(nak, nonces, toPd, pd_session.keys)
    BY NakAnswers DEF SeedsKnown, Answers
  <2> HIDE DEF nak
  <2>3. CASE toAcu' = toAcu \/ toAcu' = Append(toAcu, nak)
    BY <2>1, <2>2, <2>3, <1>0, AnswerKeepsKeys
  <2>4. CASE cache # NoCache /\ cache.reply # NoReply /\ toAcu' = Append(toAcu, cache.reply)
    <3>1. IsFrame(cache.reply) /\ SeedsKnown(cache.reply, nonces, toPd, pd_session.keys)
      BY <2>4 DEF KeysInv, PdKeysInv
    <3> QED
      BY <2>1, <2>4, <3>1, <1>0, AnswerKeepsKeys
  <2> QED
    BY <2>1, <2>3, <2>4
<1>3. CASE PdGoOffline
  BY <1>0, <1>3, ForgettingKeepsKeys DEF PdGoOffline, ForgetCache, pdScVars, wireVars
<1>4. CASE PdRestart
  <2>1. PdForgets
    BY <1>4 DEF PdRestart, PdForgets, SessionInit
  <2> QED
    BY <1>0, <1>4, <2>1, ForgettingKeepsKeys DEF PdRestart, ForgetCache, wireVars
<1>5. CASE PdNotOurs
  BY <1>2, <1>5 DEF WriteOutcomes
<1> QED
  BY <1>1, <1>2, <1>3, <1>4, <1>5 DEF PdNext

\* KeysInv is inductive (its first conjunct, TypeOK, is TypesHold).
LEMMA KeysStep ==
    ASSUME KeysInv, TypeOK', [Next]_vars
    PROVE  KeysInv'
<1>1. CASE AcuNext /\ UNCHANGED pdVars
  <2>1. UNCHANGED <<pd_session, got_chlng, cache>>
    BY <1>1 DEF pdVars, pdScVars
  <2> QED
    BY <1>1, <2>1, AcuNextEffect, SlotKeepsKeys DEF KeysInv
<1>2. CASE PdNext /\ UNCHANGED acuVars
  BY <1>2, PdNextKeepsKeys DEF KeysInv
<1>3. CASE WireNext /\ UNCHANGED <<acuVars, pdVars>>
  <2>1. UNCHANGED <<pd_session, got_chlng, cache, nonces, sc_phase, sc_rnd_a, sc_session>>
    BY <1>3 DEF pdVars, pdScVars, acuVars, scVars, countVars
  <2> QED
    BY <1>3, <2>1, WireKeepsKeys DEF KeysInv
<1>4. CASE Tick \/ UNCHANGED vars
  <2>1. UNCHANGED <<pd_session, got_chlng, cache, nonces, sc_phase, sc_rnd_a, sc_session, toPd, toAcu>>
    BY <1>4 DEF Tick, vars, pdVars, pdScVars, acuVars, scVars, countVars, wireVars
  <2> QED
    BY <2>1 DEF KeysInv, LineInv, PdKeysInv, SlotKeysInv
<1> QED
  BY <1>1, <1>2, <1>3, <1>4 DEF Next

LEMMA KeysInit == Init => KeysInv
<1> SUFFICES ASSUME Init PROVE KeysInv
  OBVIOUS
<1>1. /\ toPd = <<>> /\ toAcu = <<>> /\ nonces = 0 /\ sc_phase = "IDLE" /\ got_chlng = FALSE
      /\ pd_session = SessionInit /\ cache = NoCache
  BY DEF Init, WireInit, AcuInit, PdInit
<1>2. pd_session.keys = NoKeys /\ pd_session.established = FALSE
  BY <1>1 DEF SessionInit
<1>3. IsSeq(<<>>) /\ Len(<<>>) = 0
  BY DEF IsSeq
<1>4. LineInv /\ NoncesInOrder(nonces, toPd)
  BY <1>1, <1>3 DEF LineInv, NoncesInOrder
<1>5. PdKeysInv /\ SlotKeysInv
  BY <1>1, <1>2, <1>3 DEF PdKeysInv, SlotKeysInv
<1> QED
  BY <1>4, <1>5, TypesInit DEF KeysInv

\* The invariant behind session agreement holds in every state.
THEOREM KeysAlwaysKnown == Spec => []KeysInv
<1>1. KeysInv /\ TypeOK' /\ [Next]_vars => KeysInv'
  BY KeysStep
<1> QED
  BY <1>1, KeysInit, TypesHold, PTL DEF Spec

\* Two ends that both consider their session established use the same session
\* keys, whatever was lost, corrupted, delayed, replayed from the retransmit
\* cache, restarted, re-registered or re-keyed on the way, and for any keys,
\* timeouts and number of handshakes: the keys of an R-MAC the slot accepts
\* are those of the last challenge the PD took, or of none it still holds.
THEOREM SessionsAgree == Spec => []SessionAgreement
<1>1. KeysInv => SessionAgreement
  <2> SUFFICES ASSUME KeysInv, sc_phase = "ESTABLISHED", pd_session.established
               PROVE  sc_session.keys = pd_session.keys
    BY DEF SessionAgreement
  <2>1. /\ Nonce(sc_session.keys) = nonces /\ nonces \in Nat
        /\ Known(sc_session.keys, nonces, toPd, pd_session.keys)
    BY DEF KeysInv, SlotKeysInv
  <2>2. /\ pd_session.keys # NoKeys
        /\ Known(pd_session.keys, nonces, toPd, pd_session.keys)
    BY DEF KeysInv, PdKeysInv
  <2> QED
    BY <2>1, <2>2 DEF Known
<1> QED
  BY <1>1, KeysAlwaysKnown, PTL

-----------------------------------------------------------------------------
(* Replies out of a session: the ids of the history and the MACs on the line *)
(* tell the same story.                                                      *)

\* A command on the line carries the MAC of its instance.
CmdLogged(f, l) ==
    /\ f.id # 0 => f.id \in 1..Len(l) /\ l[f.id] = f.mac
    /\ f.scs \in {"NONE", "SCS_CMD"} => f.id # 0

\* A reply out of a session is chained from the MAC of the command it answers.
RplLogged(g, l) ==
    /\ g.code = "BUSY" => g.sqn = 0
    /\ g.scs = "SCS_REPLY" => g.id \in 1..Len(l) /\ MacIcv(g.mac) = l[g.id]

\* The slot expects an answer chained from the frame it sent last.
TxLogged ==
    /\ IsFrame(tx)
    /\ tx.id # 0 => tx.id \in 1..Len(log) /\ log[tx.id] = tx.mac
    /\ waiting \/ timed_out => (tx.scs \in {"NONE", "SCS_CMD"} => tx.id # 0)
    /\ waiting /\ sc_phase = "ESTABLISHED"
          => tx.id # 0 /\ tx.mac = sc_session.last_outbound_mac

DeliveredLogged ==
    delivered.secure => /\ delivered.id \in 1..Len(log) /\ delivered.cmd \in 1..Len(log)
                        /\ log[delivered.id] = log[delivered.cmd]

LogInv ==
    /\ IsSeq(log)
    /\ \A j \in 1..Len(toPd) : CmdLogged(toPd[j], log)
    /\ \A j \in 1..Len(toAcu) : RplLogged(toAcu[j], log)
    /\ cache # NoCache /\ cache.reply # NoReply => RplLogged(cache.reply, log)
    /\ TxLogged
    /\ DeliveredLogged

\* What noise does to the frames on the line.
SameButBad(x, y) ==
    /\ x.addr = y.addr /\ x.sqn = y.sqn /\ x.scs = y.scs /\ x.scb = y.scb
    /\ x.code = y.code /\ x.data = y.data /\ x.mac = y.mac /\ x.id = y.id

FromLine(new, old) ==
    \A j \in 1..Len(new) : \E i \in 1..Len(old) : SameButBad(new[j], old[i])

LEMMA FromLineCases ==
    ASSUME NEW s, IsSeq(s), \A j \in 1..Len(s) : IsFrame(s[j])
    PROVE  /\ FromLine(s, s)
           /\ s # <<>> => FromLine(Tail(s), s)
           /\ s # <<>> => FromLine(<<[Head(s) EXCEPT !.bad = TRUE]>> \o Tail(s), s)
<1>1. FromLine(s, s)
  BY DEF FromLine, SameButBad
<1>2. ASSUME s # <<>> PROVE FromLine(Tail(s), s)
  <2>1. \A j \in 1..Len(Tail(s)) : j + 1 \in 1..Len(s) /\ Tail(s)[j] = s[j + 1]
    BY <1>2, Taken
  <2> QED
    BY <2>1 DEF FromLine, SameButBad
<1>3. ASSUME s # <<>> PROVE FromLine(<<[Head(s) EXCEPT !.bad = TRUE]>> \o Tail(s), s)
  <2> DEFINE x == [Head(s) EXCEPT !.bad = TRUE]
             t == <<x>> \o Tail(s)
  <2>1. Head(s) = s[1] /\ 1 \in 1..Len(s) /\ Len(s) \in Nat
    BY <1>3, Taken
  <2>2. SameButBad(x, s[1])
    BY <2>1, Corrupted DEF SameButBad
  <2> HIDE DEF x
  <2>3. Len(t) = Len(s) /\ t[1] = x /\ \A j \in 2..Len(s) : t[j] = s[j]
    BY <1>3, Replaced
  <2> HIDE DEF t
  <2>4. ASSUME NEW j \in 1..Len(t) PROVE \E i \in 1..Len(s) : SameButBad(t[j], s[i])
    <3>1. CASE j = 1
      BY <3>1, <2>1, <2>2, <2>3
    <3>2. CASE j # 1
      <4>1. j \in 2..Len(s) /\ j \in 1..Len(s)
        BY <3>2, <2>1, <2>3
      <4> QED
        BY <4>1, <2>3 DEF SameButBad
    <3> QED
      BY <3>1, <3>2
  <2> QED
    BY <2>4 DEF FromLine, t, x
<1> QED
  BY <1>1, <1>2, <1>3

\* The log only grows.
LEMMA LogGrows ==
    ASSUME NEW l, IsSeq(l), NEW m
    PROVE  /\ \A f : CmdLogged(f, l) => CmdLogged(f, Append(l, m))
           /\ \A g : RplLogged(g, l) => RplLogged(g, Append(l, m))
<1>1. /\ Len(l) \in Nat /\ Len(Append(l, m)) = Len(l) + 1
      /\ \A j \in 1..Len(l) : Append(l, m)[j] = l[j]
  BY Appended
<1>2. \A j \in 1..Len(l) : j \in 1..Len(Append(l, m))
  BY <1>1
<1> QED
  BY <1>1, <1>2 DEF CmdLogged, RplLogged

-----------------------------------------------------------------------------
(* What a step of the slot means for the log.                              *)

\* A command of the application goes out, for the first time or again.
SlotIssues(f) ==
    /\ toPd' = Append(toPd, f) /\ tx' = f /\ IsFrame(f) /\ f.addr = address
    /\ \/ log' = log /\ timed_out /\ SameButBad(f, tx)
       \/ log' = Append(log, f.mac) /\ f.id = Len(log) + 1
    /\ f.scs \in {"NONE", "SCS_CMD"}
    /\ sc_phase' = "ESTABLISHED" => f.mac = sc_session'.last_outbound_mac
    /\ delivered' = delivered

\* A step of the handshake goes out.
SlotHandshakes(f) ==
    /\ toPd' = Append(toPd, f) /\ tx' = f /\ IsFrame(f) /\ f.addr = address
    /\ f.id = 0 /\ f.scs \notin {"NONE", "SCS_CMD"}
    /\ sc_phase' # "ESTABLISHED" /\ log' = log /\ delivered' = delivered

\* A reply is handed to the application; in a session it unwrapped, or it is
\* an osdp_BUSY with a sequence number.
SlotDelivers ==
    /\ toAcu # <<>> /\ delivered'.id = Head(toAcu).id /\ delivered'.cmd = tx.id
    /\ delivered'.secure =>
          /\ waiting /\ sc_phase = "ESTABLISHED"
          /\ \/ /\ Head(toAcu).scs = "SCS_REPLY"
                /\ MacIcv(Head(toAcu).mac) = sc_session.last_outbound_mac
             \/ Head(toAcu).code = "BUSY" /\ Head(toAcu).sqn # 0

\* Nothing goes out.
SlotListens ==
    /\ toPd' = toPd /\ tx' = tx /\ log' = log
    /\ waiting' \/ timed_out' => waiting \/ timed_out
    /\ waiting' /\ sc_phase' = "ESTABLISHED"
          => /\ waiting /\ sc_phase = "ESTABLISHED"
             /\ sc_session'.last_outbound_mac = sc_session.last_outbound_mac
    /\ delivered' = delivered \/ SlotDelivers

SlotLogs == (\E f : SlotIssues(f) \/ SlotHandshakes(f)) \/ SlotListens

LEMMA SendCommandLogs ==
    ASSUME TypeOK, IsFrame(tx), NEW c, NEW wr \in BOOLEAN, SendCommand(c, wr)
    PROVE  SlotLogs
<1> DEFINE secure == sc_phase = "ESTABLISHED"
           plain  == Frame(address, next_seq, IF secure THEN "SCS_CMD" ELSE "NONE",
                           0, c.code, c.data, 0)
           f      == IF secure THEN Wrap(sc_session, plain) ELSE plain
           retry  == timed_out /\ f = Bytes(tx)
           i      == IF retry THEN tx.id ELSE ids + 1
           g      == [f EXCEPT !.id = i]
<1>1. IsFrame(plain) /\ plain.addr = address /\ plain.scs \in {"SCS_CMD", "NONE"}
  BY DEF Frame, IsFrame
<1>2. /\ sc_phase' = sc_phase /\ delivered' = delivered /\ ~waiting
      /\ sc_session' = IF secure THEN AfterWrap(sc_session, plain) ELSE sc_session
  BY DEF SendCommand, MayTransmit
<1>3. CASE ~wr
  <2>1. UNCHANGED <<toPd, waiting, tx, timed_out, log>>
    BY <1>3 DEF SendCommand
  <2> QED
    BY <1>2, <2>1 DEF SlotLogs, SlotListens
<1>4. CASE wr
  <2>1. toPd' = Append(toPd, g) /\ tx' = g /\ log' = IF retry THEN log ELSE Append(log, f.mac)
    BY <1>4 DEF SendCommand, Transmitted
  <2> HIDE DEF plain
  <2>2. IsFrame(f) /\ f.addr = address /\ f.scs \in {"SCS_CMD", "NONE"}
        /\ (secure => f.mac = sc_session'.last_outbound_mac)
    <3>1. CASE secure
      <4> DEFINE mac == ComputeMac(sc_session.keys, sc_session.last_inbound_mac, plain)
      <4>1. f = [plain EXCEPT !.mac = mac] /\ sc_session' = [sc_session EXCEPT !.last_outbound_mac = mac]
        BY <3>1, <1>2 DEF Wrap, AfterWrap
      <4> HIDE DEF mac, f
      <4> QED
        BY <1>1, <4>1 DEF IsFrame, TypeOK, SlotTypeOK, SessionType
    <3>2. CASE ~secure
      BY <1>1, <3>2
    <3> QED
      BY <3>1, <3>2
  <2>3. retry => /\ f.addr = tx.addr /\ f.sqn = tx.sqn /\ f.scs = tx.scs /\ f.scb = tx.scb
                 /\ f.code = tx.code /\ f.data = tx.data /\ f.mac = tx.mac /\ timed_out
    <3> HIDE DEF f
    <3> QED
      BY DEF Bytes, IsFrame
  <2> HIDE DEF f
  <2>4. /\ IsFrame(g) /\ g.id = i /\ g.addr = f.addr /\ g.sqn = f.sqn /\ g.scs = f.scs
        /\ g.scb = f.scb /\ g.code = f.code /\ g.data = f.data /\ g.mac = f.mac
    <3> HIDE DEF i
    <3> QED
      BY <2>2 DEF IsFrame
  <2>5. \/ log' = log /\ timed_out /\ SameButBad(g, tx)
        \/ log' = Append(log, g.mac) /\ g.id = Len(log) + 1
    <3> HIDE DEF g
    <3>1. CASE retry
      BY <3>1, <2>1, <2>3, <2>4 DEF SameButBad
    <3>2. CASE ~retry
      BY <3>2, <2>1, <2>4 DEF ids
    <3> QED
      BY <3>1, <3>2
  <2> HIDE DEF g
  <2>6. SlotIssues(g)
    BY <2>1, <2>2, <2>4, <2>5, <1>2 DEF SlotIssues
  <2> QED
    BY <2>6 DEF SlotLogs
<1> QED
  BY <1>3, <1>4

LEMMA StartScHandshakeLogs ==
    ASSUME NEW sel, NEW wr \in BOOLEAN, StartScHandshake(sel, wr)
    PROVE  SlotLogs
<1> DEFINE f == Frame(address, next_seq, "SCS_11", sel, "CHLNG", <<nonces + 1>>, 0)
<1>1. IsFrame(f) /\ f.addr = address /\ f.id = 0 /\ f.scs \notin {"NONE", "SCS_CMD"}
  BY DEF Frame, IsFrame
<1>2. log' = log /\ delivered' = delivered /\ sc_phase' # "ESTABLISHED" /\ ~waiting
  BY DEF StartScHandshake, PhaseAfterChlng, MayTransmit
<1>3. \/ toPd' = Append(toPd, f) /\ tx' = f
      \/ UNCHANGED <<toPd, tx, waiting, timed_out>>
  BY DEF StartScHandshake, Transmitted
<1> HIDE DEF f
<1>4. CASE toPd' = Append(toPd, f) /\ tx' = f
  <2>1. SlotHandshakes(f)
    BY <1>1, <1>2, <1>4 DEF SlotHandshakes
  <2> QED
    BY <2>1 DEF SlotLogs
<1>5. CASE UNCHANGED <<toPd, tx, waiting, timed_out>>
  BY <1>2, <1>5 DEF SlotLogs, SlotListens
<1> QED
  BY <1>3, <1>4, <1>5

LEMMA ReceiveLogs ==
    ASSUME NEW wr \in BOOLEAN, AcuReceive(wr)
    PROVE  SlotLogs
<1> DEFINE f == Head(toAcu)
<1>0. toAcu # <<>> /\ toAcu' = Tail(toAcu) /\ log' = log
  BY DEF AcuReceive, countVars
<1>1. \/ Ignored \/ ProcessReply(f)
      \/ f.scs = "SCS_REPLY" /\ HandleScReply(f)
      \/ sc_phase = "AWAITING_CCRYPT" /\ HandleCcrypt(f, wr)
      \/ HandleRmacI(f)
  BY Zenon DEF AcuReceive
<1>2. CASE Ignored
  BY <1>0, <1>2 DEF Ignored, seqVars, scVars, SlotLogs, SlotListens
<1>3. CASE SessionEnds
  BY <1>0, <1>3 DEF SessionEnds, TerminateSc, ResetScHandshake, SlotLogs, SlotListens
<1>4. CASE HandshakeFails
  BY <1>0, <1>4 DEF HandshakeFails, ResetScHandshake, SlotLogs, SlotListens
<1>5. ASSUME DeliverReply(f), UNCHANGED <<toPd, tx>>,
             waiting, sc_phase = "ESTABLISHED" =>
                \/ f.scs = "SCS_REPLY" /\ MacIcv(f.mac) = sc_session.last_outbound_mac
                \/ f.code = "BUSY" /\ f.sqn # 0
      PROVE  SlotLogs
  <2>1. /\ waiting' = FALSE /\ timed_out' = FALSE
        /\ delivered' = [id |-> f.id, cmd |-> tx.id,
                         secure |-> sc_phase = "ESTABLISHED", code |-> f.code]
    BY <1>5 DEF DeliverReply
  <2>2. /\ delivered'.id = f.id /\ delivered'.cmd = tx.id
        /\ delivered'.secure <=> sc_phase = "ESTABLISHED"
    BY <2>1
  <2>3. SlotDelivers
    BY <1>0, <1>5, <2>2 DEF SlotDelivers
  <2> QED
    BY <1>0, <1>5, <2>1, <2>3 DEF SlotLogs, SlotListens
<1>6. CASE ProcessReply(f)
  <2>1. \/ Ignored \/ SessionEnds
        \/ /\ DeliverReply(f) /\ UNCHANGED <<toPd, tx>> /\ waiting
           /\ sc_phase = "ESTABLISHED" => f.code = "BUSY" /\ f.sqn # 0
    BY <1>6 DEF ProcessReply
  <2> QED
    BY <2>1, <1>2, <1>3, <1>5
<1>7. CASE f.scs = "SCS_REPLY" /\ HandleScReply(f)
  <2>1. \/ Ignored \/ SessionEnds
        \/ DeliverReply(f) /\ UNCHANGED <<toPd, tx>> /\ waiting /\ UnwrapOk(sc_session, f)
    BY <1>7 DEF HandleScReply
  <2>2. UnwrapOk(sc_session, f) => MacIcv(f.mac) = sc_session.last_outbound_mac
    BY Terms DEF UnwrapOk
  <2> QED
    BY <2>1, <2>2, <1>2, <1>3, <1>5, <1>7
<1>8. CASE sc_phase = "AWAITING_CCRYPT" /\ HandleCcrypt(f, wr)
  <2> DEFINE keys   == DeriveSessionKeys(HandshakeKey(sc_key_selector), sc_rnd_a)
             scrypt == Frame(address, AdvanceSqn(pending_seq), "SCS_13", sc_key_selector,
                             "SCRYPT", ServerCryptogram(keys, sc_rnd_a, f.data[1]), 0)
  <2>1. \/ Ignored \/ HandshakeFails
        \/ /\ ResetScHandshake /\ toPd' = toPd /\ tx' = tx /\ delivered' = delivered
           /\ waiting' = FALSE /\ timed_out' = FALSE
        \/ /\ toPd' = Append(toPd, scrypt) /\ tx' = scrypt /\ sc_phase' = "AWAITING_RMAC_I"
           /\ delivered' = delivered
    BY <1>8 DEF HandleCcrypt, Transmitted
  <2>2. CASE /\ ResetScHandshake /\ toPd' = toPd /\ tx' = tx /\ delivered' = delivered
             /\ waiting' = FALSE /\ timed_out' = FALSE
    BY <1>0, <2>2 DEF ResetScHandshake, SlotLogs, SlotListens
  <2>3. CASE /\ toPd' = Append(toPd, scrypt) /\ tx' = scrypt /\ sc_phase' = "AWAITING_RMAC_I"
             /\ delivered' = delivered
    <3>1. IsFrame(scrypt) /\ scrypt.addr = address /\ scrypt.id = 0 /\ scrypt.scs \notin {"NONE", "SCS_CMD"}
      BY DEF Frame, IsFrame
    <3> HIDE DEF scrypt
    <3>2. SlotHandshakes(scrypt)
      BY <1>0, <2>3, <3>1 DEF SlotHandshakes
    <3> QED
      BY <3>2 DEF SlotLogs
  <2> QED
    BY <2>1, <2>2, <2>3, <1>2, <1>4
<1>9. CASE HandleRmacI(f)
  <2>1. \/ Ignored \/ HandshakeFails
        \/ UNCHANGED <<toPd, tx, delivered>> /\ waiting' = FALSE /\ timed_out' = FALSE
    BY <1>9 DEF HandleRmacI
  <2>2. CASE UNCHANGED <<toPd, tx, delivered>> /\ waiting' = FALSE /\ timed_out' = FALSE
    BY <1>0, <2>2 DEF SlotLogs, SlotListens
  <2> QED
    BY <2>1, <2>2, <1>2, <1>4
<1> QED
  BY <1>1, <1>2, <1>6, <1>7, <1>8, <1>9

LEMMA AcuNextLogs ==
    ASSUME TypeOK, IsFrame(tx), AcuNext
    PROVE  SlotLogs
<1>0. WriteOutcomes \subseteq BOOLEAN
  BY DEF WriteOutcomes
<1>1. CASE \E c \in Cmds, wr \in WriteOutcomes : SendCommand(c, wr)
  BY <1>1, <1>0, SendCommandLogs
<1>2. CASE \E sel \in Selectors, wr \in WriteOutcomes : StartScHandshake(sel, wr)
  BY <1>2, <1>0, StartScHandshakeLogs
<1>3. CASE \E a \in Addresses : RegisterPd(a)
  <2>1. waiting' = FALSE /\ timed_out' = FALSE /\ UNCHANGED <<log, toPd, tx, delivered>>
    BY <1>3 DEF RegisterPd, countVars, wireVars
  <2> QED
    BY <2>1 DEF SlotLogs, SlotListens
<1>4. CASE (\E k \in Keys : SetPdScbk(k)) \/ SetPdScbkD
  <2>1. UNCHANGED <<log, toPd, tx, delivered, waiting, timed_out, sc_phase, sc_session>>
    BY <1>4 DEF SetPdScbk, SetPdScbkD, countVars, wireVars, scVars, seqVars
  <2> QED
    BY <2>1 DEF SlotLogs, SlotListens
<1>5. CASE ReplyTimesOut
  <2>1. UNCHANGED <<log, toPd, tx, delivered>> /\ waiting /\ waiting' = FALSE
    BY <1>5 DEF ReplyTimesOut, countVars, wireVars, ReplyDue
  <2> QED
    BY <2>1 DEF SlotLogs, SlotListens
<1>6. CASE GoOffline
  <2>1. UNCHANGED <<log, toPd, tx, delivered>>
    BY <1>6 DEF GoOffline, countVars, wireVars
  <2>2. \/ waiting' = FALSE /\ timed_out' = FALSE
        \/ UNCHANGED <<waiting, timed_out, sc_phase, sc_session>>
    BY <1>6 DEF GoOffline, TerminateSc, scVars, seqVars
  <2> QED
    BY <2>1, <2>2 DEF SlotLogs, SlotListens
<1>7. CASE \E wr \in WriteOutcomes : AcuReceive(wr)
  BY <1>7, <1>0, ReceiveLogs
<1> QED
  BY <1>1, <1>2, <1>3, <1>4, <1>5, <1>6, <1>7 DEF AcuNext

\* A step of the slot keeps the log in agreement with the line.
LEMMA SlotKeepsLog ==
    ASSUME KeysInv, LogInv, SlotLogs, SlotTakes, UNCHANGED cache
    PROVE  LogInv'
<1>0. /\ IsSeq(toPd) /\ IsSeq(toAcu) /\ IsSeq(log)
      /\ \A j \in 1..Len(toPd) : CmdLogged(toPd[j], log)
      /\ \A j \in 1..Len(toAcu) : RplLogged(toAcu[j], log)
  BY DEF KeysInv, LineInv, LogInv
<1>1. /\ IsSeq(log') /\ Len(log) \in Nat /\ Len(log') \in Nat /\ Len(log) <= Len(log')
      /\ \A i \in 1..Len(log) : i \in 1..Len(log') /\ log'[i] = log[i]
      /\ \A f : CmdLogged(f, log) => CmdLogged(f, log')
      /\ \A g : RplLogged(g, log) => RplLogged(g, log')
  <2>0. Len(log) \in Nat
    BY <1>0, Appended
  <2>1. CASE log' = log
    BY <2>0, <2>1, <1>0
  <2>2. CASE \E m : log' = Append(log, m)
    <3> PICK m : log' = Append(log, m)
      BY <2>2
    <3>1. /\ IsSeq(log') /\ Len(log') = Len(log) + 1 /\ \A i \in 1..Len(log) : log'[i] = log[i]
      BY <1>0, Appended
    <3>2. /\ \A f : CmdLogged(f, log) => CmdLogged(f, log')
          /\ \A g : RplLogged(g, log) => RplLogged(g, log')
      BY <1>0, LogGrows
    <3> QED
      BY <2>0, <3>1, <3>2
  <2> QED
    BY <2>1, <2>2 DEF SlotLogs, SlotIssues, SlotHandshakes, SlotListens
<1>2. \A j \in 1..Len(toAcu') : RplLogged(toAcu'[j], log')
  <2>1. CASE toAcu' = toAcu
    BY <2>1, <1>0, <1>1
  <2>2. CASE toAcu # <<>> /\ toAcu' = Tail(toAcu)
    <3>1. \A j \in 1..Len(toAcu') : j + 1 \in 1..Len(toAcu) /\ toAcu'[j] = toAcu[j + 1]
      BY <2>2, <1>0, Taken
    <3> QED
      BY <3>1, <1>0, <1>1
  <2> QED
    BY <2>1, <2>2 DEF SlotTakes
<1>3. cache' # NoCache /\ cache'.reply # NoReply => RplLogged(cache'.reply, log')
  BY <1>1 DEF LogInv
<1>4. delivered' = delivered => DeliveredLogged'
  BY <1>1 DEF LogInv, DeliveredLogged
<1>5. ASSUME NEW f, toPd' = Append(toPd, f), CmdLogged(f, log')
      PROVE  \A j \in 1..Len(toPd') : CmdLogged(toPd'[j], log')
  <2>1. /\ Len(toPd) \in Nat /\ Len(toPd') = Len(toPd) + 1 /\ toPd'[Len(toPd) + 1] = f
        /\ \A j \in 1..Len(toPd) : toPd'[j] = toPd[j]
    BY <1>5, <1>0, Appended
  <2>2. \A j \in 1..Len(toPd') : j \in 1..Len(toPd) \/ j = Len(toPd) + 1
    BY <2>1
  <2> QED
    BY <2>1, <2>2, <1>0, <1>1, <1>5
<1>6. CASE \E f : SlotIssues(f)
  <2> PICK f : SlotIssues(f)
    BY <1>6
  <2>1. f.id # 0 /\ f.id \in 1..Len(log') /\ log'[f.id] = f.mac
    <3>1. CASE log' = log /\ timed_out /\ SameButBad(f, tx)
      BY <3>1 DEF SlotIssues, LogInv, TxLogged, SameButBad
    <3>2. CASE log' = Append(log, f.mac) /\ f.id = Len(log) + 1
      BY <3>2, <1>0, <1>1, Appended
    <3> QED
      BY <3>1, <3>2 DEF SlotIssues
  <2>2. CmdLogged(f, log')
    BY <2>1 DEF CmdLogged
  <2>3. TxLogged'
    BY <2>1 DEF TxLogged, SlotIssues
  <2> QED
    BY <2>2, <2>3, <1>1, <1>2, <1>3, <1>4, <1>5 DEF LogInv, SlotIssues
<1>7. CASE \E f : SlotHandshakes(f)
  <2> PICK f : SlotHandshakes(f)
    BY <1>7
  <2>1. CmdLogged(f, log') /\ TxLogged'
    BY DEF CmdLogged, TxLogged, SlotHandshakes
  <2> QED
    BY <2>1, <1>1, <1>2, <1>3, <1>4, <1>5 DEF LogInv, SlotHandshakes
<1>8. CASE SlotListens
  <2>1. TxLogged'
    BY <1>8 DEF SlotListens, LogInv, TxLogged
  <2>2. DeliveredLogged'
    <3>1. CASE delivered' = delivered
      BY <3>1, <1>4
    <3>2. CASE SlotDelivers
      <4>1. Head(toAcu) = toAcu[1] /\ 1 \in 1..Len(toAcu)
        BY <3>2, <1>0, Taken DEF SlotDelivers
      <4>2. RplLogged(Head(toAcu), log)
        BY <4>1, <1>0
      <4> QED
        BY <4>2, <3>2, <1>1 DEF SlotDelivers, RplLogged, LogInv, TxLogged, DeliveredLogged
    <3> QED
      BY <3>1, <3>2, <1>8 DEF SlotListens
  <2> QED
    BY <2>1, <2>2, <1>0, <1>1, <1>2, <1>3, <1>8 DEF LogInv, SlotListens
<1> QED
  BY <1>6, <1>7, <1>8 DEF SlotLogs

\* The PD takes a command and answers it, or sends its cached answer again.
LEMMA PdKeepsLog ==
    ASSUME KeysInv, LogInv, toPd # <<>>, toPd' = Tail(toPd), NEW g,
           toAcu' = toAcu \/ toAcu' = Append(toAcu, g),
           g # NoReply => RplLogged(g, log), toAcu' # toAcu => g # NoReply,
           \/ cache' = cache \/ cache' = NoCache
           \/ \E f : \E r \in {g, NoReply} : cache' = [cmd |-> f, reply |-> r],
           UNCHANGED <<log, tx, waiting, timed_out, sc_phase, sc_session, delivered>>
    PROVE  LogInv'
<1>0. /\ IsSeq(toPd) /\ IsSeq(toAcu) /\ IsSeq(log)
      /\ \A j \in 1..Len(toPd) : CmdLogged(toPd[j], log)
      /\ \A j \in 1..Len(toAcu) : RplLogged(toAcu[j], log)
  BY DEF KeysInv, LineInv, LogInv
<1>1. \A j \in 1..Len(toPd') : CmdLogged(toPd'[j], log)
  <2>1. \A j \in 1..Len(toPd') : j + 1 \in 1..Len(toPd) /\ toPd'[j] = toPd[j + 1]
    BY <1>0, Taken
  <2> QED
    BY <2>1, <1>0
<1>2. \A j \in 1..Len(toAcu') : RplLogged(toAcu'[j], log)
  <2>1. CASE toAcu' = toAcu
    BY <2>1, <1>0
  <2>2. CASE toAcu' # toAcu
    <3>1. /\ Len(toAcu) \in Nat /\ Len(toAcu') = Len(toAcu) + 1 /\ toAcu'[Len(toAcu) + 1] = g
          /\ \A j \in 1..Len(toAcu) : toAcu'[j] = toAcu[j]
      BY <2>2, <1>0, Appended
    <3>2. \A j \in 1..Len(toAcu') : j \in 1..Len(toAcu) \/ j = Len(toAcu) + 1
      BY <3>1
    <3> QED
      BY <2>2, <3>1, <3>2, <1>0
  <2> QED
    BY <2>1, <2>2
<1>3. cache' # NoCache /\ cache'.reply # NoReply => RplLogged(cache'.reply, log)
  BY DEF LogInv
<1>4. TxLogged' /\ DeliveredLogged'
  BY DEF LogInv, TxLogged, DeliveredLogged
<1> QED
  BY <1>0, <1>1, <1>2, <1>3, <1>4 DEF LogInv

\* What the line makes of its frames.
LEMMA WireFromLine ==
    ASSUME LineInv, WireNext
    PROVE  FromLine(toPd', toPd) /\ FromLine(toAcu', toAcu)
<1>1. /\ toPd' = toPd \/ (toPd # <<>> /\ toPd' = Tail(toPd))
         \/ (toPd # <<>> /\ toPd' = <<[Head(toPd) EXCEPT !.bad = TRUE]>> \o Tail(toPd))
      /\ toAcu' = toAcu \/ (toAcu # <<>> /\ toAcu' = Tail(toAcu))
         \/ (toAcu # <<>> /\ toAcu' = <<[Head(toAcu) EXCEPT !.bad = TRUE]>> \o Tail(toAcu))
  BY DEF WireNext, Lose, Corrupt
<1>2. IsSeq(toPd) /\ \A j \in 1..Len(toPd) : IsFrame(toPd[j])
  BY DEF LineInv
<1>3. IsSeq(toAcu) /\ \A j \in 1..Len(toAcu) : IsFrame(toAcu[j])
  BY DEF LineInv
<1>4. FromLine(toPd', toPd)
  BY <1>1, <1>2, FromLineCases, Zenon
<1>5. FromLine(toAcu', toAcu)
  BY <1>1, <1>3, FromLineCases, Zenon
<1> QED
  BY <1>4, <1>5

LEMMA LogStep ==
    ASSUME KeysInv, LogInv, [Next]_vars
    PROVE  LogInv'
<1>0. TypeOK /\ IsFrame(tx)
  BY DEF KeysInv, LogInv, TxLogged
<1>1. CASE AcuNext /\ UNCHANGED pdVars
  <2>1. cache' = cache
    BY <1>1 DEF pdVars
  <2>2. SlotLogs /\ SlotTakes
    BY <1>0, <1>1, AcuNextLogs, AcuNextEffect DEF SlotEffect
  <2> QED
    BY <2>1, <2>2, SlotKeepsLog
<1>2. CASE PdNext /\ UNCHANGED acuVars
  <2>0. UNCHANGED <<log, tx, waiting, timed_out, sc_phase, sc_session, delivered>>
    BY <1>2 DEF acuVars, countVars, seqVars, scVars
  <2>1. CASE \E v \in Verdicts, fits \in ReplyFits, wr \in WriteOutcomes : PdFresh(v, fits, wr)
    <3>1. toPd # <<>> /\ toPd' = Tail(toPd)
      BY <2>1 DEF PdFresh, PdTakes
    <3>2. PICK reply : PdEffect(Head(toPd), reply)
      BY <1>0, <2>1, PdFreshEffect
    <3>3. Head(toPd) = toPd[1] /\ 1 \in 1..Len(toPd)
      BY <3>1, Taken DEF KeysInv, LineInv
    <3>4. CmdLogged(Head(toPd), log)
      BY <3>3 DEF LogInv
    <3>5. reply # NoReply => RplLogged(reply, log)
      BY <3>2, <3>4 DEF PdEffect, Answers, CmdLogged, RplLogged
    <3>6. /\ toAcu' = toAcu \/ (reply # NoReply /\ toAcu' = Append(toAcu, reply))
          /\ cache' = NoCache \/ \E f : \E r \in {reply, NoReply} : cache' = [cmd |-> f, reply |-> r]
      BY <3>2, Zenon DEF PdEffect, Replied
    <3> QED
      BY <2>0, <3>1, <3>5, <3>6, PdKeepsLog
  <2>2. CASE \E wr \in WriteOutcomes : PdBadCheck(wr) \/ PdNotOurs \/ PdRetransmit(wr)
    <3> DEFINE nak == BuildNak(Head(toPd), NakBadCheck)
    <3>1. /\ toPd # <<>> /\ toPd' = Tail(toPd) /\ cache' = cache
          /\ \/ toAcu' = toAcu \/ toAcu' = Append(toAcu, nak)
             \/ cache # NoCache /\ cache.reply # NoReply /\ toAcu' = Append(toAcu, cache.reply)
      BY <2>2, AnswerSent
    <3>2. RplLogged(nak, log) /\ nak # NoReply
      BY DEF RplLogged, BuildNak, BuildReply, Frame, NoReply
    <3> HIDE DEF nak
    <3>3. CASE toAcu' = toAcu \/ toAcu' = Append(toAcu, nak)
      BY <2>0, <3>1, <3>2, <3>3, PdKeepsLog
    <3>4. CASE cache # NoCache /\ cache.reply # NoReply /\ toAcu' = Append(toAcu, cache.reply)
      <4>1. RplLogged(cache.reply, log)
        BY <3>4 DEF LogInv
      <4> QED
        BY <2>0, <3>1, <3>4, <4>1, PdKeepsLog
    <3> QED
      BY <3>1, <3>3, <3>4
  <2>3. CASE PdGoOffline \/ PdRestart
    <3>1. UNCHANGED <<toPd, toAcu>> /\ cache' = NoCache
      BY <2>3 DEF PdGoOffline, PdRestart, ForgetCache, wireVars
    <3> QED
      BY <2>0, <3>1 DEF LogInv, TxLogged, DeliveredLogged
  <2>4. CASE PdNotOurs
    BY <2>2, <2>4 DEF WriteOutcomes
  <2> QED
    BY <1>2, <2>1, <2>2, <2>3, <2>4 DEF PdNext
<1>3. CASE WireNext /\ UNCHANGED <<acuVars, pdVars>>
  <2>0. UNCHANGED <<cache, log, tx, waiting, timed_out, sc_phase, sc_session, delivered>>
    BY <1>3 DEF acuVars, pdVars, countVars, seqVars, scVars
  <2>1. FromLine(toPd', toPd) /\ FromLine(toAcu', toAcu)
    BY <1>3, WireFromLine DEF KeysInv
  <2>2. \A f, h : SameButBad(f, h) /\ CmdLogged(h, log) => CmdLogged(f, log)
    BY DEF SameButBad, CmdLogged
  <2>3. \A f, h : SameButBad(f, h) /\ RplLogged(h, log) => RplLogged(f, log)
    BY DEF SameButBad, RplLogged
  <2>4. \A j \in 1..Len(toPd') : CmdLogged(toPd'[j], log)
    BY <2>1, <2>2 DEF FromLine, LogInv
  <2>5. \A j \in 1..Len(toAcu') : RplLogged(toAcu'[j], log)
    BY <2>1, <2>3 DEF FromLine, LogInv
  <2>6. TxLogged' /\ DeliveredLogged'
    BY <2>0 DEF LogInv, TxLogged, DeliveredLogged
  <2> QED
    BY <2>0, <2>4, <2>5, <2>6 DEF LogInv
<1>4. CASE Tick \/ UNCHANGED vars
  <2>1. UNCHANGED <<cache, log, tx, waiting, timed_out, sc_phase, sc_session, delivered, toPd, toAcu>>
    BY <1>4 DEF Tick, vars, pdVars, acuVars, seqVars, scVars, countVars, wireVars
  <2> QED
    BY <2>1 DEF LogInv, TxLogged, DeliveredLogged
<1> QED
  BY <1>1, <1>2, <1>3, <1>4 DEF Next

LEMMA LogInit == Init => LogInv
<1> SUFFICES ASSUME Init PROVE LogInv
  OBVIOUS
<1>1. /\ toPd = <<>> /\ toAcu = <<>> /\ log = <<>> /\ cache = NoCache /\ tx = NoFrame
      /\ waiting = FALSE /\ timed_out = FALSE /\ delivered = NoDelivery
  BY DEF Init, WireInit, AcuInit, PdInit
<1>2. IsSeq(<<>>) /\ Len(<<>>) = 0
  BY DEF IsSeq
<1>3. IsFrame(tx) /\ tx.id = 0
  BY <1>1 DEF NoFrame, Frame, IsFrame
<1>4. delivered.secure = FALSE
  BY <1>1 DEF NoDelivery
<1> QED
  BY <1>1, <1>2, <1>3, <1>4 DEF LogInv, TxLogged, DeliveredLogged

\* The invariant behind secure delivery holds in every state.
THEOREM LogAgrees == Spec => []LogInv
<1>1. KeysInv /\ LogInv /\ [Next]_vars => LogInv'
  BY LogStep
<1> QED
  BY <1>1, LogInit, KeysAlwaysKnown, PTL DEF Spec

\* A reply the slot delivers out of a session was built by the PD for the very
\* bytes the application is told it answers: the reply's MAC is chained from
\* the MAC of its command, and the slot accepts it only if that is the MAC of
\* the command it sent last.  No bound on the commands, the retries, the
\* timeouts or the handshakes enters the argument.
THEOREM SecureRepliesAnswer == Spec => []SecureReplyAnswers
<1>1. LogInv => SecureReplyAnswers
  BY DEF LogInv, DeliveredLogged, SecureReplyAnswers
<1> QED
  BY <1>1, LogAgrees, PTL
=============================================================================
