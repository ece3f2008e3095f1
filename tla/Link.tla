-------------------------------- MODULE Link --------------------------------
(***************************************************************************)
(* An ACU slot and a PD on one line, and the clock both of them read.      *)
(***************************************************************************)
EXTENDS Acu, Pd

vars == <<acuVars, pdVars, wireVars>>

\* An age is what an unsigned difference of two now_ms readings is compared
\* with; beyond the limit it tells nothing more.
Older(age, limit) == IF age > limit THEN age ELSE age + 1

\* One tick of the clock.  A scan reads the clock once, before timeout_cb.
Tick ==
    /\ ~in_scan
    /\ sent_age' = IF waiting THEN Older(sent_age, ReplyTimeout) ELSE sent_age
    /\ reply_age' = IF online THEN Older(reply_age, OfflineTimeout) ELSE reply_age
    /\ comm_age' = IF pd_online THEN Older(comm_age, PdOfflineTimeout) ELSE comm_age
    /\ UNCHANGED <<seqVars, in_scan, online, scVars, cfgVars, countVars, tx, timed_out,
                   delivered>>
    /\ UNCHANGED <<pd_address, pdKeyVars, pdScVars, cache, pd_online,
                   pd_restarts, runVars, wireVars>>

Init == WireInit /\ AcuInit /\ PdInit

Next ==
    \/ AcuNext /\ UNCHANGED pdVars
    \/ PdNext /\ UNCHANGED acuVars
    \/ WireNext /\ UNCHANGED <<acuVars, pdVars>>
    \/ Tick

Spec == Init /\ [][Next]_vars

-----------------------------------------------------------------------------
(* Properties                                                              *)

SessionType(s) ==
    /\ DOMAIN s = {"established", "keys", "last_outbound_mac", "last_inbound_mac"}
    /\ s.established \in BOOLEAN

SlotTypeOK ==
    /\ address \in Addresses
    /\ next_seq \in 0..3 /\ pending_seq \in 0..3
    /\ waiting \in BOOLEAN /\ in_scan \in BOOLEAN /\ online \in BOOLEAN
    /\ sc_phase \in Phases /\ sc_key_selector \in {0, 1}
    /\ SessionType(sc_session)
    /\ scbk \in Keys \cup {NoKey} /\ scbk_d \in {DefaultKey, NoKey}
    /\ sent_age \in 0..(ReplyTimeout + 1)
    /\ reply_age \in 0..(OfflineTimeout + 1)

PdTypeOK ==
    /\ pd_address \in 0..(Broadcast - 1)
    /\ pd_online \in BOOLEAN /\ got_chlng \in BOOLEAN
    /\ SessionType(pd_session)
    /\ pd_scbk \in Keys \cup {NoKey} /\ pd_scbk_d \in {DefaultKey, NoKey}
    /\ comm_age \in 0..(PdOfflineTimeout + 1)

\* The fields of the slot and of the PD keep the ranges of their C types; in
\* particular the sequence number stays within its two bits and a PD is never
\* left at the broadcast address.
TypeOK == SlotTypeOK /\ PdTypeOK

\* Two ends that both hold a session hold the same session keys, whatever
\* was lost, delayed, retried or restarted on the way.
SessionAgreement ==
    (sc_phase = "ESTABLISHED" /\ pd_session.established)
        => sc_session.keys = pd_session.keys

\* The events told the application the truth: it believes its commands are
\* protected exactly when osdp_acu_send_command wraps them.
EventsTellPhase ==
    /\ app_secure <=> sc_phase = "ESTABLISHED"
    /\ app_secure <=> sc_session.established

\* A session lives only while its PD counts as online, so the offline
\* timeout can always end it.
EstablishedIsOnline == sc_phase = "ESTABLISHED" => online

\* A reply delivered out of a session is what the PD answered to the very
\* bytes the slot waits for an answer to: a late reply to another command,
\* or to an earlier instance of the same one, never unwraps.  (A command that
\* was given up, followed by another that was given up, may come back as the
\* same bytes, and then the late reply to the first is its reply.)
SecureReplyAnswers == delivered.secure => log[delivered.id] = log[delivered.cmd]

\* The chain of the two ends can always continue: either the next command
\* will be accepted, or the last one can be repeated and the PD still has
\* its reply in the retransmit cache.
ChainRecoverable ==
    ( /\ sc_phase = "ESTABLISHED" /\ pd_session.established
      /\ toPd = <<>> /\ toAcu = <<>> /\ ~OfflineDue )
    => \/ sc_session.last_inbound_mac = pd_session.last_outbound_mac
       \/ /\ cache # NoCache
          /\ Bytes(cache.cmd) = Bytes(tx)
          /\ cache.reply # NoReply
          /\ cache.reply.mac =
                ComputeMac(sc_session.keys, tx.mac, cache.reply)

\* The application handler carries a command and its retries out at most
\* once.  SQN 0, which restarts the connection, and a cache that the offline
\* timeout or a restart dropped are the exceptions.
AtMostOnce == \A i \in 1..MaxIds : runs[i] > 1 => i \in excused

\* An application that repeats a command until it is answered is never given
\* the reply to another one, even without a Secure Channel.
ReplyAnswers == delivered.id = delivered.cmd

\* The two ends implement the abstract command service: for an application
\* that repeats a command until it is answered, commands are carried out at
\* most once and an ACK is the ACK of the command it is reported with.
Service == INSTANCE Rpc WITH
    issued <- ids, done <- runs, exempt <- excused,
    confirmed <- IF delivered.code = "ACK" THEN delivered.cmd ELSE 0

ImplementsRpc == Service!RpcSpec

\* A command the application waits for is displaced by one frame only: the
\* server cryptogram for a late CCRYPT, whose challenge had timed out and which
\* the application had given up by sending that command.  Otherwise a command
\* ends in a reply, a timeout or a lost session.  handle_ccrypt does not look
\* at waiting, so this rests on the sequence numbers alone.
DisplacedOnlyIfGivenUp ==
    [][(waiting /\ tx.id # 0 /\ waiting' /\ tx' # tx)
        => gave_up /\ tx'.code = "SCRYPT"]_vars

\* A reply that says what became of its command: not osdp_BUSY, not the NAK to
\* a frame that arrived broken, and not to a command the cache does not protect.
Conclusive(g) ==
    /\ g.id # 0 /\ g.sqn # 0 /\ g.id \notin excused
    /\ ~(g.code = "NAK" /\ g.data = <<NakBadCheck>>)

SameReply(g, h) == [g EXCEPT !.bad = FALSE] = [h EXCEPT !.bad = FALSE]

\* However often a command is repeated, it has one answer: conclusive replies
\* to one command are the same bytes wherever they are on the line, and so is
\* the reply that process_frame keeps for the next repeat.  A controller that
\* takes any of them knows what the PD did.
OneAnswer ==
    \A i \in 1..Len(toAcu) : Conclusive(toAcu[i]) =>
        /\ \A j \in 1..Len(toAcu) :
              Conclusive(toAcu[j]) /\ toAcu[j].id = toAcu[i].id
                  => SameReply(toAcu[j], toAcu[i])
        /\ cache # NoCache /\ cache.cmd.id = toAcu[i].id /\ cache.reply # NoReply
                  => SameReply(cache.reply, toAcu[i])

\* A retransmit the PD consumes is answered: from the cache, or afresh when
\* the reply did not fit the cache.
RetransmitAnswered ==
    [][(toPd # <<>> /\ IsRetransmit(Head(toPd)) /\ toPd' = Tail(toPd))
        => toAcu' # toAcu]_vars

\* The PD's osdp_BUSY leaves the session of the slot alone.
BusyKeepsSession ==
    [][( /\ sc_phase = "ESTABLISHED" /\ toAcu # <<>> /\ toAcu' = Tail(toAcu)
         /\ Head(toAcu).code = "BUSY" )
        => sc_phase' = "ESTABLISHED"]_vars

\* The PD rotates its key only with a KEYSET it acknowledges.
KeysetOnlyOnAck == [][pd_scbk' # pd_scbk => cache'.reply.code = "ACK"]_vars

\* The PD leaves an address only after announcing it there.
AddressAnnounced ==
    [][pd_address' # pd_address
        => /\ toAcu' # <<>>
           /\ LET com == toAcu'[Len(toAcu')]
              IN  com.code = "COM" /\ com.addr = pd_address]_vars

-----------------------------------------------------------------------------
(* Fairness: the main loop of the controller calls osdp_acu_tick for ever  *)
(* and its clock runs.  Nothing is assumed of the application.             *)

AcuTicks ==
    /\ WF_vars(Tick)
    /\ WF_vars(ReplyTimesOut /\ UNCHANGED pdVars)
    /\ WF_vars(GoOffline /\ UNCHANGED pdVars)
    /\ WF_vars((\E wr \in WriteOutcomes : AcuReceive(wr)) /\ UNCHANGED pdVars)

FairSpec == Spec /\ AcuTicks

\* A slot never stays blocked on a reply.
Unblocks == waiting ~> ~waiting

\* A session only the slot still believes in ends.
HalfOpenDetected ==
    (sc_phase = "ESTABLISHED" /\ ~pd_session.established)
        ~> (sc_phase # "ESTABLISHED" \/ pd_session.established)

\* A handshake with a PD that was online comes to an end.  The reply timeout
\* leaves the phase alone and the application may never try again: it is the
\* offline timeout that ends it.
HandshakeResolves ==
    (sc_phase \in {"AWAITING_CCRYPT", "AWAITING_RMAC_I"} /\ online)
        ~> (sc_phase \in {"IDLE", "ESTABLISHED"})
=============================================================================
