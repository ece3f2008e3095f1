------------------------------ MODULE Transfer ------------------------------
(***************************************************************************)
(* Long messages on their way to a PD: file transfer (pd.c) and multi-part *)
(* manufacturer commands (pd_dispatch.c), osdp_ABORT, the retransmit cache *)
(* in front of them, and applications of a controller that send fragments, *)
(* repeat what is not answered and start over when refused.                *)
(*                                                                         *)
(* An attempt is one sending of one message; a byte remembers the attempt  *)
(* it belongs to and its place there.  No Secure Channel; the controller   *)
(* repeats a command with its sequence number until it is answered, as a   *)
(* slot of Acu does when its application does not give up.                 *)
(***************************************************************************)
EXTENDS Multipart, FiniteSets

CONSTANTS
    Apps,           \* applications of the controller that send messages
    Messages,       \* Messages[a]: what a sends, [kind, tag, len]; tag is the
                    \* vendor code or the FtType
    MaxFrag,        \* data bytes in a fragment
    MfgCap,         \* cap of the reassembly buffer of manufacturer messages
    FileCap,        \* file_cap
    CmdCacheData,   \* data bytes of the longest fragment cmd_cache_cap holds
    MfgVerdicts,    \* what mfg_cb may answer
    FileVerdicts,   \* what file_cb may answer
    OfflineAfter,   \* OSDP_PD_OFFLINE_TIMEOUT_MS, in reply timeouts
    MaxFaults,      \* bound: frames lost, callbacks that do not answer OK and
                    \* steps that are not those of a steady sender
    MaxTransfers    \* bound: messages sent to the end

ASSUME TransferAssumption ==
    /\ Apps # {}
    /\ \A a \in Apps : Messages[a] \subseteq [kind : {"file", "mfg"}, tag : Nat \ {0},
                                              len : Nat \ {0}]
    /\ MaxFrag \in Nat \ {0} /\ MfgCap \in Nat /\ FileCap \in Nat
    /\ CmdCacheData \in Nat /\ OfflineAfter \in Nat
    /\ MaxFaults \in Nat /\ MaxTransfers \in Nat

\* Two applications do not send messages of one length under one vendor code or
\* file type: a fragment carries nothing else to tell their messages apart by.
ASSUME DistinctMessages ==
    \A a, b \in Apps : a # b => Messages[a] \cap Messages[b] = {}

VARIABLES
    \* the controller
    cur,            \* the application that has the slot
    att,            \* att[a]: the attempt a is at, [id, msg, off, status]
    next_seq, waiting, out,
    \* the line
    cmd, rpl,
    \* the PD
    have_last, last_cmd, last_rpl,
    pd_online, quiet,   \* online; reply timeouts since last_comm_ms
    file_mode,      \* "none", "reassembly" or "streaming": file_cb, file_buf
    ft, file_buf,   \* ft_active .. ft_received; in streaming mode the buffer
                    \* is where the application keeps what it is handed
    mfg_bound, mfg, mfg_vendor,
    \* history
    msgs,           \* msgs[n]: the message of attempt n
    delivered,      \* messages handed up as complete
    finished,       \* attempts their application believes delivered
    cut,            \* attempts 1..cut were ended by osdp_ABORT or a marker
    clean,          \* nothing but losses has disturbed the attempt of cur
    ran,            \* the outstanding command was carried out
    rerun,          \* ... and again, at sequence 0 or too long for the cache
    faults

ctlVars  == <<cur, att, next_seq, waiting, out>>
rxVars   == <<file_mode, ft, file_buf, mfg_bound, mfg, mfg_vendor>>
cacheVars == <<have_last, last_cmd, last_rpl>>
commVars == <<pd_online, quiet>>
histVars == <<msgs, delivered, finished, cut, clean, ran, rerun, faults>>
transferVars == <<ctlVars, cmd, rpl, cacheVars, commVars, rxVars, histVars>>

\* Commands without a fragment.
Plain(is) ==
    [is |-> is, kind |-> "file", tag |-> 0, whole |-> "yes", total |-> 0, offset |-> 0,
     size |-> 0, data |-> <<>>, sqn |-> 0]

NoCmd == Plain("none")

\* Replies; the sequence number is filled in when one is sent.
Reply(is, detail) == [is |-> is, detail |-> detail, sqn |-> 0]

Ack == Reply("ACK", "none")
Nak(code) == Reply("NAK", code)
NoRpl == Reply("none", "none")
NoMsg == [kind |-> "file", tag |-> 0, len |-> 0]
NoFile == [active |-> FALSE, type |-> 0, total |-> 0, received |-> 0]
Empty == [i \in {} |-> NoByte]

TransferInit ==
    /\ cur \in Apps
    /\ att = [a \in Apps |-> [id |-> 0, msg |-> NoMsg, off |-> 0, status |-> "idle"]]
    /\ next_seq = 0 /\ waiting = FALSE /\ out = NoCmd
    /\ cmd = NoCmd /\ rpl = NoRpl
    /\ have_last = FALSE /\ last_cmd = NoCmd /\ last_rpl = NoRpl
    /\ pd_online = FALSE /\ quiet = 0
    /\ file_mode = "reassembly" /\ ft = NoFile /\ file_buf = Empty
    /\ mfg_bound = TRUE /\ mfg = ReasmInit(Empty) /\ mfg_vendor = 0
    /\ msgs = <<>> /\ delivered = <<>> /\ finished = {}
    /\ cut = [k \in {"file", "mfg"} |-> 0]
    /\ clean = FALSE /\ ran = FALSE /\ rerun = FALSE
    /\ faults = 0

OfflineDue == pd_online /\ quiet > OfflineAfter

-----------------------------------------------------------------------------
(* The controller and its applications                                     *)

\* The bytes of attempt n.
ByteOf(n, i) == [of |-> n, at |-> i]
Body(n, len) == [i \in 1..len |-> ByteOf(n, i)]

\* osdp_filetransfer_build, and osdp_mfg_build around osdp_mp_fragment_build.
\* `whole` says whether everything the header promises is there: "yes", "data"
\* when the last byte is missing, "header" when even the header is cut short.
Build(m, f, whole) ==
    LET p == FragmentBuild(f)
    IN  [is |-> "frag", kind |-> m.kind, tag |-> m.tag, whole |-> whole,
         total |-> p.total, offset |-> p.offset, size |-> p.size, sqn |-> 0,
         data |-> IF whole = "yes" THEN p.data ELSE SubSeq(p.data, 1, p.size - 1)]

\* osdp_acu_send_command
Transmit(c) ==
    /\ ~waiting
    /\ waiting' = TRUE
    /\ out' = [c EXCEPT !.sqn = next_seq]
    /\ cmd' = out'
    /\ UNCHANGED rpl
    /\ ran' = FALSE

Fits(m) == m.len <= (IF m.kind = "mfg" THEN MfgCap ELSE FileCap)

\* The application begins an attempt with the fragment at offset 0.
Begin(m) ==
    LET n == Len(msgs) + 1
    IN  /\ Transmit(Build(m, IterFragment(Body(n, m.len), 0, MaxFrag), "yes"))
        /\ att' = [att EXCEPT ![cur] =
                    [id |-> n, msg |-> m, off |-> 0, status |-> "begun"]]
        /\ msgs' = Append(msgs, m)
        /\ UNCHANGED <<cur, next_seq, cacheVars, commVars, rxVars, delivered, finished,
                       cut>>

\* What a steady sender does: begin, go on where the PD is, start over when
\* refused or when the first fragment was answered with osdp_BUSY.
Start ==
    /\ \/ att[cur].status \in {"failed", "begun"}
       \/ att[cur].status \in {"idle", "done"} /\ Cardinality(finished) < MaxTransfers
    /\ \E m \in Messages[cur] : Fits(m) /\ Begin(m)
    /\ clean' = (file_mode # "none" /\ mfg_bound) /\ rerun' = FALSE
    /\ UNCHANGED faults

Current == Body(att[cur].id, att[cur].msg.len)

SendNext ==
    LET a == att[cur]
    IN  /\ a.status = "going"
        /\ Transmit(Build(a.msg, IterFragment(Current, a.off, MaxFrag), "yes"))
        /\ UNCHANGED <<cur, att, next_seq, cacheVars, commVars, rxVars, msgs,
                       delivered, finished, cut, clean, rerun, faults>>

\* osdp_POLL when there is nothing to send
Poll ==
    /\ \/ att[cur].status = "unsupported"
       \/ att[cur].status \in {"idle", "done"} /\ Cardinality(finished) >= MaxTransfers
    /\ Transmit(Plain("poll"))
    /\ UNCHANGED <<cur, att, next_seq, cacheVars, commVars, rxVars, msgs, delivered,
                   finished, cut, clean, rerun, faults>>

\* Steps a steady sender does not take.
Stray ==
    /\ ~waiting /\ faults < MaxFaults
    /\ faults' = faults + 1
    /\ clean' = FALSE

\* It gives up half-way and begins something else, which may be too long.
StrayBegin ==
    /\ Stray
    /\ \E m \in Messages[cur] : Begin(m)
    /\ UNCHANGED rerun

\* It repeats or skips a continuation, or sends one that is cut short.
StrayFragment ==
    LET a == att[cur]
    IN  /\ Stray
        /\ a.status \in {"going", "failed"}
        /\ \E off \in {k * MaxFrag : k \in 1..a.msg.len} \cap 1..(a.msg.len - 1),
              whole \in {"yes", "data", "header"} :
                Transmit(Build(a.msg, IterFragment(Current, off, MaxFrag), whole))
        /\ UNCHANGED <<cur, att, next_seq, cacheVars, commVars, rxVars, msgs, delivered,
                       finished, cut, rerun>>

\* It abandons a manufacturer message with the marker, or anything with
\* osdp_ABORT.
StrayEnd ==
    LET a == att[cur]
    IN  /\ Stray
        /\ \/ a.status = "going" /\ a.msg.kind = "mfg"
              /\ Transmit(Build(a.msg, FragTerminate(a.msg.len), "yes"))
           \/ Transmit(Plain("abort"))
        /\ UNCHANGED <<cur, att, next_seq, cacheVars, commVars, rxVars, msgs, delivered,
                       finished, cut, rerun>>

\* Another application gets the slot.
StraySwitch ==
    /\ Stray
    /\ cur' \in Apps \ {cur}
    /\ UNCHANGED <<att, next_seq, waiting, out, cmd, rpl, cacheVars, commVars, rxVars, msgs,
                   delivered, finished, cut, ran, rerun>>

\* The sequence starts over: osdp_acu_register_pd, a lost session.
StrayResetSequence ==
    /\ Stray /\ next_seq # 0
    /\ next_seq' = 0
    /\ UNCHANGED <<cur, att, waiting, out, cmd, rpl, cacheVars, commVars, rxVars, msgs,
                   delivered, finished, cut, ran, rerun>>

\* The reply timeout, and the application's repeat.
Resend ==
    /\ waiting /\ cmd = NoCmd /\ rpl = NoRpl /\ ~OfflineDue
    /\ cmd' = out
    /\ quiet' = IF pd_online THEN quiet + 1 ELSE quiet
    /\ UNCHANGED <<ctlVars, rpl, cacheVars, pd_online, rxVars, histVars>>

\* What an answer tells the application about its attempt.
Answered(a, c, r) ==
    IF r.is = "BUSY" \/ c.is = "poll" THEN a
    ELSE IF c.is = "abort" THEN IF a.status = "going" THEN [a EXCEPT !.status = "failed"] ELSE a
    ELSE IF r.is = "NAK" /\ r.detail = "UNKNOWN_CMD"
    THEN [a EXCEPT !.status = "unsupported"]
    ELSE IF r.is = "NAK" \/ (r.is = "FTSTAT" /\ r.detail \notin {"OK", "PROCESSED"})
         \/ IsEarlyTermination(c)
    THEN [a EXCEPT !.status = "failed"]
    ELSE LET end == c.offset + Len(c.data)
         IN  [a EXCEPT !.off = end,
                       !.status = IF IterAtEnd(Current, end) THEN "done" ELSE "going"]

\* process_reply
TakeReply ==
    /\ rpl # NoRpl
    /\ rpl' = NoRpl
    /\ IF waiting /\ rpl.sqn = next_seq
       THEN LET a == Answered(att[cur], out, rpl)
            IN  /\ waiting' = FALSE
                /\ next_seq' = IF next_seq >= 3 THEN 1 ELSE next_seq + 1
                /\ att' = [att EXCEPT ![cur] = a]
                /\ finished' = IF a.status = "done" THEN finished \cup {a.id} ELSE finished
                /\ out' = NoCmd
       ELSE UNCHANGED <<waiting, next_seq, att, finished, out>>
    /\ UNCHANGED <<cur, cmd, cacheVars, commVars, rxVars, msgs, delivered, cut, clean, ran,
                   rerun, faults>>

Lose ==
    /\ faults < MaxFaults
    /\ \/ cmd # NoCmd /\ cmd' = NoCmd /\ UNCHANGED rpl
       \/ rpl # NoRpl /\ rpl' = NoRpl /\ UNCHANGED cmd
    /\ faults' = faults + 1
    /\ UNCHANGED <<ctlVars, cacheVars, commVars, rxVars, msgs, delivered, finished, cut, clean,
                   ran, rerun>>

-----------------------------------------------------------------------------
(* The PD: replies and the retransmit cache                                *)

MutIsRetransmit(c) == FALSE

\* is_retransmit
IsRetransmit(c) == c.sqn # 0 /\ have_last /\ last_cmd # NoCmd /\ last_cmd = c

\* send_bytes: a reply makes the PD online.
SendBytes(r) ==
    /\ rpl' = r
    /\ pd_online' = (pd_online \/ r # NoRpl)
    /\ quiet' = IF r = NoRpl THEN quiet ELSE 0

MutFinish(c, r) ==
    LET sent == IF r = NoRpl \/ r.is = "BUSY" THEN r ELSE [r EXCEPT !.sqn = c.sqn]
    IN  /\ cmd' = NoCmd
        /\ SendBytes(sent)
        /\ have_last' = TRUE /\ last_cmd' = c /\ last_rpl' = sent
        /\ ran' = TRUE
        /\ rerun' = (rerun \/ (ran /\ (c.sqn = 0 \/ Len(c.data) > CmdCacheData)))
        /\ UNCHANGED <<ctlVars, file_mode, mfg_bound, msgs, finished>>

\* The end of process_frame: cache_reply, or the reply that is not cached, and
\* send_bytes.  No reply is built for a verdict the library does not know.
Finish(c, r) ==
    LET sent == IF r = NoRpl \/ r.is = "BUSY" THEN r ELSE [r EXCEPT !.sqn = c.sqn]
    IN  /\ cmd' = NoCmd
        /\ SendBytes(sent)
        /\ IF r.is = "BUSY"
           THEN have_last' = FALSE /\ UNCHANGED <<last_cmd, last_rpl>>
           ELSE /\ have_last' = TRUE
                /\ last_cmd' = IF Len(c.data) > CmdCacheData THEN NoCmd ELSE c
                /\ last_rpl' = sent
        /\ ran' = TRUE
        /\ rerun' = (rerun \/ (ran /\ (c.sqn = 0 \/ Len(c.data) > CmdCacheData)))
        /\ UNCHANGED <<ctlVars, file_mode, mfg_bound, msgs, finished>>

\* A command that reaches the dispatch.
Fresh(c) == cmd = c /\ c # NoCmd /\ ~OfflineDue /\ ~IsRetransmit(c)

\* A retransmit is answered from the cache, or not at all.
PdRetransmit ==
    /\ cmd # NoCmd /\ ~OfflineDue /\ IsRetransmit(cmd)
    /\ cmd' = NoCmd
    /\ SendBytes(last_rpl)
    /\ UNCHANGED <<ctlVars, cacheVars, rxVars, histVars>>

\* check_offline_timeout; a transfer survives it, the cache does not.  A PD that
\* is offline already keeps its cache.
PdGoOffline ==
    /\ OfflineDue
    /\ pd_online' = FALSE
    /\ quiet' = 0
    /\ have_last' = FALSE
    /\ clean' = FALSE
    /\ UNCHANGED <<ctlVars, cmd, rpl, last_cmd, last_rpl, rxVars, msgs, delivered, finished,
                   cut, ran, rerun, faults>>

\* A callback that does not answer OK.
Verdict(v) ==
    IF v = "OK" THEN UNCHANGED <<clean, faults>>
    ELSE faults < MaxFaults /\ faults' = faults + 1 /\ clean' = FALSE

-----------------------------------------------------------------------------
(* osdp_FILETRANSFER                                                       *)

\* osdp_filetransfer_decode
FiletransferDecodes(c) == c.whole # "header" /\ c.size = Len(c.data)

MutFileInSequence(c) ==
    /\ c.offset # 0 => /\ ft.active
                       /\ c.offset = ft.received
                       /\ c.tag = ft.type /\ c.total = ft.total
    /\ Len(c.data) > 0 => c.offset + Len(c.data) <= c.total

\* The reassembly rules of osdp_pd_internal_filetransfer.
FileInSequence(c) ==
    /\ IF c.offset = 0
       THEN file_mode = "streaming" \/ c.total <= FileCap
       ELSE /\ ft.active
            /\ c.offset = ft.received
            /\ c.tag = ft.type /\ c.total = ft.total
    /\ Len(c.data) > 0 =>
        /\ c.offset + Len(c.data) <= c.total
        /\ file_mode = "streaming" \/ c.offset + Len(c.data) <= FileCap

\* The transfer record once the fragment is taken.
FileAfter(c) ==
    [active |-> TRUE, type |-> c.tag, total |-> c.total,
     received |-> (IF c.offset = 0 THEN 0 ELSE ft.received) + Len(c.data)]

MutFileStatus(v, complete) ==
    CASE complete            -> "PROCESSED"
      [] v = "OK"            -> "OK"
      [] v = "BAD_PAYLOAD"   -> "MALFORMED"
      [] v = "NOT_SUPPORTED" -> "UNRECOGNIZED"
      [] OTHER               -> "ABORT"

\* FtStatusDetail for file_cb's verdict
FileStatus(v, complete) ==
    CASE v = "OK"            -> IF complete THEN "PROCESSED" ELSE "OK"
      [] v = "BAD_PAYLOAD"   -> "MALFORMED"
      [] v = "NOT_SUPPORTED" -> "UNRECOGNIZED"
      [] OTHER               -> "ABORT"

\* handle_filetransfer refuses: no receiver, an undecodable payload, or a
\* fragment out of sequence, which ends the transfer.
FileRefused(c) ==
    /\ Fresh(c) /\ c.is = "frag" /\ c.kind = "file"
    /\ \/ file_mode = "none" /\ Finish(c, Nak("UNKNOWN_CMD")) /\ UNCHANGED ft
       \/ /\ file_mode # "none" /\ ~FiletransferDecodes(c)
          /\ Finish(c, Nak("CMD_LENGTH")) /\ UNCHANGED ft
       \/ /\ file_mode # "none" /\ FiletransferDecodes(c) /\ ~FileInSequence(c)
          /\ Finish(c, Reply("FTSTAT", "ABORT"))
          /\ ft' = IF c.offset = 0
                   THEN [active |-> FALSE, type |-> c.tag, total |-> c.total, received |-> 0]
                   ELSE [ft EXCEPT !.active = FALSE]
    /\ UNCHANGED <<file_buf, mfg, mfg_vendor, delivered, cut, clean, faults>>

\* handle_filetransfer takes a fragment and asks file_cb about it.
FileTaken(c, v) ==
    LET after    == FileAfter(c)
        complete == after.received >= after.total
    IN  /\ Fresh(c) /\ c.is = "frag" /\ c.kind = "file"
        /\ file_mode # "none" /\ FiletransferDecodes(c) /\ FileInSequence(c)
        /\ Verdict(v)
        /\ file_buf' = Copy(file_buf, c.offset, c.data)
        /\ ft' = [after EXCEPT !.active = v = "OK" /\ ~complete]
        /\ delivered' = IF complete
                        THEN Append(delivered, [kind |-> "file", tag |-> c.tag, ok |-> v = "OK",
                                                data |-> Contents(file_buf', c.total)])
                        ELSE delivered
        /\ Finish(c, Reply("FTSTAT", FileStatus(v, complete)))
        /\ UNCHANGED <<mfg, mfg_vendor, cut>>

\* osdp_pd_set_file_receiver, osdp_pd_set_file_stream
SetFileReceiver(mode) ==
    /\ Stray /\ mode # file_mode
    /\ file_mode' = mode
    /\ ft' = [ft EXCEPT !.active = FALSE, !.received = 0]
    /\ file_buf' = Empty
    /\ UNCHANGED <<ctlVars, cmd, rpl, cacheVars, commVars, mfg_bound, mfg, mfg_vendor, msgs,
                   delivered, finished, cut, ran, rerun>>

-----------------------------------------------------------------------------
(* osdp_MFG                                                                *)

\* A later fragment under another vendor code is refused.
VendorMatches(c) == c.offset = 0 \/ c.tag = mfg_vendor

\* apply_app_status
AppReply(v) ==
    CASE v = "OK"            -> Ack
      [] v = "NOT_SUPPORTED" -> Nak("UNKNOWN_CMD")
      [] v = "BAD_PAYLOAD"   -> Nak("CMD_LENGTH")
      [] v = "INVALID_ARG"   -> Nak("RECORD_INVALID")
      [] v = "BUSY"          -> Reply("BUSY", "none")
      [] OTHER               -> NoRpl

\* handle_mfg_multipart refuses.  Without a receiver the application's handler
\* has the command, and does not know it; a payload too short for a vendor
\* code leaves the reassembler alone; anything else resets it.
MfgRefused(c) ==
    LET push == ReasmPush(mfg, MfgCap, c)
    IN  /\ Fresh(c) /\ c.is = "frag" /\ c.kind = "mfg"
        /\ \/ ~mfg_bound /\ Finish(c, Nak("UNKNOWN_CMD")) /\ UNCHANGED <<mfg, mfg_vendor>>
           \/ /\ mfg_bound /\ c.whole = "header"
              /\ Finish(c, Nak("CMD_LENGTH")) /\ UNCHANGED <<mfg, mfg_vendor>>
           \/ /\ mfg_bound /\ c.whole # "header"
              /\ ~FragmentDecodes(c) \/ ~VendorMatches(c) \/ ~push.ok
              /\ mfg' = ReasmReset(mfg)
              /\ mfg_vendor' = IF FragmentDecodes(c) /\ c.offset = 0 THEN c.tag
                                                                    ELSE mfg_vendor
              /\ Finish(c, Nak("RECORD_INVALID"))
        /\ UNCHANGED <<ft, file_buf, delivered, cut, clean, faults>>

\* handle_mfg_multipart takes a fragment; a whole message goes to mfg_cb and
\* the reassembler is reset whatever it answers.
MfgTaken(c, v) ==
    LET push == ReasmPush(mfg, MfgCap, c)
    IN  /\ Fresh(c) /\ c.is = "frag" /\ c.kind = "mfg"
        /\ mfg_bound /\ c.whole # "header"
        /\ FragmentDecodes(c) /\ VendorMatches(c) /\ push.ok
        /\ mfg_vendor' = c.tag
        /\ IF push.state = "COMPLETE"
           THEN /\ Verdict(v)
                /\ delivered' = Append(delivered,
                        [kind |-> "mfg", tag |-> c.tag, ok |-> v = "OK",
                         data |-> Contents(push.r.buf, push.r.total)])
                /\ mfg' = ReasmReset(push.r)
                /\ Finish(c, AppReply(v))
                /\ UNCHANGED cut
           ELSE /\ v = "OK"
                /\ mfg' = push.r
                /\ Finish(c, Ack)
                /\ cut' = IF push.state = "TERMINATED"
                          THEN [cut EXCEPT !["mfg"] = Len(msgs)] ELSE cut
                /\ UNCHANGED <<delivered, clean, faults>>
        /\ UNCHANGED <<ft, file_buf>>

\* osdp_pd_set_mfg_receiver
SetMfgReceiver(bound) ==
    /\ Stray
    /\ mfg_bound' = bound
    /\ mfg' = ReasmInit(Empty)
    /\ mfg_vendor' = 0
    /\ UNCHANGED <<ctlVars, cmd, rpl, cacheVars, commVars, file_mode, ft, file_buf, msgs,
                   delivered, finished, cut, ran, rerun>>

-----------------------------------------------------------------------------
(* osdp_ABORT, osdp_POLL                                                   *)

MutHandleAbort(c, v) ==
    /\ Fresh(c) /\ c.is = "abort"
    /\ ft' = NoFile
    /\ cut' = [k \in {"file", "mfg"} |-> Len(msgs)]
    /\ Finish(c, IF v = "OK" THEN Ack ELSE Nak("UNKNOWN_CMD"))
    /\ UNCHANGED <<mfg, file_buf, mfg_vendor, delivered, clean, faults>>

\* handle_abort: everything in progress is dropped, even when abort_cb then
\* says that it could not be.
HandleAbort(c, v) ==
    /\ Fresh(c) /\ c.is = "abort"
    /\ ft' = NoFile
    /\ mfg' = ReasmReset(mfg)
    /\ cut' = [k \in {"file", "mfg"} |-> Len(msgs)]
    /\ Finish(c, IF v = "OK" THEN Ack ELSE Nak("UNKNOWN_CMD"))
    /\ UNCHANGED <<file_buf, mfg_vendor, delivered, clean, faults>>

\* An empty poll response
HandlePoll(c) ==
    /\ Fresh(c) /\ c.is = "poll"
    /\ Finish(c, Ack)
    /\ UNCHANGED <<ft, file_buf, mfg, mfg_vendor, delivered, cut, clean, faults>>

PdHandle ==
    \/ FileRefused(cmd)
    \/ \E v \in FileVerdicts : FileTaken(cmd, v)
    \/ MfgRefused(cmd)
    \/ \E v \in MfgVerdicts : MfgTaken(cmd, v)
    \/ \E v \in {"OK", "OTHER"} : HandleAbort(cmd, v)
    \/ HandlePoll(cmd)

-----------------------------------------------------------------------------
TransferNext ==
    \/ Start
    \/ SendNext
    \/ Poll
    \/ StrayBegin
    \/ StrayFragment
    \/ StrayEnd
    \/ StraySwitch
    \/ StrayResetSequence
    \/ Resend
    \/ TakeReply
    \/ Lose
    \/ PdRetransmit
    \/ PdGoOffline
    \/ PdHandle
    \/ \E mode \in {"none", "reassembly", "streaming"} : SetFileReceiver(mode)
    \/ \E bound \in BOOLEAN : SetMfgReceiver(bound)

TransferSpec == TransferInit /\ [][TransferNext]_transferVars

\* The sender keeps sending, both main loops keep ticking, and a frame that is
\* not lost arrives.
TransferFairSpec ==
    /\ TransferSpec
    /\ WF_transferVars(Start) /\ WF_transferVars(SendNext)
    /\ WF_transferVars(Resend) /\ WF_transferVars(TakeReply)
    /\ WF_transferVars(PdRetransmit) /\ WF_transferVars(PdHandle)
    /\ WF_transferVars(PdGoOffline)

-----------------------------------------------------------------------------
(* Properties                                                              *)

\* The reassembly buffers are never written past their capacity, and the
\* counters that say where the next byte goes stay inside the message.
BuffersBounded ==
    /\ DOMAIN mfg.buf \subseteq 0..(MfgCap - 1)
    /\ mfg.active => mfg.total <= MfgCap /\ mfg.received <= mfg.total
    /\ file_mode = "reassembly" => DOMAIN file_buf \subseteq 0..(FileCap - 1)
    /\ ft.active => ft.received <= ft.total
    /\ ft.active /\ file_mode = "reassembly" => ft.total <= FileCap

\* Every message handed up as complete is all of one attempt, each byte in its
\* place, under the vendor code or file type it was sent with: fragments
\* repeated, skipped, cut short, interleaved with another application's or
\* left over from an earlier attempt never get into it.
WholeMessage ==
    \A i \in 1..Len(delivered) :
        LET d == delivered[i]
        IN  \E n \in 1..Len(msgs) :
                /\ msgs[n].kind = d.kind /\ msgs[n].tag = d.tag
                /\ d.data = Body(n, msgs[n].len)

\* An attempt whose last fragment was answered with ACK or PROCESSED was handed
\* up whole and accepted by the callback.
FinishedIsDelivered ==
    \A n \in finished : \E i \in 1..Len(delivered) :
        delivered[i].ok /\ delivered[i].data = Body(n, msgs[n].len)

\* Lost commands and lost answers alone never make the PD refuse a message,
\* as long as repeats are answered from the cache.
LossHarmless == (clean /\ ~rerun) => att[cur].status # "failed"

\* Nothing sent before an osdp_ABORT or a termination marker is handed up
\* after it, even by a sender that goes on as if nothing had happened.
AbortForgets ==
    [][Len(delivered') > Len(delivered)
        => LET d == delivered'[Len(delivered')]
           IN  \A i \in 1..Len(d.data) : d.data[i].of > cut[d.kind]]_transferVars

\* The PD is offline and holds the outstanding command with no reply to it: no
\* repeat reaches the dispatch again, and no timeout clears the cache.
Swallowed == waiting /\ IsRetransmit(out) /\ last_rpl = NoRpl /\ ~pd_online

\* A sender that repeats what is not answered and starts over when refused gets
\* its message through once the line and the callback behave, or is told that
\* the PD has no receiver for it.  There is one way not to get there: mfg_cb
\* dropped the message without a reply while the PD was offline.
Delivers ==
    \A a \in Apps :
        (cur = a /\ att[a].status \in {"begun", "going", "failed"})
            ~> (att[a].status \in {"done", "unsupported"} \/ cur # a \/ Swallowed)
=============================================================================
