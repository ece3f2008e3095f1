------------------------------- MODULE Stream -------------------------------
(***************************************************************************)
(* How either end turns bytes into frames: the stream decoder              *)
(* (src/core/src/shared/stream.c), the drain and decode loops of           *)
(* osdp_acu_tick and osdp_pd_tick, and the inter-character timeout.        *)
(*                                                                         *)
(* Frames are scaled down to SOM, one LEN byte, one CTRL byte (1: CRC), a  *)
(* body, and checks no shorter than MinLen and MinLenCrc allow.  A byte    *)
(* remembers which transmission it belongs to and its place there, so that *)
(* the integrity check is exact: it passes on the bytes of one             *)
(* transmission, all of them, in order.                                    *)
(***************************************************************************)
EXTENDS Naturals, Sequences, SequencesExt

CONSTANTS
    Templates,      \* the byte strings the sender transmits
    Som,            \* OSDP_SOM
    HeaderLen,      \* OSDP_FRAME_HEADER_LEN
    MinLen,         \* OSDP_FRAME_MIN_LEN_CKSUM
    MinLenCrc,      \* OSDP_FRAME_MIN_LEN_CRC
    MaxLen,         \* OSDP_FRAME_MAX_LEN
    BufferLen,      \* OSDP_STREAM_BUFFER_LEN
    ChunkLen,       \* sizeof chunk in the drain loop
    Interchar,      \* OSDP_*_INTERCHAR_TIMEOUT_MS, in clock ticks
    Silence,        \* how long a sender waits before it repeats itself: the
                    \* reply timeout, which the build keeps above Interchar
    Bursts,         \* bounds: how many bytes may arrive between two ticks, one
                    \* of them for the whole behaviour
    MaxFrames,      \* bound: transmissions
    MaxLost         \* bound: bytes the line loses

ASSUME StreamAssumption ==
    /\ HeaderLen \in Nat /\ 3 <= HeaderLen /\ HeaderLen < MinLen
    /\ MinLen \in Nat /\ MinLenCrc \in Nat
    /\ MaxLen \in Nat /\ BufferLen \in Nat \ {0}
    /\ ChunkLen \in Nat \ {0} /\ Interchar \in Nat \ {0}
    /\ Silence \in Nat /\ Silence > Interchar
    /\ Bursts \subseteq Nat
    /\ \A t \in Templates : t \in Seq(Nat) /\ Len(t) > 0

VARIABLES
    \* the sender and the line
    rest,             \* bytes of the current transmission still to be sent
    sent,             \* transmissions started
    lost,             \* bytes lost
    burst,            \* the bytes the driver may hold between two ticks
    gap,              \* time since the last byte, saturating
    intact,           \* the transmission has lost nothing and never paused
    queue,            \* bytes in the receiving driver
    \* osdp_stream_t and the receiving end
    buffer, pending_consume,
    rx_partial_len,
    partial_age,      \* now - rx_partial_ms, saturating
    pc,               \* "idle" between two ticks, else where the tick is
    drained,
    \* history
    looked,           \* a tick has ended since the clock last moved
    good,             \* intact transmissions that began after a silence
    decoded           \* transmissions handed to process_frame, in order

senderVars == <<rest, sent, lost, gap, intact, good, burst>>
rxVars     == <<buffer, pending_consume, rx_partial_len, partial_age, pc, drained,
                looked, decoded>>
streamVars == <<senderVars, queue, rxVars>>

Bytes == [v : Nat, of : Nat, at : Nat, last : BOOLEAN]

Byte(n, t, k) == [v |-> t[k], of |-> n, at |-> k, last |-> k = Len(t)]

StreamInit ==
    /\ rest = <<>> /\ sent = 0 /\ lost = 0
    /\ burst \in Bursts
    /\ gap = Silence /\ intact = FALSE
    /\ queue = <<>>
    /\ buffer = <<>> /\ pending_consume = 0
    /\ rx_partial_len = 0 /\ partial_age = 0
    /\ pc = "idle" /\ drained = 0
    /\ looked = FALSE /\ good = {} /\ decoded = <<>>

-----------------------------------------------------------------------------
(* osdp_stream_t                                                           *)

\* osdp_stream_consume
Consume(b, n) == IF n >= Len(b) THEN <<>> ELSE SubSeq(b, n + 1, Len(b))

MutFeed(b, chunk) == b \o chunk

\* The copy loop of osdp_stream_feed: a full buffer gives up its oldest byte
\* for each byte that is still to come.
Feed(b, chunk) ==
    LET all == b \o chunk
    IN  IF Len(all) > BufferLen THEN Consume(all, Len(all) - BufferLen) ELSE all

\* osdp_stream_resync_to_som
Resync(b) ==
    LET i == SelectInSeq(b, LAMBDA x : x.v = Som)
    IN  IF i = 0 THEN <<>> ELSE Consume(b, i - 1)

\* osdp_stream_pending
StreamPending ==
    IF Len(buffer) > pending_consume THEN Len(buffer) - pending_consume ELSE 0

\* osdp_frame_decode of the first len bytes.  A header that promises a CRC in
\* a frame too short for one is reported as TRUNCATED, like a partial frame.
Decode(b, len) ==
    IF b[3].v = 1 /\ len < MinLenCrc THEN "TRUNCATED"
    ELSE IF /\ \A k \in 1..len : b[k].of = b[1].of /\ b[k].at = k
            /\ b[len].last
         THEN "OK"
    ELSE "BAD"

MutNextCall(b) ==
    LET r   == Resync(b)
        len == r[2].v
    IN  IF Len(r) < HeaderLen
        THEN [status |-> "TRUNCATED", left |-> r, frame |-> 0]
        ELSE IF len < MinLen \/ len > MaxLen
        THEN [status |-> "BAD", left |-> Consume(r, 1), frame |-> 0]
        ELSE IF Len(r) < len
        THEN [status |-> "TRUNCATED", left |-> r, frame |-> 0]
        ELSE IF Decode(r, len) # "OK"
        THEN [status |-> Decode(r, len), left |-> r, frame |-> 0]
        ELSE [status |-> "OK", left |-> r, frame |-> len]

\* osdp_stream_next, after the deferred bytes are dropped: the status, what is
\* left in the buffer and the bytes the next call will drop.
NextCall(b) ==
    LET r   == Resync(b)
        len == r[2].v
    IN  IF Len(r) < HeaderLen
        THEN [status |-> "TRUNCATED", left |-> r, frame |-> 0]
        ELSE IF len < MinLen \/ len > MaxLen
        THEN [status |-> "BAD", left |-> Consume(r, 1), frame |-> 0]
        ELSE IF Len(r) < len
        THEN [status |-> "TRUNCATED", left |-> r, frame |-> 0]
        ELSE IF Decode(r, len) # "OK"
        THEN [status |-> Decode(r, len), left |-> Consume(r, 1), frame |-> 0]
        ELSE [status |-> "OK", left |-> r, frame |-> len]

-----------------------------------------------------------------------------
(* The sender and the line.  Bytes arrive between two ticks: a byte that    *)
(* comes in while a tick reads is one that came just before it.            *)

\* A new transmission begins.
BeginFrame(t) ==
    /\ pc = "idle" /\ rest = <<>> /\ sent < MaxFrames
    /\ rest' = [k \in 1..Len(t) |-> Byte(sent + 1, t, k)]
    /\ sent' = sent + 1
    /\ intact' = (gap >= Silence)
    /\ UNCHANGED <<lost, gap, good, burst, queue, rxVars>>

\* The next byte reaches the driver, or is lost.  A transmission stays intact
\* while it loses nothing and pauses for less than the inter-character timeout.
SendByte(lose) ==
    LET whole == intact /\ ~lose /\ (Head(rest).at = 1 \/ gap < Interchar)
    IN  /\ pc = "idle" /\ rest # <<>>
        /\ IF lose THEN lost < MaxLost ELSE Len(queue) < burst
        /\ rest' = Tail(rest)
        /\ lost' = IF lose THEN lost + 1 ELSE lost
        /\ queue' = IF lose THEN queue ELSE Append(queue, Head(rest))
        /\ gap' = IF lose THEN gap ELSE 0
        /\ intact' = whole
        /\ good' = IF whole /\ Head(rest).last THEN good \cup {sent} ELSE good
        /\ UNCHANGED <<sent, burst, rxVars>>

\* The sender gives a transmission up half-way.
AbandonFrame ==
    /\ pc = "idle" /\ rest # <<>> /\ lost < MaxLost
    /\ rest' = <<>> /\ lost' = MaxLost
    /\ intact' = FALSE
    /\ UNCHANGED <<sent, gap, good, burst, queue, rxVars>>

-----------------------------------------------------------------------------
(* One tick of the receiving end                                           *)

\* The drain loop: one read and osdp_stream_feed, until the driver is empty
\* or a buffer's worth has been read.
Drain ==
    LET n == IF Len(queue) < ChunkLen THEN Len(queue) ELSE ChunkLen
    IN  /\ pc \in {"idle", "drain"}
        /\ IF n = 0
           THEN /\ pc' = "decode"
                /\ UNCHANGED <<queue, buffer, pending_consume, drained>>
           ELSE /\ queue' = SubSeq(queue, n + 1, Len(queue))
                /\ buffer' = Feed(Consume(buffer, pending_consume), SubSeq(queue, 1, n))
                /\ pending_consume' = 0
                /\ drained' = drained + n
                /\ pc' = IF drained + n >= BufferLen THEN "decode" ELSE "drain"
        /\ UNCHANGED <<senderVars, rx_partial_len, partial_age, looked, decoded>>

MutDecodeNext ==
    LET s == NextCall(Consume(buffer, pending_consume))
    IN  /\ pc = "decode"
        /\ buffer' = s.left
        /\ pending_consume' = 0
        /\ decoded' = IF s.status = "OK" THEN Append(decoded, s.left[1].of) ELSE decoded
        /\ pc' = IF s.status = "TRUNCATED" THEN "check" ELSE "decode"
        /\ UNCHANGED <<senderVars, queue, rx_partial_len, partial_age, drained, looked>>

\* The decode loop: one osdp_stream_next, until it says TRUNCATED.
DecodeNext ==
    LET s == NextCall(Consume(buffer, pending_consume))
    IN  /\ pc = "decode"
        /\ buffer' = s.left
        /\ pending_consume' = s.frame
        /\ decoded' = IF s.status = "OK" THEN Append(decoded, s.left[1].of) ELSE decoded
        /\ pc' = IF s.status = "TRUNCATED" THEN "check" ELSE "decode"
        /\ UNCHANGED <<senderVars, queue, rx_partial_len, partial_age, drained, looked>>

MutCheckInterchar ==
    /\ pc = "check"
    /\ rx_partial_len' = StreamPending
    /\ partial_age' = 0
    /\ pc' = "idle" /\ drained' = 0 /\ looked' = TRUE
    /\ UNCHANGED <<senderVars, queue, buffer, pending_consume, decoded>>

\* check_interchar_timeout
CheckInterchar ==
    /\ pc = "check"
    /\ IF StreamPending # rx_partial_len
       THEN /\ rx_partial_len' = StreamPending
            /\ partial_age' = IF StreamPending = 0 THEN partial_age ELSE 0
            /\ UNCHANGED <<buffer, pending_consume>>
       ELSE IF StreamPending # 0 /\ partial_age >= Interchar
       THEN /\ buffer' = <<>> /\ pending_consume' = 0
            /\ rx_partial_len' = 0
            /\ UNCHANGED partial_age
       ELSE UNCHANGED <<buffer, pending_consume, rx_partial_len, partial_age>>
    /\ pc' = "idle" /\ drained' = 0 /\ looked' = TRUE
    /\ UNCHANGED <<senderVars, queue, decoded>>

\* The clock.  The main loop ticks the end at least once per unit of it, and a
\* tick takes less than that.
Clock ==
    /\ pc = "idle" /\ looked /\ looked' = FALSE
    /\ gap' = IF gap >= Silence THEN gap ELSE gap + 1
    /\ partial_age' = IF partial_age > Interchar THEN partial_age ELSE partial_age + 1
    /\ UNCHANGED <<rest, sent, lost, intact, good, burst, queue, buffer, pending_consume,
                   rx_partial_len, pc, drained, decoded>>

StreamNext ==
    \/ \E t \in Templates : BeginFrame(t)
    \/ \E lose \in BOOLEAN : SendByte(lose)
    \/ AbandonFrame
    \/ Drain
    \/ DecodeNext
    \/ CheckInterchar
    \/ Clock

StreamSpec == StreamInit /\ [][StreamNext]_streamVars

-----------------------------------------------------------------------------
(* Properties                                                              *)

\* The decoder never holds more than its buffer and never promises to drop
\* more than it holds.
StreamTypeOK ==
    /\ rest \in Seq(Bytes) /\ queue \in Seq(Bytes) /\ buffer \in Seq(Bytes)
    /\ sent \in Nat /\ pending_consume \in Nat
    /\ Len(buffer) <= BufferLen
    /\ pending_consume <= Len(buffer)
    /\ pc \in {"idle", "drain", "decode", "check"}

\* A transmission is handed on at most once and never before an earlier one,
\* whatever bytes were lost around it and whatever its payload looks like.
DecodedInOrder ==
    \A i, j \in 1..Len(decoded) : i < j => decoded[i] < decoded[j]

\* After a silence the receiver has forgotten what it held of a broken frame:
\* the transmission that follows, if none of its own bytes are lost, has been
\* decoded by the end of the tick that empties the driver.  The end is ticked
\* before more than one chunk arrives; a later one may find the remains of the
\* broken frame and the new one together.
CleanFrameDecoded ==
    (burst <= ChunkLen /\ pc = "idle" /\ queue = <<>>) =>
        \A n \in good : \E i \in 1..Len(decoded) : decoded[i] = n

\* The decode loop comes to an end: a call of osdp_stream_next that lets it go
\* on leaves fewer bytes to look at.
DecodeProgress ==
    LET s == NextCall(Consume(buffer, pending_consume))
    IN  (pc = "decode" /\ s.status # "TRUNCATED")
            => Len(s.left) - s.frame < StreamPending
=============================================================================
