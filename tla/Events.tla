------------------------------- MODULE Events -------------------------------
(***************************************************************************)
(* Card reads, key presses and other poll responses on their way to the    *)
(* controller: the PD's event queue (src/pd/src/pd.c), the POLL that takes *)
(* an event out of it, the retransmit cache that keeps the reply, and a    *)
(* controller that polls with the same sequence number until it is         *)
(* answered.  No Secure Channel; the controller sends nothing but POLL.    *)
(*                                                                         *)
(* The queue is kept as the code keeps it, as cells of a byte buffer; an   *)
(* event is its number, which stands for its code and its content.         *)
(***************************************************************************)
EXTENDS Naturals, Sequences

CONSTANTS
    Sizes,           \* payload lengths the application enqueues
    EventCap,        \* event_cap
    ScratchLen,      \* OSDP_PD_REPLY_SCRATCH_LEN
    PdOfflineTimeout,\* OSDP_PD_OFFLINE_TIMEOUT_MS, in clock ticks
    MaxEvents,       \* bound: events enqueued
    MaxFlight        \* bound: replies on the line

ASSUME EventsAssumption ==
    /\ Sizes \subseteq Nat /\ EventCap \in Nat /\ ScratchLen \in Nat
    /\ PdOfflineTimeout \in Nat /\ MaxEvents \in Nat /\ MaxFlight \in Nat \ {0}

VARIABLES
    event_buf,       \* the occupied cells; event_len is their number
    have_last, last, \* the retransmit cache: the number polled with, the event
    online, comm_age,
    poll,            \* the POLL on the line: its sequence number, or NoPoll
    replies,         \* replies on the line, oldest first
    next_seq, waiting,
    \* history
    events,          \* events accepted so far: 1..events
    size,            \* size[e]: the payload length of e
    got,             \* the events handed to the controller's application
    dropped,         \* events given up on purpose
    outage           \* events 1..outage happened before the last outage

pdVars  == <<event_buf, have_last, last, online, comm_age>>
acuVars == <<next_seq, waiting, got>>
histVars == <<events, size, dropped, outage>>
vars    == <<pdVars, acuVars, poll, replies, histVars>>

NoPoll == 4
NoEvent == 0
HeaderBytes == 3

EventsInit ==
    /\ event_buf = <<>>
    /\ have_last = FALSE /\ last = [sqn |-> 0, ev |-> NoEvent]
    /\ online = FALSE /\ comm_age = 0
    /\ poll = NoPoll /\ replies = <<>>
    /\ next_seq = 0 /\ waiting = FALSE /\ got = <<>>
    /\ events = 0 /\ dropped = {} /\ outage = 0
    /\ size = [e \in 1..MaxEvents |-> 0]

-----------------------------------------------------------------------------
(* The queue                                                               *)

\* How osdp_pd_enqueue_event lays a record out.
Cells(e, n) ==
    <<[is |-> "lo", v |-> n % 256], [is |-> "hi", v |-> n \div 256],
      [is |-> "code", v |-> e]>> \o [k \in 1..n |-> [is |-> "data", v |-> e]]

\* The length osdp_pd_internal_dequeue_event reads back.
HeadLen(buf) == buf[1].v + 256 * buf[2].v

\* The memmove over the first record.
AfterDequeue(buf) == SubSeq(buf, HeaderBytes + HeadLen(buf) + 1, Len(buf))

\* Where the code cells are, and the numbers of the events they name.
Codes(buf) == {k \in 1..Len(buf) : buf[k].is = "code"}
Held(buf) == {buf[c].v : c \in Codes(buf)}

MutHasRoom(n) == n <= EventCap - Len(event_buf)

\* event_len never exceeds event_cap, so the subtraction does not wrap.
HasRoom(n) == HeaderBytes + n <= EventCap - Len(event_buf)

\* osdp_pd_enqueue_event; without room the application is told so.
EnqueueEvent(n) ==
    /\ events < MaxEvents
    /\ HasRoom(n)
    /\ events' = events + 1
    /\ event_buf' = event_buf \o Cells(events + 1, n)
    /\ size' = [size EXCEPT ![events + 1] = n]
    /\ UNCHANGED <<have_last, last, online, comm_age, acuVars, poll, replies,
                   dropped, outage>>

\* osdp_pd_clear_events, osdp_pd_set_event_queue
ClearEvents ==
    /\ event_buf # <<>>
    /\ event_buf' = <<>>
    /\ dropped' = dropped \cup Held(event_buf)
    /\ UNCHANGED <<have_last, last, online, comm_age, acuVars, poll, replies, events,
                   size, outage>>

-----------------------------------------------------------------------------
(* osdp_pd_tick                                                            *)

PdOfflineDue == online /\ comm_age > PdOfflineTimeout

MutPdGoOffline ==
    /\ PdOfflineDue
    /\ online' = FALSE
    /\ have_last' = FALSE
    /\ dropped' = dropped \cup (IF have_last THEN {last.ev} ELSE {})
    /\ outage' = events
    /\ UNCHANGED <<event_buf, last, comm_age, acuVars, poll, replies, events, size>>

\* check_offline_timeout: an unreported event, and one whose reply may not
\* have arrived, is given up.
PdGoOffline ==
    /\ PdOfflineDue
    /\ online' = FALSE
    /\ have_last' = FALSE
    /\ event_buf' = <<>>
    /\ dropped' = dropped \cup Held(event_buf)
                    \cup (IF have_last THEN {last.ev} ELSE {})
    /\ outage' = events
    /\ UNCHANGED <<last, comm_age, acuVars, poll, replies, events, size>>

MutIsRetransmit(s) == FALSE

\* is_retransmit, for a controller that sends nothing but POLL
IsRetransmit(s) == s # 0 /\ have_last /\ last.sqn = s

\* send_bytes
Sent(r) ==
    /\ replies' = Append(replies, r)
    /\ online' = TRUE /\ comm_age' = 0

\* process_frame for a POLL: a retransmit is answered from the cache; a fresh
\* POLL takes the first event out of the queue, except that an event longer
\* than the scratch buffer is dropped and the application answers with ACK.
\* Sequence number 0 is never recognised again, so an event answered at 0
\* is not kept for a repeat.
PdPoll ==
    LET ev == IF event_buf = <<>> \/ HeadLen(event_buf) > ScratchLen
              THEN NoEvent ELSE event_buf[3].v
    IN  /\ poll # NoPoll /\ ~PdOfflineDue
        /\ Len(replies) < MaxFlight
        /\ poll' = NoPoll
        /\ IF IsRetransmit(poll)
           THEN /\ Sent(last)
                /\ UNCHANGED <<event_buf, have_last, last, dropped>>
           ELSE /\ Sent([sqn |-> poll, ev |-> ev])
                /\ have_last' = TRUE
                /\ last' = [sqn |-> poll, ev |-> ev]
                /\ event_buf' = IF event_buf = <<>> THEN <<>>
                                                    ELSE AfterDequeue(event_buf)
                /\ dropped' = dropped
                        \cup (IF poll = 0 THEN {ev} ELSE {})
                        \cup (IF event_buf # <<>> /\ ev = NoEvent
                              THEN {event_buf[3].v} ELSE {})
        /\ UNCHANGED <<acuVars, events, size, outage>>

-----------------------------------------------------------------------------
(* The controller and the line                                             *)

\* osdp_acu_send_command of a POLL
AcuPoll ==
    /\ ~waiting /\ poll = NoPoll
    /\ waiting' = TRUE
    /\ poll' = next_seq
    /\ UNCHANGED <<pdVars, next_seq, got, replies, histVars>>

\* The reply timeout: the same number is polled with again.
AcuTimeout ==
    /\ waiting
    /\ waiting' = FALSE
    /\ UNCHANGED <<pdVars, next_seq, got, poll, replies, histVars>>

MutAcuReply ==
    LET r == Head(replies)
    IN  /\ replies # <<>>
        /\ replies' = Tail(replies)
        /\ IF waiting
           THEN /\ waiting' = FALSE
                /\ next_seq' = IF next_seq >= 3 THEN 1 ELSE next_seq + 1
                /\ got' = IF r.ev = NoEvent THEN got ELSE Append(got, r.ev)
           ELSE UNCHANGED acuVars
        /\ UNCHANGED <<pdVars, poll, histVars>>

\* process_reply and osdp_acu_internal_deliver_reply
AcuReply ==
    LET r == Head(replies)
    IN  /\ replies # <<>>
        /\ replies' = Tail(replies)
        /\ IF waiting /\ r.sqn = next_seq
           THEN /\ waiting' = FALSE
                /\ next_seq' = IF next_seq >= 3 THEN 1 ELSE next_seq + 1
                /\ got' = IF r.ev = NoEvent THEN got ELSE Append(got, r.ev)
           ELSE UNCHANGED acuVars
        /\ UNCHANGED <<pdVars, poll, histVars>>

Lose ==
    /\ \/ poll # NoPoll /\ poll' = NoPoll /\ UNCHANGED replies
       \/ replies # <<>> /\ replies' = Tail(replies) /\ UNCHANGED poll
    /\ UNCHANGED <<pdVars, acuVars, histVars>>

\* A tick of this clock stands for seconds: no frame stays on the line so long.
Clock ==
    /\ poll = NoPoll /\ replies = <<>>
    /\ comm_age' = IF online /\ comm_age <= PdOfflineTimeout THEN comm_age + 1
                                                             ELSE comm_age
    /\ UNCHANGED <<event_buf, have_last, last, online, acuVars, poll, replies, events,
                   size, dropped, outage>>

EventsNext ==
    \/ \E n \in Sizes : EnqueueEvent(n)
    \/ ClearEvents
    \/ PdGoOffline
    \/ PdPoll
    \/ AcuPoll
    \/ AcuTimeout
    \/ AcuReply
    \/ Lose
    \/ Clock

EventsSpec == EventsInit /\ [][EventsNext]_vars

-----------------------------------------------------------------------------
(* Properties                                                              *)

\* The cells around the code cell at c are one whole record.
RecordAt(buf, sizes, c) ==
    LET e == buf[c].v
    IN  /\ 3 <= c /\ c + sizes[e] <= Len(buf)
        /\ \A k \in 1..(3 + sizes[e]) : buf[c - 3 + k] = Cells(e, sizes[e])[k]

\* From its first cell to its last the buffer is one record after the other,
\* oldest event first.
WholeRecords(buf, sizes) ==
    /\ buf # <<>> => 3 \in Codes(buf)
    /\ \A c \in Codes(buf) :
          LET end == c + sizes[buf[c].v]
          IN  RecordAt(buf, sizes, c) /\ (end = Len(buf) \/ end + 3 \in Codes(buf))
    /\ \A c, d \in Codes(buf) : c < d => buf[c].v < buf[d].v

\* The buffer always holds whole records, in the order they were accepted, and
\* never more than its capacity: osdp_pd_internal_dequeue_event never meets the
\* "corrupt queue" it guards against.
BufferHoldsRecords == Len(event_buf) <= EventCap /\ WholeRecords(event_buf, size)

\* The controller sees an event at most once, and events in the order in which
\* they happened, however often a poll or its reply is lost and repeated.
EventsInOrder == \A i, j \in 1..Len(got) : i < j => got[i] < got[j]

\* An event that was accepted is not forgotten: until the controller has it, it
\* is in the queue or in the reply a repeated poll will fetch, unless it was
\* given up on purpose.
NoEventForgotten ==
    \A e \in 1..events :
        \/ e \in dropped
        \/ e \in Held(event_buf)
        \/ have_last /\ last.ev = e
        \/ \E i \in 1..Len(got) : got[i] = e

\* What happened before a communication loss is not reported after it.
OutageDiscards == [][got' # got => got'[Len(got')] > outage]_vars

=============================================================================
