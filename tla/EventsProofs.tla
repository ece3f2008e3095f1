---------------------------- MODULE EventsProofs ----------------------------
(***************************************************************************)
(* For every queue size, set of payload lengths, offline timeout and       *)
(* number of replies in flight: the event queue holds whole records, the   *)
(* controller sees events in order and at most once, none is forgotten,    *)
(* and none is reported across an outage.                                  *)
(***************************************************************************)
EXTENDS Events, SequenceTheorems, TLAPS

-----------------------------------------------------------------------------
(* The inductive invariant                                                 *)

Cell == [is : {"lo", "hi", "code", "data"}, v : Nat]
Report == [sqn : 0..3, ev : Nat]

EventsTypeOK ==
    /\ event_buf \in Seq(Cell) /\ size \in [1..MaxEvents -> Nat]
    /\ events \in Nat /\ events <= MaxEvents
    /\ last \in Report /\ comm_age \in Nat
    /\ poll \in 0..4 /\ replies \in Seq(Report) /\ next_seq \in 0..3
    /\ outage \in Nat /\ outage <= events
    /\ got \in Seq(Nat) /\ \A i \in 1..Len(got) : got[i] <= events

\* The queue: whole records of events that were accepted and that are newer
\* than the last outage and than all the controller has.
QueueInv ==
    /\ BufferHoldsRecords
    /\ \A h \in Held(event_buf) :
          h \in 1..events /\ outage < h /\ \A i \in 1..Len(got) : got[i] < h

\* An event the controller may still accept: newer than what it has and than
\* the outage, older than what is queued.
News(e) ==
    e # NoEvent =>
        /\ outage < e /\ e <= events
        /\ \A i \in 1..Len(got) : got[i] < e
        /\ \A h \in Held(event_buf) : e < h

\* A POLL the controller has had its answer to.
Late == poll \notin {NoPoll, next_seq}

\* A repeat of an answered poll is still in the cache, and every answer on the
\* line is older than the number polled with next.
LateInv ==
    Late => /\ have_last /\ last.sqn = poll
            /\ \A i \in 1..Len(replies) : replies[i].sqn # next_seq

\* Nothing on the line outlives the offline timeout.
PromptInv == (replies # <<>> \/ Late) => comm_age = 0

\* An answer to the current number is news, is what the cache holds (except at
\* number 0) and is followed by such answers only.
ReplyInv ==
    \A i \in 1..Len(replies) :
        replies[i].sqn = next_seq =>
            /\ have_last /\ last.sqn = next_seq
            /\ News(replies[i].ev)
            /\ next_seq # 0 => replies[i].ev = last.ev
            /\ \A j \in i..Len(replies) : replies[j].sqn = next_seq

\* What the cache holds is news as long as the controller waits for it, and
\* settled once it may be overwritten.
CacheInv ==
    /\ have_last /\ last.sqn = next_seq => News(last.ev)
    /\ have_last /\ (last.sqn # next_seq \/ last.sqn = 0) =>
          \/ last.ev \in dropped \cup {NoEvent}
          \/ \E i \in 1..Len(got) : got[i] = last.ev

EventsInv ==
    /\ EventsTypeOK /\ QueueInv
    /\ LateInv /\ PromptInv /\ ReplyInv /\ CacheInv
    /\ EventsInOrder /\ NoEventForgotten

-----------------------------------------------------------------------------
(* The byte buffer                                                         *)

\* Two runs of cells, one after the other.
LEMMA Joined ==
    ASSUME NEW s \in Seq(Cell), NEW t \in Seq(Cell)
    PROVE  /\ s \o t \in Seq(Cell) /\ Len(s \o t) = Len(s) + Len(t)
           /\ \A k \in 1..Len(s) : (s \o t)[k] = s[k]
           /\ \A k \in 1..Len(t) : (s \o t)[Len(s) + k] = t[k]
<1>1. /\ s \o t \in Seq(Cell) /\ Len(s \o t) = Len(s) + Len(t)
      /\ \A i \in 1..(Len(s) + Len(t)) :
            (s \o t)[i] = IF i <= Len(s) THEN s[i] ELSE t[i - Len(s)]
  BY ConcatProperties, Zenon
<1>2. Len(s) \in Nat /\ Len(t) \in Nat
  BY LenProperties, Zenon
<1>. QED BY <1>1, <1>2

\* The cells r are a record of event e with a payload of n bytes.
RecordCells(r, e, n) ==
    /\ r \in Seq(Cell) /\ Len(r) = 3 + n
    /\ r[1].is = "lo" /\ r[2].is = "hi" /\ r[3].is = "code" /\ r[3].v = e
    /\ \A k \in 4..(3 + n) : r[k].is = "data"
    /\ HeadLen(r) = n

\* osdp_pd_enqueue_event lays out two length cells, a code cell and the data;
\* the length read back is the length written.
LEMMA CellsShape ==
    ASSUME NEW e \in Nat, NEW n \in Nat
    PROVE  RecordCells(Cells(e, n), e, n)
<1>. DEFINE h == <<[is |-> "lo", v |-> n % 256], [is |-> "hi", v |-> n \div 256],
                   [is |-> "code", v |-> e]>>
            d == [k \in 1..n |-> [is |-> "data", v |-> e]]
<1>1. n % 256 \in Nat /\ n \div 256 \in Nat /\ (n % 256) + 256 * (n \div 256) = n
  OBVIOUS
<1>2. h \in Seq(Cell) /\ Len(h) = 3
  BY <1>1 DEF Cell
<1>3. d \in Seq(Cell) /\ Len(d) = n
  BY DEF Cell
<1>4. Cells(e, n) = h \o d
  BY DEF Cells
<1>5. /\ h[1] = [is |-> "lo", v |-> n % 256] /\ h[2] = [is |-> "hi", v |-> n \div 256]
      /\ h[3] = [is |-> "code", v |-> e]
  OBVIOUS
<1>6. \A k \in 1..n : d[k].is = "data"
  OBVIOUS
<1>. HIDE DEF h, d
<1>7. /\ h \o d \in Seq(Cell) /\ Len(h \o d) = 3 + n
      /\ \A k \in 1..3 : (h \o d)[k] = h[k]
      /\ \A k \in 1..n : (h \o d)[3 + k] = d[k]
  <2>1. /\ h \o d \in Seq(Cell) /\ Len(h \o d) = Len(h) + Len(d)
        /\ \A k \in 1..Len(h) : (h \o d)[k] = h[k]
        /\ \A k \in 1..Len(d) : (h \o d)[Len(h) + k] = d[k]
    BY <1>2, <1>3, Joined, Zenon
  <2>. QED BY <2>1, <1>2, <1>3
<1>8. ASSUME NEW k \in 4..(3 + n) PROVE (h \o d)[k].is = "data"
  <2>1. k - 3 \in 1..n /\ 3 + (k - 3) = k
    OBVIOUS
  <2>. QED BY <2>1, <1>6, <1>7
<1>9. /\ (h \o d)[1] = h[1] /\ (h \o d)[2] = h[2] /\ (h \o d)[3] = h[3]
  BY <1>7
<1>10. /\ (h \o d)[1].is = "lo" /\ (h \o d)[2].is = "hi"
       /\ (h \o d)[3].is = "code" /\ (h \o d)[3].v = e
  BY <1>5, <1>9
<1>11. HeadLen(h \o d) = n
  BY <1>1, <1>5, <1>9 DEF HeadLen
<1>. QED BY <1>4, <1>7, <1>8, <1>10, <1>11 DEF RecordCells

\* A record added at the end leaves whole records.
LEMMA EnqueueKeepsRecords ==
    ASSUME NEW b \in Seq(Cell), NEW sz \in [1..MaxEvents -> Nat], MaxEvents \in Nat,
           NEW e \in 1..MaxEvents, NEW n \in Nat,
           WholeRecords(b, sz), \A h \in Held(b) : h \in 1..MaxEvents /\ h < e
    PROVE  /\ WholeRecords(b \o Cells(e, n), [sz EXCEPT ![e] = n])
           /\ Held(b \o Cells(e, n)) = Held(b) \cup {e}
<1>. DEFINE r   == Cells(e, n)
            b2  == b \o r
            sz2 == [sz EXCEPT ![e] = n]
<1>1. /\ r \in Seq(Cell) /\ Len(r) = 3 + n /\ r[3].v = e
      /\ \A k \in 1..(3 + n) : r[k].is = "code" <=> k = 3
  <2>1. RecordCells(r, e, n)
    BY CellsShape
  <2>. HIDE DEF r
  <2>2. ASSUME NEW k \in 1..(3 + n) PROVE r[k].is = "code" <=> k = 3
    <3>1. k = 1 \/ k = 2 \/ k = 3 \/ k \in 4..(3 + n)
      OBVIOUS
    <3>. QED BY <3>1, <2>1 DEF RecordCells
  <2>. QED BY <2>1, <2>2 DEF RecordCells
<1>. HIDE DEF r
<1>2. /\ b2 \in Seq(Cell) /\ Len(b2) = Len(b) + 3 + n
      /\ \A k \in 1..Len(b) : b2[k] = b[k]
      /\ \A k \in 1..(3 + n) : b2[Len(b) + k] = r[k]
  <2>1. /\ b2 \in Seq(Cell) /\ Len(b2) = Len(b) + Len(r)
        /\ \A k \in 1..Len(b) : b2[k] = b[k]
        /\ \A k \in 1..Len(r) : b2[Len(b) + k] = r[k]
    BY <1>1, Joined, Zenon
  <2>. QED BY <2>1, <1>1
<1>3. Codes(b2) = Codes(b) \cup {Len(b) + 3}
  <2>1. ASSUME NEW k \in 1..Len(b2)
        PROVE  b2[k].is = "code" <=> k \in Codes(b) \/ k = Len(b) + 3
    <3>1. CASE k <= Len(b)
      BY <3>1, <1>2 DEF Codes
    <3>2. CASE k > Len(b)
      <4>1. k - Len(b) \in 1..(3 + n) /\ Len(b) + (k - Len(b)) = k
        BY <3>2, <1>2
      <4>2. b2[k] = r[k - Len(b)]
        BY <4>1, <1>2
      <4>3. b2[k].is = "code" <=> k - Len(b) = 3
        BY <4>1, <4>2, <1>1
      <4>. QED BY <3>2, <4>1, <4>3 DEF Codes
    <3>. QED BY <3>1, <3>2, <1>2
  <2>2. Codes(b) \subseteq 1..Len(b2) /\ Len(b) + 3 \in 1..Len(b2)
    BY <1>2 DEF Codes
  <2>. QED BY <2>1, <2>2 DEF Codes
<1>4. \A c \in Codes(b) : /\ c \in 1..Len(b) /\ b2[c] = b[c] /\ b[c].v \in 1..MaxEvents
                          /\ b[c].v < e /\ sz2[b[c].v] = sz[b[c].v]
  BY <1>2 DEF Codes, Held
<1>5. b2[Len(b) + 3].v = e /\ sz2[e] = n
  BY <1>1, <1>2
<1>. HIDE DEF b2, sz2
<1>6. Held(b2) = Held(b) \cup {e}
  <2>1. ASSUME NEW h \in Held(b2) PROVE h \in Held(b) \cup {e}
    BY <2>1, <1>3, <1>4, <1>5 DEF Held
  <2>2. ASSUME NEW h \in Held(b) PROVE h \in Held(b2)
    BY <2>2, <1>3, <1>4 DEF Held
  <2>3. e \in Held(b2)
    BY <1>3, <1>5 DEF Held
  <2>. QED BY <2>1, <2>2, <2>3
<1>7. b2 # <<>> => 3 \in Codes(b2)
  <2>1. CASE b = <<>>
    BY <2>1, <1>3
  <2>2. CASE b # <<>>
    BY <2>2, <1>3 DEF WholeRecords
  <2>. QED BY <2>1, <2>2
<1>8. ASSUME NEW c \in Codes(b2)
      PROVE  /\ RecordAt(b2, sz2, c)
             /\ \/ c + sz2[b2[c].v] = Len(b2)
                \/ c + sz2[b2[c].v] + 3 \in Codes(b2)
  <2>1. CASE c \in Codes(b)
    <3>. DEFINE m == sz[b[c].v]
    <3>1. m \in Nat /\ b2[c].v = b[c].v /\ sz2[b2[c].v] = m
      BY <2>1, <1>4
    <3>2. RecordAt(b, sz, c) /\ (c + m = Len(b) \/ c + m + 3 \in Codes(b))
      BY <2>1 DEF WholeRecords
    <3>3. 3 <= c /\ c + m <= Len(b) /\ \A k \in 1..(3 + m) : b[c - 3 + k] = Cells(b[c].v, m)[k]
      BY <3>2 DEF RecordAt
    <3>. HIDE DEF m
    <3>4. ASSUME NEW k \in 1..(3 + m) PROVE b2[c - 3 + k] = Cells(b[c].v, m)[k]
      <4>1. c - 3 + k \in 1..Len(b)
        <5>1. c \in Nat /\ Len(b) \in Nat /\ m \in Nat /\ k \in Nat
          BY <2>1, <1>4, <3>1
        <5>. QED BY <5>1, <3>3
      <4>. QED BY <4>1, <3>3, <1>2
    <3>5. RecordAt(b2, sz2, c)
      <4>1. c + m <= Len(b2)
        BY <3>1, <3>3, <1>2, <1>4, <2>1
      <4>. QED BY <3>1, <3>3, <3>4, <4>1, Zenon DEF RecordAt
    <3>6. c + m = Len(b2) \/ c + m + 3 \in Codes(b2)
      BY <3>2, <1>3, <1>4, <2>1, <3>1 DEF m
    <3>. QED BY <3>1, <3>5, <3>6
  <2>2. CASE c = Len(b) + 3
    <3>1. b2[c].v = e /\ sz2[b2[c].v] = n /\ c + n = Len(b2) /\ 3 <= c /\ c - 3 = Len(b)
      BY <2>2, <1>2, <1>5
    <3>2. \A k \in 1..(3 + n) : b2[c - 3 + k] = Cells(e, n)[k]
      BY <3>1, <1>2 DEF r
    <3>. QED BY <3>1, <3>2, <1>2 DEF RecordAt
  <2>. QED BY <2>1, <2>2, <1>3
<1>9. \A c, d \in Codes(b2) : c < d => b2[c].v < b2[d].v
  <2>1. \A c, d \in Codes(b) : c < d => b[c].v < b[d].v
    BY DEF WholeRecords
  <2>2. \A c \in Codes(b) : b[c].v \in Held(b) /\ b[c].v < e
    BY DEF Held
  <2>3. ASSUME NEW c \in Codes(b2), NEW d \in Codes(b2), c < d
        PROVE  b2[c].v < b2[d].v
    <3>1. c \in Codes(b)
      BY <2>3, <1>3, <1>4
    <3>2. CASE d \in Codes(b)
      BY <2>1, <2>3, <3>1, <3>2, <1>4
    <3>3. CASE d = Len(b) + 3
      BY <2>2, <3>1, <3>3, <1>4, <1>5
    <3>. QED BY <3>2, <3>3, <1>3
  <2>. QED BY <2>3
<1>. QED BY <1>6, <1>7, <1>8, <1>9 DEF WholeRecords, b2, sz2, r

\* What is left after the oldest event is taken out: cells 1..m are its record.
LEMMA Cut ==
    ASSUME NEW b \in Seq(Cell), NEW m \in Nat, m <= Len(b)
    PROVE  /\ SubSeq(b, m + 1, Len(b)) \in Seq(Cell)
           /\ Len(SubSeq(b, m + 1, Len(b))) = Len(b) - m
           /\ \A k \in 1..(Len(b) - m) : SubSeq(b, m + 1, Len(b))[k] = b[m + k]
  OBVIOUS

\* osdp_pd_internal_dequeue_event takes the oldest event out, as a whole, and
\* leaves whole records.
LEMMA DequeueKeepsRecords ==
    ASSUME NEW b \in Seq(Cell), NEW sz \in [1..MaxEvents -> Nat], MaxEvents \in Nat,
           WholeRecords(b, sz), \A h \in Held(b) : h \in 1..MaxEvents, b # <<>>
    PROVE  /\ AfterDequeue(b) \in Seq(Cell) /\ Len(AfterDequeue(b)) <= Len(b)
           /\ WholeRecords(AfterDequeue(b), sz)
           /\ Held(b) = {b[3].v} \cup Held(AfterDequeue(b))
           /\ \A h \in Held(AfterDequeue(b)) : b[3].v < h
<1>. DEFINE e  == b[3].v
            n  == sz[e]
            m  == 3 + n
            b2 == AfterDequeue(b)
<1>1. /\ 3 \in Codes(b) /\ RecordAt(b, sz, 3)
      /\ (m = Len(b) \/ m + 3 \in Codes(b))
  BY DEF WholeRecords
<1>2. e \in Held(b) /\ e \in 1..MaxEvents /\ e \in Nat /\ n \in Nat /\ m \in Nat
  BY <1>1 DEF Held
<1>. HIDE DEF e, n
<1>3. m <= Len(b) /\ \A k \in 1..m : b[k] = Cells(e, n)[k]
  <2>1. 3 + n <= Len(b) /\ \A k \in 1..(3 + n) : b[3 - 3 + k] = Cells(e, n)[k]
    BY <1>1 DEF RecordAt, e, n
  <2>. QED BY <2>1, <1>2
<1>4. RecordCells(Cells(e, n), e, n)
  BY <1>2, CellsShape
<1>5. HeadLen(b) = n /\ \A k \in 3..m : b[k].is \in {"code", "data"} /\ (b[k].is = "code" => k = 3)
  <2>. DEFINE r == Cells(e, n)
  <2>. HIDE DEF r
  <2>1. RecordCells(r, e, n) /\ \A k \in 1..m : b[k] = r[k]
    BY <1>3, <1>4 DEF r
  <2>2. HeadLen(b) = HeadLen(r)
    BY <2>1, <1>2 DEF HeadLen
  <2>3. ASSUME NEW k \in 3..m
        PROVE  b[k].is \in {"code", "data"} /\ (b[k].is = "code" => k = 3)
    BY <2>1, <1>2 DEF RecordCells
  <2>. QED BY <2>1, <2>2, <2>3 DEF RecordCells
<1>6. /\ b2 \in Seq(Cell) /\ Len(b2) = Len(b) - m
      /\ \A k \in 1..(Len(b) - m) : b2[k] = b[m + k]
  <2>1. b2 = SubSeq(b, m + 1, Len(b))
    BY <1>5 DEF AfterDequeue, HeaderBytes
  <2>. QED BY <2>1, <1>2, <1>3, Cut
<1>. HIDE DEF m, b2
<1>7. ASSUME NEW c \in Codes(b), c # 3
      PROVE  c - m \in Nat /\ c - m >= 3
  <2>. DEFINE f == b[c].v
              r == Cells(f, sz[f])
  <2>1. RecordAt(b, sz, c) /\ f \in 1..MaxEvents
    BY DEF WholeRecords, Held
  <2>2. f \in Nat /\ sz[f] \in Nat
    BY <2>1
  <2>3. RecordCells(r, f, sz[f])
    BY <2>2, CellsShape
  <2>4. 3 <= c /\ \A k \in 1..(3 + sz[f]) : b[c - 3 + k] = r[k]
    BY <2>1 DEF RecordAt
  <2>. HIDE DEF f, r
  <2>5. c \in 1..Len(b) /\ b[c].is = "code"
    BY DEF Codes
  <2>6. b[c - 2] = r[1] /\ b[c - 1] = r[2]
    <3>1. c - 3 + 1 = c - 2 /\ c - 3 + 2 = c - 1 /\ 1 \in 1..(3 + sz[f]) /\ 2 \in 1..(3 + sz[f])
      BY <2>2, <2>5
    <3>. QED BY <3>1, <2>4
  <2>7. b[c - 2].is = "lo" /\ b[c - 1].is = "hi"
    BY <2>3, <2>6 DEF RecordCells
  <2>8. c \notin 3..m /\ c - 1 \notin 3..m /\ c - 2 \notin 3..m
    BY <1>5, <1>7, <2>5, <2>7
  <2>. QED BY <2>8, <2>4, <2>5, <1>2 DEF m
<1>8. \A k \in 1..Len(b2) : k \in Codes(b2) <=> m + k \in Codes(b) 
  BY <1>2, <1>3, <1>6 DEF Codes
<1>9. ASSUME NEW c \in Codes(b2)
      PROVE  c \in Nat /\ c >= 3 /\ m + c \in Codes(b) /\ b2[c] = b[m + c]
  <2>1. c \in 1..Len(b2) /\ m + c \in Codes(b)
    BY <1>8 DEF Codes
  <2>2. m + c # 3
    BY <2>1, <1>2 DEF m
  <2>. QED BY <2>1, <2>2, <1>2, <1>6, <1>7
<1>10. ASSUME NEW c \in Codes(b), c # 3
       PROVE  c - m \in Codes(b2) /\ b2[c - m] = b[c]
  <2>1. c \in 1..Len(b) /\ c - m \in Nat /\ c - m >= 3
    BY <1>7, <1>10 DEF Codes
  <2>2. c - m \in 1..Len(b2) /\ m + (c - m) = c
    BY <2>1, <1>2, <1>6
  <2>. QED BY <2>2, <1>6, <1>8
<1>11. Held(b) = {e} \cup Held(b2) /\ \A h \in Held(b2) : e < h
  <2>1. ASSUME NEW h \in Held(b) PROVE h = e \/ h \in Held(b2)
    BY <1>10 DEF Held, e
  <2>2. ASSUME NEW h \in Held(b2) PROVE h \in Held(b) /\ e < h
    <3>1. PICK c \in Codes(b2) : h = b2[c].v
      BY DEF Held
    <3>2. m + c \in Codes(b) /\ h = b[m + c].v /\ 3 < m + c
      BY <3>1, <1>9, <1>2 DEF m
    <3>3. h \in Held(b)
      BY <3>2 DEF Held
    <3>4. \A x, y \in Codes(b) : x < y => b[x].v < b[y].v
      BY DEF WholeRecords
    <3>. QED BY <3>2, <3>3, <3>4, <1>1 DEF e
  <2>. QED BY <2>1, <2>2, <1>2
<1>12. b2 # <<>> => 3 \in Codes(b2)
  <2>1. CASE m = Len(b)
    BY <2>1, <1>6
  <2>2. CASE m + 3 \in Codes(b)
    <3>1. m + 3 - m = 3 /\ m + 3 # 3
      BY <1>2 DEF m
    <3>. DEFINE x == m + 3
    <3>2. x \in Codes(b) /\ x # 3 /\ x - m = 3
      BY <2>2, <3>1, <1>2
    <3>. HIDE DEF x
    <3>3. x - m \in Codes(b2)
      BY <3>2, <1>10
    <3>. QED BY <3>2, <3>3
  <2>. QED BY <2>1, <2>2, <1>1 DEF m
<1>13. ASSUME NEW c \in Codes(b2)
       PROVE  /\ RecordAt(b2, sz, c)
              /\ c + sz[b2[c].v] = Len(b2) \/ c + sz[b2[c].v] + 3 \in Codes(b2)
  <2>. DEFINE f == b2[c].v
              s == sz[f]
              x == m + c
  <2>1. c \in Nat /\ c >= 3 /\ x \in Codes(b) /\ f = b[x].v /\ f \in 1..MaxEvents
    <3>1. c \in Nat /\ c >= 3 /\ x \in Codes(b) /\ f = b[x].v
      BY <1>9
    <3>2. b[x].v \in Held(b)
      BY <3>1 DEF Held
    <3>. QED BY <3>1, <3>2
  <2>2. s \in Nat
    BY <2>1
  <2>. HIDE DEF f, s, x
  <2>3. RecordAt(b, sz, x) /\ (x + s = Len(b) \/ x + s + 3 \in Codes(b))
    BY <2>1 DEF WholeRecords, s
  <2>4. x + s <= Len(b) /\ \A k \in 1..(3 + s) : b[x - 3 + k] = Cells(f, s)[k]
    BY <2>1, <2>3, Zenon DEF RecordAt, s
  <2>5. c + s <= Len(b2)
    BY <2>1, <2>2, <2>4, <1>2, <1>6 DEF x
  <2>6. ASSUME NEW k \in 1..(3 + s) PROVE b2[c - 3 + k] = Cells(f, s)[k]
    <3>1. c - 3 + k \in 1..(Len(b) - m) /\ m + (c - 3 + k) = x - 3 + k
      BY <2>1, <2>2, <2>4, <1>2 DEF x
    <3>. QED BY <3>1, <2>4, <1>6
  <2>7. RecordAt(b2, sz, c)
    BY <2>1, <2>5, <2>6, Zenon DEF RecordAt, f, s
  <2>8. c + s = Len(b2) \/ c + s + 3 \in Codes(b2)
    <3>1. CASE x + s = Len(b)
      BY <3>1, <2>1, <2>2, <1>2, <1>6 DEF x
    <3>2. CASE x + s + 3 \in Codes(b)
      <4>. DEFINE y == x + s + 3
      <4>2. y \in Codes(b) /\ y # 3 /\ y - m = c + s + 3
        BY <3>2, <1>2, <2>1, <2>2 DEF x
      <4>. HIDE DEF y
      <4>3. y - m \in Codes(b2)
        BY <4>2, <1>10
      <4>. QED BY <4>2, <4>3
    <3>. QED BY <3>1, <3>2, <2>3
  <2>. QED BY <2>7, <2>8 DEF s, f
<1>14. \A c, d \in Codes(b2) : c < d => b2[c].v < b2[d].v
  <2>1. ASSUME NEW c \in Codes(b2), NEW d \in Codes(b2), c < d PROVE b2[c].v < b2[d].v
    <3>1. m + c \in Codes(b) /\ m + d \in Codes(b) /\ m + c < m + d
      BY <2>1, <1>9, <1>2
    <3>. QED BY <3>1, <1>9 DEF WholeRecords
  <2>. QED BY <2>1
<1>15. WholeRecords(b2, sz)
  BY <1>12, <1>13, <1>14 DEF WholeRecords
<1>. QED BY <1>2, <1>6, <1>11, <1>15 DEF b2, e

-----------------------------------------------------------------------------
(* The steps                                                               *)

LEMMA ReportFields ==
    ASSUME NEW r \in Report
    PROVE  r.sqn \in 0..3 /\ r.ev \in Nat
  BY DEF Report

LEMMA ReportsOnLine ==
    ASSUME EventsTypeOK, NEW i \in 1..Len(replies)
    PROVE  replies[i].sqn \in 0..3 /\ replies[i].ev \in Nat
<1>1. replies[i] \in Report
  BY DEF EventsTypeOK
<1>. QED BY <1>1, ReportFields

LEMMA EventsInitInv == EventsInit => EventsInv
<1>. SUFFICES ASSUME EventsInit PROVE EventsInv
  OBVIOUS
<1>. USE DEF EventsInit, NoPoll, NoEvent
<1>1. EventsTypeOK
  <2>1. last \in Report
    BY DEF Report
  <2>2. event_buf \in Seq(Cell) /\ replies \in Seq(Report) /\ got \in Seq(Nat)
    OBVIOUS
  <2>3. size \in [1..MaxEvents -> Nat]
    OBVIOUS
  <2>. QED BY <2>1, <2>2, <2>3, EventsAssumption DEF EventsTypeOK
<1>2. Codes(event_buf) = {} /\ Held(event_buf) = {}
  BY DEF Codes, Held
<1>3. BufferHoldsRecords
  BY <1>2, EventsAssumption DEF BufferHoldsRecords, WholeRecords
<1>4. QueueInv
  BY <1>2, <1>3 DEF QueueInv
<1>5. LateInv /\ PromptInv /\ ReplyInv /\ CacheInv
  BY DEF LateInv, PromptInv, ReplyInv, CacheInv, Late
<1>6. EventsInOrder /\ NoEventForgotten
  BY DEF EventsInOrder, NoEventForgotten
<1>. QED BY <1>1, <1>4, <1>5, <1>6 DEF EventsInv

\* Nothing the controller waits for gets old when neither it nor the outage
\* moves and the queue only grows at its end.
LEMMA NewsKept ==
    ASSUME EventsTypeOK, EventsTypeOK', outage' = outage, got' = got, events <= events',
           \A h \in Held(event_buf') : h \in Nat /\ (h \in Held(event_buf) \/ h > events),
           NEW e \in Nat, News(e)
    PROVE  News(e)'
<1>1. SUFFICES ASSUME e # NoEvent
               PROVE  /\ outage' < e /\ e <= events'
                      /\ \A i \in 1..Len(got') : got'[i] < e
                      /\ \A h \in Held(event_buf') : e < h
  BY DEF News
<1>2. outage < e /\ e <= events /\ \A i \in 1..Len(got) : got[i] < e
  BY <1>1 DEF News
<1>3. ASSUME NEW h \in Held(event_buf') PROVE e < h
  BY <1>1, <1>2, <1>3 DEF News, EventsTypeOK
<1>. QED BY <1>2, <1>3 DEF EventsTypeOK

LEMMA EnqueueEventInv ==
    ASSUME EventsInv, NEW n \in Sizes, EnqueueEvent(n)
    PROVE  EventsInv'
<1>. DEFINE e == events + 1
<1>. USE DEF EventsInv
<1>1. /\ n \in Nat /\ MaxEvents \in Nat /\ EventCap \in Nat /\ events \in Nat
      /\ e \in 1..MaxEvents /\ size \in [1..MaxEvents -> Nat] /\ event_buf \in Seq(Cell)
  BY EventsAssumption DEF EnqueueEvent, EventsTypeOK
<1>2. RecordCells(Cells(e, n), e, n)
  BY <1>1, CellsShape
<1>3. /\ event_buf' = event_buf \o Cells(e, n) /\ size' = [size EXCEPT ![e] = n]
      /\ events' = e /\ 3 + n <= EventCap - Len(event_buf)
      /\ UNCHANGED <<have_last, last, online, comm_age, acuVars, poll, replies, dropped, outage>>
  BY DEF EnqueueEvent, HasRoom, HeaderBytes
<1>4. WholeRecords(event_buf, size) /\ \A h \in Held(event_buf) : h \in 1..events
  BY DEF QueueInv, BufferHoldsRecords
<1>5. \A h \in Held(event_buf) : h \in 1..MaxEvents /\ h < e
  BY <1>1, <1>4
<1>6. /\ WholeRecords(event_buf', size')
      /\ Held(event_buf') = Held(event_buf) \cup {e}
  BY <1>1, <1>3, <1>4, <1>5, EnqueueKeepsRecords
<1>7. event_buf' \in Seq(Cell) /\ Len(event_buf') = Len(event_buf) + 3 + n
  <2>1. Cells(e, n) \in Seq(Cell) /\ Len(Cells(e, n)) = 3 + n
    BY <1>2 DEF RecordCells
  <2>2. /\ event_buf \o Cells(e, n) \in Seq(Cell)
        /\ Len(event_buf \o Cells(e, n)) = Len(event_buf) + Len(Cells(e, n))
    BY <2>1, <1>1, Joined, Zenon
  <2>3. Len(event_buf) + (3 + n) = Len(event_buf) + 3 + n
    BY <1>1
  <2>. QED BY <2>1, <2>2, <2>3, <1>3, Zenon
<1>. HIDE DEF e
<1>8. EventsTypeOK'
  <2>1. e \in Nat /\ events' \in Nat /\ size' \in [1..MaxEvents -> Nat]
    BY <1>1, <1>3
  <2>2. events < e /\ e <= MaxEvents
    BY <1>1 DEF e
  <2>3. outage' \in Nat /\ outage' <= events' /\ \A i \in 1..Len(got') : got'[i] <= events'
    <3>1. /\ outage \in Nat /\ outage <= events
          /\ \A i \in 1..Len(got) : got[i] \in Nat /\ got[i] <= events
      BY DEF EventsTypeOK
    <3>2. outage' = outage /\ got' = got /\ events' = e
      BY <1>3 DEF acuVars
    <3>. QED BY <1>1, <2>1, <2>2, <3>1, <3>2
  <2>4. got' \in Seq(Nat) /\ next_seq' \in 0..3
    BY <1>3 DEF EventsTypeOK, acuVars
  <2>5. last' \in Report /\ comm_age' \in Nat /\ poll' \in 0..4 /\ replies' \in Seq(Report)
    BY <1>3 DEF EventsTypeOK
  <2>6. events' <= MaxEvents
    BY <1>3, <2>2
  <2>. QED BY <1>7, <2>1, <2>3, <2>4, <2>5, <2>6 DEF EventsTypeOK
<1>9. QueueInv'
  <2>1. BufferHoldsRecords'
    BY <1>1, <1>3, <1>6, <1>7 DEF BufferHoldsRecords
  <2>2. ASSUME NEW h \in Held(event_buf')
        PROVE  h \in 1..events' /\ outage' < h /\ \A i \in 1..Len(got') : got'[i] < h
    <3>1. CASE h \in Held(event_buf)
      BY <3>1, <1>1, <1>3 DEF QueueInv, acuVars, e
    <3>2. CASE h = e
      <4>1. /\ outage \in Nat /\ outage <= events
            /\ \A i \in 1..Len(got) : got[i] \in Nat /\ got[i] <= events
        BY DEF EventsTypeOK
      <4>2. outage' = outage /\ got' = got /\ events' = h
        BY <1>3, <3>2 DEF acuVars
      <4>3. h = events + 1
        BY <3>2 DEF e
      <4>. QED BY <1>1, <4>1, <4>2, <4>3
    <3>. QED BY <3>1, <3>2, <1>6
  <2>. QED BY <2>1, <2>2 DEF QueueInv
<1>10. ASSUME NEW x \in Nat, News(x) PROVE News(x)'
  <2>1. outage' = outage /\ got' = got /\ events <= events'
    BY <1>1, <1>3 DEF acuVars, e
  <2>2. \A h \in Held(event_buf') : h \in Nat /\ (h \in Held(event_buf) \/ h > events)
    BY <1>1, <1>5, <1>6 DEF e
  <2>. QED BY <1>8, <1>10, <2>1, <2>2, NewsKept
<1>11. LateInv' /\ PromptInv'
  BY <1>3 DEF LateInv, PromptInv, Late, acuVars
<1>12. ReplyInv'
  <2>1. \A i \in 1..Len(replies) : replies[i].ev \in Nat
    BY ReportsOnLine
  <2>. QED BY <1>3, <1>10, <2>1 DEF ReplyInv, acuVars
<1>13. CacheInv'
  <2>1. last.ev \in Nat
    BY ReportFields DEF EventsTypeOK
  <2>. QED BY <1>3, <1>10, <2>1 DEF CacheInv, acuVars
<1>14. EventsInOrder'
  BY <1>3 DEF EventsInOrder, acuVars
<1>15. NoEventForgotten'
  <2>1. ASSUME NEW x \in 1..events' PROVE x \in 1..events \/ x = e
    BY <1>1, <1>3 DEF e
  <2>. QED BY <2>1, <1>3, <1>6 DEF NoEventForgotten, acuVars
<1>. QED BY <1>8, <1>9, <1>11, <1>12, <1>13, <1>14, <1>15

\* The queue emptied: nothing is held any more.
LEMMA NothingHeld ==
    Codes(<<>>) = {} /\ Held(<<>>) = {} /\ \A sz : WholeRecords(<<>>, sz)
  BY DEF Codes, Held, WholeRecords

LEMMA ClearEventsInv ==
    ASSUME EventsInv, ClearEvents
    PROVE  EventsInv'
<1>. USE DEF EventsInv
<1>1. /\ event_buf' = <<>> /\ dropped' = dropped \cup Held(event_buf)
      /\ UNCHANGED <<have_last, last, online, comm_age, acuVars, poll, replies, events,
                     size, outage>>
  BY DEF ClearEvents
<1>2. Held(event_buf') = {} /\ WholeRecords(event_buf', size')
  BY <1>1, NothingHeld
<1>3. EventsTypeOK'
  BY <1>1 DEF EventsTypeOK, acuVars
<1>4. QueueInv'
  BY <1>1, <1>2, EventsAssumption DEF QueueInv, BufferHoldsRecords
<1>5. ASSUME NEW x \in Nat, News(x) PROVE News(x)'
  <2>1. outage' = outage /\ got' = got /\ events <= events'
    BY <1>1 DEF acuVars, EventsTypeOK
  <2>. QED BY <1>2, <1>3, <1>5, <2>1, NewsKept
<1>6. LateInv' /\ PromptInv'
  BY <1>1 DEF LateInv, PromptInv, Late, acuVars
<1>7. ReplyInv'
  <2>1. \A i \in 1..Len(replies) : replies[i].ev \in Nat
    BY ReportsOnLine
  <2>. QED BY <1>1, <1>5, <2>1 DEF ReplyInv, acuVars
<1>8. CacheInv'
  <2>1. last.ev \in Nat
    BY ReportFields DEF EventsTypeOK
  <2>. QED BY <1>1, <1>5, <2>1 DEF CacheInv, acuVars
<1>9. EventsInOrder' /\ NoEventForgotten'
  BY <1>1 DEF EventsInOrder, NoEventForgotten, acuVars
<1>. QED BY <1>3, <1>4, <1>6, <1>7, <1>8, <1>9

\* An event that was due when the PD notices the outage is given up, and no
\* answer is on the line by then.
LEMMA PdGoOfflineInv ==
    ASSUME EventsInv, PdGoOffline
    PROVE  EventsInv'
<1>. USE DEF EventsInv
<1>1. /\ event_buf' = <<>> /\ have_last' = FALSE /\ online' = FALSE /\ outage' = events
      /\ dropped' = dropped \cup Held(event_buf) \cup (IF have_last THEN {last.ev} ELSE {})
      /\ UNCHANGED <<last, comm_age, acuVars, poll, replies, events, size>>
      /\ comm_age > PdOfflineTimeout
  BY DEF PdGoOffline, PdOfflineDue
<1>2. replies = <<>> /\ ~Late
  BY <1>1, EventsAssumption DEF PromptInv, EventsTypeOK
<1>3. Held(event_buf') = {} /\ WholeRecords(event_buf', size')
  BY <1>1, NothingHeld
<1>4. EventsTypeOK'
  BY <1>1 DEF EventsTypeOK, acuVars
<1>5. QueueInv'
  BY <1>1, <1>3, EventsAssumption DEF QueueInv, BufferHoldsRecords
<1>6. LateInv' /\ PromptInv' /\ ReplyInv' /\ CacheInv'
  BY <1>1, <1>2 DEF LateInv, PromptInv, ReplyInv, CacheInv, Late, acuVars
<1>7. EventsInOrder'
  BY <1>1 DEF EventsInOrder, acuVars
<1>8. NoEventForgotten'
  BY <1>1 DEF NoEventForgotten, acuVars
<1>. QED BY <1>4, <1>5, <1>6, <1>7, <1>8

\* A reply put on the line, and the first one taken off it.
LEMMA LineAppend ==
    ASSUME NEW q \in Seq(Report), NEW r \in Report
    PROVE  /\ Append(q, r) \in Seq(Report) /\ Len(Append(q, r)) = Len(q) + 1
           /\ \A i \in 1..Len(q) : Append(q, r)[i] = q[i]
           /\ Append(q, r)[Len(q) + 1] = r
  OBVIOUS

LEMMA LineTail ==
    ASSUME NEW q \in Seq(Report), q # <<>>
    PROVE  /\ Tail(q) \in Seq(Report) /\ Len(q) \in Nat /\ Len(Tail(q)) = Len(q) - 1
           /\ \A i \in 1..Len(Tail(q)) : Tail(q)[i] = q[i + 1]
           /\ 1 \in 1..Len(q) /\ Head(q) = q[1] /\ Head(q) \in Report
  OBVIOUS

\* A reply that leaves the line, read or lost, leaves the others as they were.
LEMMA ShorterLine ==
    ASSUME EventsInv, replies # <<>>, replies' = Tail(replies),
           UNCHANGED <<pdVars, acuVars, poll, histVars>>
    PROVE  EventsInv'
<1>. USE DEF EventsInv, pdVars, acuVars, histVars
<1>1. /\ replies' \in Seq(Report) /\ Len(replies) \in Nat /\ Len(replies') = Len(replies) - 1
      /\ \A i \in 1..Len(replies') : replies'[i] = replies[i + 1]
  BY LineTail DEF EventsTypeOK
<1>2. EventsTypeOK'
  BY <1>1 DEF EventsTypeOK
<1>3. QueueInv' /\ EventsInOrder' /\ NoEventForgotten'
  BY DEF QueueInv, BufferHoldsRecords, EventsInOrder, NoEventForgotten
<1>4. LateInv' /\ PromptInv'
  BY <1>1 DEF LateInv, PromptInv, Late
<1>5. \A e : News(e)' <=> News(e)
  BY DEF News
<1>6. ReplyInv'
  <2>1. ASSUME NEW i \in 1..Len(replies'), replies'[i].sqn = next_seq
        PROVE  /\ have_last /\ last.sqn = next_seq
               /\ News(replies'[i].ev)
               /\ next_seq # 0 => replies'[i].ev = last.ev
               /\ \A j \in i..Len(replies') : replies'[j].sqn = next_seq
    <3>1. i + 1 \in 1..Len(replies) /\ replies'[i] = replies[i + 1]
      BY <1>1
    <3>2. /\ have_last /\ last.sqn = next_seq
          /\ News(replies[i + 1].ev)
          /\ next_seq # 0 => replies[i + 1].ev = last.ev
          /\ \A j \in (i + 1)..Len(replies) : replies[j].sqn = next_seq
      BY <3>1, <2>1 DEF ReplyInv
    <3>3. ASSUME NEW j \in i..Len(replies') PROVE replies'[j].sqn = next_seq
      <4>1. j \in 1..Len(replies') /\ j + 1 \in (i + 1)..Len(replies)
        BY <1>1
      <4>. QED BY <4>1, <3>2, <1>1
    <3>. QED BY <3>1, <3>2, <3>3
  <2>. QED BY <2>1, <1>5 DEF ReplyInv
<1>7. CacheInv'
  BY <1>5 DEF CacheInv
<1>. QED BY <1>2, <1>3, <1>4, <1>6, <1>7

LEMMA AcuReplyInv ==
    ASSUME EventsInv, AcuReply
    PROVE  EventsInv'
<1>. DEFINE r == Head(replies)
<1>. USE DEF EventsInv
<1>1. /\ replies # <<>> /\ replies' = Tail(replies)
      /\ UNCHANGED <<pdVars, poll, histVars>>
  BY DEF AcuReply
<1>2. CASE ~(waiting /\ r.sqn = next_seq)
  <2>1. UNCHANGED acuVars
    BY <1>2 DEF AcuReply
  <2>. QED BY <1>1, <2>1, ShorterLine
<1>3. CASE waiting /\ r.sqn = next_seq
  <2>. USE DEF pdVars, histVars
  <2>1. /\ next_seq' = IF next_seq >= 3 THEN 1 ELSE next_seq + 1
        /\ got' = IF r.ev = NoEvent THEN got ELSE Append(got, r.ev)
    BY <1>3 DEF AcuReply
  <2>2. /\ replies' \in Seq(Report) /\ Len(replies) \in Nat /\ Len(replies') = Len(replies) - 1
        /\ \A i \in 1..Len(replies') : replies'[i] = replies[i + 1]
        /\ 1 \in 1..Len(replies) /\ r = replies[1] /\ r \in Report
    BY <1>1, LineTail DEF EventsTypeOK
  <2>3. r.ev \in Nat
    BY <2>2, ReportFields
  <2>. HIDE DEF r
  <2>4. /\ have_last /\ last.sqn = next_seq /\ News(r.ev)
        /\ next_seq # 0 => r.ev = last.ev
        /\ \A j \in 1..Len(replies) : replies[j].sqn = next_seq
    BY <1>3, <2>2 DEF ReplyInv
  <2>5. next_seq' \in 1..3 /\ next_seq' # next_seq
    BY <2>1 DEF EventsTypeOK
  <2>6. \A j \in 1..Len(replies') : replies'[j].sqn = next_seq
    BY <2>2, <2>4
  <2>7. ~Late
    BY <1>3, <2>2 DEF LateInv
  <2>8. /\ got \in Seq(Nat) /\ Len(got) \in Nat /\ got' \in Seq(Nat) /\ Len(got') \in Nat
        /\ \A i \in 1..Len(got) : got[i] \in Nat
        /\ Len(got) <= Len(got') /\ \A i \in 1..Len(got) : got'[i] = got[i]
        /\ \A i \in 1..Len(got') : i \in 1..Len(got) \/ (r.ev # NoEvent /\ i = Len(got) + 1 /\ got'[i] = r.ev)
        /\ r.ev # NoEvent => Len(got) + 1 \in 1..Len(got') /\ got'[Len(got) + 1] = r.ev
    BY <2>1, <2>3 DEF EventsTypeOK
  <2>9. r.ev # NoEvent => /\ outage < r.ev /\ r.ev <= events
                          /\ \A i \in 1..Len(got) : got[i] < r.ev
                          /\ \A h \in Held(event_buf) : r.ev < h
    BY <2>4 DEF News
  <2>10. \A i \in 1..Len(got') : got'[i] <= events'
    BY <1>1, <2>8, <2>9 DEF EventsTypeOK
  <2>11. EventsTypeOK'
    BY <1>1, <2>2, <2>5, <2>8, <2>10 DEF EventsTypeOK
  <2>12. QueueInv'
    <3>1. ASSUME NEW h \in Held(event_buf), NEW i \in 1..Len(got') PROVE got'[i] < h
      BY <2>8, <2>9 DEF QueueInv
    <3>. QED BY <1>1, <3>1 DEF QueueInv, BufferHoldsRecords
  <2>13. LateInv' /\ PromptInv'
    <3>1. Late' => poll = next_seq
      BY <1>1, <2>7 DEF Late
    <3>2. \A i \in 1..Len(replies') : replies'[i].sqn # next_seq'
      BY <2>5, <2>6
    <3>3. comm_age = 0
      BY <1>1 DEF PromptInv
    <3>. QED BY <1>1, <2>4, <3>1, <3>2, <3>3 DEF LateInv, PromptInv
  <2>14. ReplyInv'
    BY <2>5, <2>6 DEF ReplyInv
  <2>15. CacheInv'
    <3>1. last' = last /\ have_last' = have_last /\ dropped' = dropped /\ last'.sqn # next_seq'
      BY <1>1, <2>4, <2>5
    <3>2. last.ev \in dropped \cup {NoEvent} \/ \E i \in 1..Len(got') : got'[i] = last.ev
      <4>1. CASE next_seq # 0
        BY <4>1, <2>4, <2>8
      <4>2. CASE next_seq = 0
        <5>1. last.ev \in dropped \cup {NoEvent} \/ \E i \in 1..Len(got) : got[i] = last.ev
          BY <4>2, <2>4 DEF CacheInv
        <5>2. ASSUME NEW i \in 1..Len(got) PROVE i \in 1..Len(got') /\ got'[i] = got[i]
          BY <2>8
        <5>. QED BY <5>1, <5>2
      <4>. QED BY <4>1, <4>2
    <3>. QED BY <3>1, <3>2 DEF CacheInv
  <2>16. EventsInOrder'
    <3>1. ASSUME NEW i \in 1..Len(got'), NEW j \in 1..Len(got'), i < j PROVE got'[i] < got'[j]
      <4>1. i \in 1..Len(got)
        BY <2>8, <3>1
      <4>2. CASE j \in 1..Len(got)
        BY <3>1, <4>1, <4>2, <2>8 DEF EventsInOrder
      <4>3. CASE j \notin 1..Len(got)
        BY <4>1, <4>3, <2>8, <2>9
      <4>. QED BY <4>2, <4>3
    <3>. QED BY <3>1 DEF EventsInOrder
  <2>17. NoEventForgotten'
    <3>1. ASSUME NEW i \in 1..Len(got) PROVE i \in 1..Len(got') /\ got'[i] = got[i]
      BY <2>8
    <3>. QED BY <1>1, <3>1 DEF NoEventForgotten
  <2>. QED BY <2>11, <2>12, <2>13, <2>14, <2>15, <2>16, <2>17
<1>. QED BY <1>2, <1>3

\* The POLL taken by the PD, its answer put on the line.
LEMMA PdPollInv ==
    ASSUME EventsInv, PdPoll
    PROVE  EventsInv'
<1>. DEFINE ev == IF event_buf = <<>> \/ HeadLen(event_buf) > ScratchLen
                  THEN NoEvent ELSE event_buf[3].v
<1>. USE DEF EventsInv
<1>1. /\ poll # NoPoll /\ poll' = NoPoll /\ comm_age' = 0
      /\ UNCHANGED <<acuVars, events, size, outage>>
  BY DEF PdPoll, Sent
<1>2. poll \in 0..3 /\ ~Late'
  BY <1>1 DEF EventsTypeOK, NoPoll, Late
<1>3. CASE IsRetransmit(poll)
  <2>1. /\ replies' = Append(replies, last) /\ have_last /\ last.sqn = poll
        /\ UNCHANGED <<event_buf, have_last, last, dropped>>
    BY <1>3 DEF PdPoll, Sent, IsRetransmit
  <2>2. /\ replies' \in Seq(Report) /\ Len(replies') = Len(replies) + 1
        /\ \A i \in 1..Len(replies) : replies'[i] = replies[i]
        /\ replies'[Len(replies) + 1] = last /\ Len(replies) \in Nat
    BY <2>1, LineAppend DEF EventsTypeOK
  <2>3. EventsTypeOK'
    BY <1>1, <2>1, <2>2 DEF EventsTypeOK, acuVars, NoPoll
  <2>4. QueueInv' /\ EventsInOrder' /\ NoEventForgotten'
    BY <1>1, <2>1 DEF QueueInv, BufferHoldsRecords, EventsInOrder, NoEventForgotten, acuVars
  <2>5. LateInv' /\ PromptInv'
    BY <1>1, <1>2 DEF LateInv, PromptInv
  <2>6. \A e : News(e)' <=> News(e)
    BY <1>1, <2>1 DEF News, acuVars
  <2>7. CacheInv'
    BY <1>1, <2>1, <2>6 DEF CacheInv, acuVars
  <2>8. ReplyInv'
    <3>1. ASSUME NEW i \in 1..Len(replies'), replies'[i].sqn = next_seq
          PROVE  /\ last.sqn = next_seq
                 /\ News(replies'[i].ev)
                 /\ next_seq # 0 => replies'[i].ev = last.ev
                 /\ \A j \in i..Len(replies') : replies'[j].sqn = next_seq
      <4>1. CASE i \in 1..Len(replies)
        <5>1. /\ last.sqn = next_seq /\ News(replies[i].ev)
              /\ next_seq # 0 => replies[i].ev = last.ev
              /\ \A j \in i..Len(replies) : replies[j].sqn = next_seq
          BY <3>1, <4>1, <2>2 DEF ReplyInv
        <5>2. ASSUME NEW j \in i..Len(replies') PROVE replies'[j].sqn = next_seq
          <6>1. j \in i..Len(replies) \/ j = Len(replies) + 1
            BY <2>2
          <6>. QED BY <4>1, <5>1, <6>1, <2>2
        <5>. QED BY <4>1, <5>1, <5>2, <2>2
      <4>2. CASE i = Len(replies) + 1
        <5>1. replies'[i] = last /\ last.sqn = next_seq /\ News(last.ev)
          BY <3>1, <4>2, <2>1, <2>2 DEF CacheInv
        <5>2. ASSUME NEW j \in i..Len(replies') PROVE j = i
          BY <4>2, <2>2
        <5>. QED BY <5>1, <5>2
      <4>. QED BY <4>1, <4>2, <2>2
    <3>. QED BY <1>1, <2>1, <2>6, <3>1 DEF ReplyInv, acuVars
  <2>. QED BY <2>3, <2>4, <2>5, <2>7, <2>8
<1>4. CASE ~IsRetransmit(poll)
  <2>. DEFINE b2 == IF event_buf = <<>> THEN <<>> ELSE AfterDequeue(event_buf)
              r2 == [sqn |-> poll, ev |-> ev]
  <2>1. /\ replies' = Append(replies, r2) /\ have_last' = TRUE /\ last' = r2
        /\ event_buf' = b2
        /\ dropped' = dropped \cup (IF poll = 0 THEN {ev} ELSE {})
                        \cup (IF event_buf # <<>> /\ ev = NoEvent
                              THEN {event_buf[3].v} ELSE {})
    BY <1>4 DEF PdPoll, Sent
  \* what leaves the queue is its oldest event, or nothing
  <2>2. /\ b2 \in Seq(Cell) /\ Len(b2) <= Len(event_buf) /\ WholeRecords(b2, size)
        /\ Held(b2) \subseteq Held(event_buf)
        /\ \A h \in Held(event_buf) : h \in Held(b2) \/ (event_buf # <<>> /\ h = event_buf[3].v)
        /\ event_buf # <<>> => /\ event_buf[3].v \in Held(event_buf)
                               /\ \A h \in Held(b2) : event_buf[3].v < h
    <3>1. /\ event_buf \in Seq(Cell) /\ size \in [1..MaxEvents -> Nat] /\ MaxEvents \in Nat
          /\ WholeRecords(event_buf, size) /\ \A h \in Held(event_buf) : h \in 1..MaxEvents
      BY EventsAssumption DEF EventsTypeOK, QueueInv, BufferHoldsRecords
    <3>2. CASE event_buf = <<>>
      <4>1. Len(event_buf) \in Nat /\ b2 = event_buf
        BY <3>1, <3>2
      <4>. QED BY <3>1, <3>2, <4>1
    <3>3. CASE event_buf # <<>>
      <4>. DEFINE a == AfterDequeue(event_buf)
      <4>1. /\ a \in Seq(Cell) /\ Len(a) <= Len(event_buf) /\ WholeRecords(a, size)
            /\ Held(event_buf) = {event_buf[3].v} \cup Held(a)
            /\ \A h \in Held(a) : event_buf[3].v < h
        BY <3>1, <3>3, DequeueKeepsRecords, Zenon
      <4>2. b2 = a
        BY <3>3
      <4>. HIDE DEF a, b2
      <4>. QED BY <3>3, <4>1, <4>2
    <3>. QED BY <3>2, <3>3
  <2>3. /\ ev \in Nat /\ (ev # NoEvent => event_buf # <<>> /\ ev = event_buf[3].v)
    BY <2>2 DEF QueueInv, NoEvent
  <2>. HIDE DEF b2, ev
  <2>4. r2 \in Report /\ r2.sqn = poll /\ r2.ev = ev
    BY <1>2, <2>3 DEF Report
  <2>. HIDE DEF r2
  <2>5. /\ replies' \in Seq(Report) /\ Len(replies') = Len(replies) + 1
        /\ \A i \in 1..Len(replies) : replies'[i] = replies[i]
        /\ replies'[Len(replies) + 1] = r2 /\ Len(replies) \in Nat
    BY <2>1, <2>4, LineAppend DEF EventsTypeOK
  <2>6. EventsTypeOK'
    BY <1>1, <2>1, <2>2, <2>4, <2>5 DEF EventsTypeOK, acuVars, NoPoll
  <2>7. QueueInv'
    BY <1>1, <2>1, <2>2, EventsAssumption DEF QueueInv, BufferHoldsRecords, EventsTypeOK, acuVars
  <2>8. LateInv' /\ PromptInv'
    BY <1>1, <1>2 DEF LateInv, PromptInv
  <2>9. ASSUME NEW x \in Nat, News(x) PROVE News(x)'
    BY <2>9, <1>1, <2>1, <2>2 DEF News, acuVars
  <2>10. ASSUME NEW x, x = ev PROVE News(x)'
    BY <2>10, <1>1, <2>1, <2>2, <2>3 DEF News, acuVars, QueueInv
  \* what the cache is about to lose is settled
  <2>11. have_last => \/ last.ev \in dropped \cup {NoEvent}
                      \/ \E i \in 1..Len(got) : got[i] = last.ev
    <3>1. have_last => last.sqn # next_seq \/ last.sqn = 0
      BY <1>1, <1>4 DEF IsRetransmit, LateInv, Late
    <3>. QED BY <3>1 DEF CacheInv
  <2>12. NoEventForgotten'
    <3>1. ASSUME NEW e \in 1..events
          PROVE  \/ e \in dropped' \/ e \in Held(event_buf') \/ last'.ev = e
                 \/ \E i \in 1..Len(got) : got[i] = e
      <4>1. CASE e \in Held(event_buf)
        BY <4>1, <2>1, <2>2, <2>3, <2>4
      <4>2. CASE have_last /\ last.ev = e
        BY <4>2, <2>11, <2>1 DEF NoEvent
      <4>3. CASE e \in dropped \/ \E i \in 1..Len(got) : got[i] = e
        BY <4>3, <2>1
      <4>. QED BY <4>1, <4>2, <4>3 DEF NoEventForgotten
    <3>. QED BY <1>1, <2>1, <3>1 DEF NoEventForgotten, acuVars
  <2>13. EventsInOrder'
    BY <1>1 DEF EventsInOrder, acuVars
  <2>14. CacheInv'
    <3>1. poll = 0 => ev \in dropped'
      BY <2>1
    <3>2. last'.sqn # next_seq => poll = 0
      BY <1>1, <1>4, <2>1, <2>4 DEF LateInv, Late, IsRetransmit
    <3>. QED BY <1>1, <2>1, <2>4, <2>10, <3>1, <3>2 DEF CacheInv, acuVars
  <2>15. ReplyInv'
    <3>1. ASSUME NEW i \in 1..Len(replies'), replies'[i].sqn = next_seq
          PROVE  /\ last'.sqn = next_seq
                 /\ News(replies[i].ev)'
                 /\ next_seq # 0 => replies'[i].ev = last'.ev
                 /\ \A j \in i..Len(replies') : replies'[j].sqn = next_seq
      <4>1. CASE i \in 1..Len(replies)
        <5>1. /\ replies'[i] = replies[i] /\ have_last /\ last.sqn = next_seq
              /\ News(replies[i].ev) /\ replies[i].ev \in Nat
              /\ \A j \in i..Len(replies) : replies[j].sqn = next_seq
          BY <3>1, <4>1, <2>5, ReportsOnLine DEF ReplyInv
        <5>2. poll = next_seq /\ next_seq = 0
          <6>1. ~Late
            BY <3>1, <4>1, <5>1 DEF LateInv
          <6>. QED BY <5>1, <6>1, <1>1, <1>4 DEF Late, IsRetransmit
        <5>3. ASSUME NEW j \in i..Len(replies') PROVE replies'[j].sqn = next_seq
          <6>1. j \in i..Len(replies) \/ j = Len(replies) + 1
            BY <2>5
          <6>. QED BY <4>1, <5>1, <5>2, <6>1, <2>4, <2>5
        <5>4. News(replies[i].ev)'
          BY <5>1, <2>9
        <5>. QED BY <5>2, <5>3, <5>4, <2>1, <2>4
      <4>2. CASE i = Len(replies) + 1
        <5>1. replies'[i] = r2
          BY <4>2, <2>5
        <5>2. ASSUME NEW j \in i..Len(replies') PROVE j = i
          BY <4>2, <2>5
        <5>3. News(replies[i].ev)'
          BY <5>1, <2>4, <2>10
        <5>. QED BY <3>1, <5>1, <5>2, <5>3, <2>1, <2>4
      <4>. QED BY <4>1, <4>2, <2>5
    <3>. QED BY <1>1, <2>1, <3>1 DEF ReplyInv, acuVars
  <2>. QED BY <2>6, <2>7, <2>8, <2>12, <2>13, <2>14, <2>15
<1>. QED BY <1>3, <1>4

\* The steps that touch neither the queue, nor the cache, nor the replies on the
\* line: a POLL sent, given up or lost, time passing, a stutter.
LEMMA QuietStepInv ==
    ASSUME EventsInv, UNCHANGED <<event_buf, have_last, last, replies, next_seq, got, histVars>>,
           poll' \in {poll, NoPoll, next_seq}, comm_age' \in Nat,
           comm_age' = comm_age \/ (poll = NoPoll /\ replies = <<>>)
    PROVE  EventsInv'
<1>. USE DEF EventsInv, histVars
<1>1. Late' => Late
  BY DEF Late
<1>2. EventsTypeOK'
  BY DEF EventsTypeOK, NoPoll
<1>3. QueueInv' /\ EventsInOrder' /\ NoEventForgotten'
  BY DEF QueueInv, BufferHoldsRecords, EventsInOrder, NoEventForgotten
<1>4. \A e : News(e)' <=> News(e)
  BY DEF News
<1>5. ReplyInv' /\ CacheInv'
  BY <1>4 DEF ReplyInv, CacheInv
<1>6. LateInv'
  <2>1. Late' => poll' = poll
    BY DEF Late
  <2>. QED BY <1>1, <2>1 DEF LateInv
<1>7. PromptInv'
  BY <1>1 DEF PromptInv, Late
<1>. QED BY <1>2, <1>3, <1>5, <1>6, <1>7

LEMMA EventsStepInv ==
    ASSUME EventsInv, [EventsNext]_vars
    PROVE  EventsInv'
<1>. USE DEF pdVars, acuVars
<1>1. comm_age \in Nat
  BY DEF EventsInv, EventsTypeOK
<1>2. ASSUME NEW n \in Sizes, EnqueueEvent(n) PROVE EventsInv'
  BY <1>2, EnqueueEventInv
<1>3. CASE ClearEvents
  BY <1>3, ClearEventsInv
<1>4. CASE PdGoOffline
  BY <1>4, PdGoOfflineInv
<1>5. CASE PdPoll
  BY <1>5, PdPollInv
<1>6. CASE AcuPoll
  BY <1>1, <1>6, QuietStepInv DEF AcuPoll
<1>7. CASE AcuTimeout
  BY <1>1, <1>7, QuietStepInv DEF AcuTimeout
<1>8. CASE AcuReply
  BY <1>8, AcuReplyInv
<1>9. CASE Lose
  <2>1. CASE poll # NoPoll /\ poll' = NoPoll /\ UNCHANGED replies
    BY <1>1, <1>9, <2>1, QuietStepInv DEF Lose
  <2>2. CASE replies # <<>> /\ replies' = Tail(replies) /\ UNCHANGED poll
    BY <1>9, <2>2, ShorterLine DEF Lose
  <2>. QED BY <1>9, <2>1, <2>2 DEF Lose
<1>10. CASE Clock
  BY <1>1, <1>10, QuietStepInv DEF Clock, histVars
<1>11. CASE UNCHANGED vars
  BY <1>1, <1>11, QuietStepInv DEF vars
<1>. QED BY <1>2, <1>3, <1>4, <1>5, <1>6, <1>7, <1>8, <1>9, <1>10, <1>11 DEF EventsNext

-----------------------------------------------------------------------------
(* The theorems                                                            *)

\* The inductive invariant holds: the queue is whole records, and every event that
\* left it is with the controller, on the line or in the retransmit cache of
\* process_frame.
THEOREM EventsInvariant == EventsSpec => []EventsInv
  BY EventsInitInv, EventsStepInv, PTL DEF EventsSpec

\* However events are enqueued, cleared and polled out of it, the byte buffer
\* osdp_pd_enqueue_event and osdp_pd_internal_dequeue_event share holds whole
\* records in order and within its capacity.
THEOREM QueueHoldsRecords == EventsSpec => []BufferHoldsRecords
<1>1. EventsInv => BufferHoldsRecords
  BY DEF EventsInv, QueueInv
<1>. QED BY <1>1, EventsInvariant, PTL

\* However polls and replies are lost, repeated and late, the controller is
\* handed each event at most once and in order.
THEOREM ReportedInOrder == EventsSpec => []EventsInOrder
<1>1. EventsInv => EventsInOrder
  BY DEF EventsInv
<1>. QED BY <1>1, EventsInvariant, PTL

\* An accepted event is queued, cached, reported or given up on purpose: the
\* retransmit cache is overwritten only once its event is settled.
THEOREM NothingForgotten == EventsSpec => []NoEventForgotten
<1>1. EventsInv => NoEventForgotten
  BY DEF EventsInv
<1>. QED BY <1>1, EventsInvariant, PTL

\* check_offline_timeout empties the queue and the cache before anything older
\* than the outage can be reported after it.
THEOREM OutageIsForgotten == EventsSpec => OutageDiscards
<1>1. ASSUME EventsInv, [EventsNext]_vars
      PROVE  [got' # got => got'[Len(got')] > outage]_vars
  <2>1. SUFFICES ASSUME got' # got PROVE got'[Len(got')] > outage
    OBVIOUS
  <2>2. AcuReply
    BY <1>1, <2>1 DEF EventsNext, vars, pdVars, acuVars, EnqueueEvent, ClearEvents,
          PdGoOffline, PdPoll, AcuPoll, AcuTimeout, Lose, Clock
  <2>. DEFINE r == Head(replies)
  <2>3. /\ replies # <<>> /\ r.sqn = next_seq /\ r.ev # NoEvent /\ got' = Append(got, r.ev)
    BY <2>1, <2>2 DEF AcuReply, acuVars
  <2>4. 1 \in 1..Len(replies) /\ r = replies[1] /\ r \in Report
    BY <1>1, <2>3, LineTail DEF EventsInv, EventsTypeOK
  <2>5. r.ev \in Nat
    BY <2>4, ReportFields
  <2>. HIDE DEF r
  <2>6. News(r.ev)
    BY <1>1, <2>3, <2>4 DEF EventsInv, ReplyInv
  <2>7. outage < r.ev
    BY <2>3, <2>6 DEF News
  <2>8. got'[Len(got')] = r.ev /\ outage \in Nat
    BY <1>1, <2>3, <2>5 DEF EventsInv, EventsTypeOK
  <2>. QED BY <2>5, <2>7, <2>8
<1>. QED BY <1>1, EventsInvariant, PTL DEF EventsSpec, OutageDiscards
=============================================================================
