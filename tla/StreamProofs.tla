---------------------------- MODULE StreamProofs ----------------------------
(***************************************************************************)
(* For every buffer size, frame limit, chunk size and set of byte strings, *)
(* the stream decoder stays within its buffer, the decode loop of a tick   *)
(* comes to an end, transmissions are handed on once and in order, and one *)
(* that arrives whole after a silence is decoded.                          *)
(***************************************************************************)
EXTENDS Stream, FiniteSetTheorems, WellFoundedInduction, TLAPS

\* A set of numbers has a smallest one, so the search for SOM finds the first.
LEMMA FirstExists ==
    ASSUME NEW T \in SUBSET Nat, T # {}
    PROVE  \E x \in T : \A y \in T : x <= y
<1>. DEFINE R == OpToRel(<, Nat)
<1>1. IsWellFoundedOn(R, Nat)
  BY NatLessThanWellFounded
<1>. HIDE DEF R
<1>2. PICK x \in T : \A y \in T : ~(<<y, x>> \in R)
  BY <1>1, WFMin
<1>3. ASSUME NEW y \in T, y < x PROVE FALSE
  BY <1>2, <1>3 DEF R, OpToRel
<1>. QED BY <1>3

\* osdp_stream_consume removes that many bytes from the front, or all.
LEMMA ConsumeLen ==
    ASSUME NEW S, NEW b \in Seq(S), NEW n \in Nat
    PROVE  /\ Consume(b, n) \in Seq(S)
           /\ Len(Consume(b, n)) = IF n >= Len(b) THEN 0 ELSE Len(b) - n
<1>1. CASE n >= Len(b)
  BY <1>1 DEF Consume
<1>2. CASE ~(n >= Len(b))
  <2>1. n + 1 \in 1..Len(b) /\ Len(b) \in 1..Len(b)
    BY <1>2
  <2>2. SubSeq(b, n + 1, Len(b)) \in Seq(S)
    BY <2>1
  <2>3. Len(SubSeq(b, n + 1, Len(b))) = Len(b) - n
    BY <2>1
  <2>. QED BY <1>2, <2>2, <2>3 DEF Consume
<1>. QED BY <1>1, <1>2

\* osdp_stream_feed never fills the buffer past its size.
LEMMA FeedLen ==
    ASSUME NEW S, NEW b \in Seq(S), NEW c \in Seq(S)
    PROVE  Feed(b, c) \in Seq(S) /\ Len(Feed(b, c)) <= BufferLen
<1>. DEFINE all == b \o c
<1>1. all \in Seq(S) /\ Len(all) \in Nat /\ BufferLen \in Nat
  BY StreamAssumption
<1>2. CASE Len(all) > BufferLen
  <2>1. Len(all) - BufferLen \in Nat
    BY <1>1, <1>2
  <2>2. /\ Consume(all, Len(all) - BufferLen) \in Seq(S)
        /\ Len(Consume(all, Len(all) - BufferLen)) =
              IF Len(all) - BufferLen >= Len(all) THEN 0
              ELSE Len(all) - (Len(all) - BufferLen)
    <3>. HIDE DEF all
    <3>. QED BY <1>1, <2>1, ConsumeLen
  <2>. QED BY <1>1, <1>2, <2>2 DEF Feed
<1>3. CASE ~(Len(all) > BufferLen)
  BY <1>1, <1>3 DEF Feed
<1>. QED BY <1>2, <1>3

LEMMA ConsumeNone ==
    ASSUME NEW S, NEW b \in Seq(S)
    PROVE  Consume(b, 0) = b
<1>1. CASE Len(b) = 0
  BY <1>1 DEF Consume
<1>2. CASE Len(b) # 0
  <2>1. ~(0 >= Len(b))
    BY <1>2
  <2>2. SubSeq(b, 1, Len(b)) = b
    OBVIOUS
  <2>. QED BY <2>1, <2>2 DEF Consume
<1>. QED BY <1>1, <1>2

LEMMA FirstSom ==
    ASSUME NEW b \in Seq(Bytes)
    PROVE  LET n == SelectInSeq(b, LAMBDA x : x.v = Som)
           IN  \/ n = 0 /\ \A i \in 1..Len(b) : b[i].v # Som
               \/ /\ n \in 1..Len(b) /\ b[n].v = Som
                  /\ \A i \in 1..Len(b) : b[i].v = Som => n <= i
<1>. DEFINE I == {i \in 1..Len(b) : b[i].v = Som}
            n == SelectInSeq(b, LAMBDA x : x.v = Som)
<1>1. CASE I = {}
  <2>1. n = 0
    BY <1>1 DEF SelectInSeq
  <2>. QED BY <1>1, <2>1
<1>2. CASE I # {}
  <2>1. \E x \in I : \A y \in I : x <= y
    <3>1. I \in SUBSET Nat
      OBVIOUS
    <3>. HIDE DEF I
    <3>. QED BY <3>1, <1>2, FirstExists
  <2>2. Min(I) \in I /\ \A y \in I : Min(I) <= y
    BY <2>1 DEF Min
  <2>3. n = Min(I)
    BY <1>2 DEF SelectInSeq
  <2>. QED BY <2>2, <2>3
<1>. QED BY <1>1, <1>2

LEMMA SomPlace ==
    ASSUME NEW b \in Seq(Bytes)
    PROVE  SelectInSeq(b, LAMBDA x : x.v = Som) \in Nat
<1>. DEFINE n == SelectInSeq(b, LAMBDA x : x.v = Som)
<1>1. n = 0 \/ n \in 1..Len(b)
  BY FirstSom
<1>. HIDE DEF n
<1>2. n \in Nat
  BY <1>1
<1>. QED BY <1>2 DEF n

\* Skipping to the next SOM never lengthens what is held.
LEMMA ResyncLen ==
    ASSUME NEW b \in Seq(Bytes)
    PROVE  Resync(b) \in Seq(Bytes) /\ Len(Resync(b)) <= Len(b)
<1>. DEFINE n == SelectInSeq(b, LAMBDA x : x.v = Som)
<1>1. n \in Nat
  BY SomPlace
<1>2. CASE n = 0
  BY <1>2 DEF Resync
<1>3. CASE n # 0
  <2>1. n - 1 \in Nat
    BY <1>1, <1>3
  <2>. HIDE DEF n
  <2>2. /\ Consume(b, n - 1) \in Seq(Bytes)
        /\ Len(Consume(b, n - 1)) = IF n - 1 >= Len(b) THEN 0 ELSE Len(b) - (n - 1)
    BY <2>1, ConsumeLen
  <2>. QED BY <1>3, <2>1, <2>2, Len(b) \in Nat DEF Resync, n
<1>. QED BY <1>2, <1>3

\* osdp_stream_next keeps what it holds within what it was given; when it does
\* not report TRUNCATED, it leaves fewer bytes to look at.
LEMMA NextCallShrinks ==
    ASSUME NEW b \in Seq(Bytes)
    PROVE  LET s == NextCall(b)
           IN  /\ s.left \in Seq(Bytes) /\ s.frame \in Nat
               /\ Len(s.left) <= Len(b) /\ s.frame <= Len(s.left)
               /\ s.status # "TRUNCATED" => Len(s.left) - s.frame < Len(b)
<1>. DEFINE r   == Resync(b)
            len == r[2].v
            s   == NextCall(b)
<1>1. r \in Seq(Bytes) /\ Len(r) <= Len(b) /\ Len(r) \in Nat /\ Len(b) \in Nat
  BY ResyncLen
<1>2. HeaderLen \in Nat /\ MinLen \in Nat /\ HeaderLen >= 3 /\ MinLen > 0
  BY StreamAssumption
<1>3. CASE Len(r) < HeaderLen
  BY <1>1, <1>3 DEF NextCall
<1>4. CASE ~(Len(r) < HeaderLen)
  <2>1. Len(r) >= 3
    BY <1>1, <1>2, <1>4
  <2>2. len \in Nat
    <3>. HIDE DEF r
    <3>1. r[2] \in Bytes
      BY <1>1, <2>1
    <3>. QED BY <3>1 DEF Bytes
  <2>3. /\ Consume(r, 1) \in Seq(Bytes)
        /\ Len(Consume(r, 1)) = Len(r) - 1
    <3>. HIDE DEF r
    <3>1. /\ Consume(r, 1) \in Seq(Bytes)
          /\ Len(Consume(r, 1)) = IF 1 >= Len(r) THEN 0 ELSE Len(r) - 1
      BY <1>1, ConsumeLen
    <3>. QED BY <1>1, <2>1, <3>1
  <2>4. CASE len < MinLen \/ len > MaxLen
    <3>1. s = [status |-> "BAD", left |-> Consume(r, 1), frame |-> 0]
      BY <1>4, <2>4 DEF NextCall
    <3>. HIDE DEF s, r
    <3>. QED BY <1>1, <2>1, <2>3, <3>1 DEF s
  <2>5. CASE ~(len < MinLen \/ len > MaxLen) /\ Len(r) < len
    <3>1. s = [status |-> "TRUNCATED", left |-> r, frame |-> 0]
      BY <1>4, <2>5 DEF NextCall
    <3>. HIDE DEF s, r
    <3>. QED BY <1>1, <2>1, <3>1 DEF s
  <2>6. CASE ~(len < MinLen \/ len > MaxLen) /\ ~(Len(r) < len) /\ Decode(r, len) # "OK"
    <3>1. s = [status |-> Decode(r, len), left |-> Consume(r, 1), frame |-> 0]
      BY <1>4, <2>6 DEF NextCall
    <3>. HIDE DEF s, r
    <3>. QED BY <1>1, <2>1, <2>3, <3>1 DEF s
  <2>7. CASE ~(len < MinLen \/ len > MaxLen) /\ ~(Len(r) < len) /\ Decode(r, len) = "OK"
    <3>1. s = [status |-> "OK", left |-> r, frame |-> len]
      BY <1>4, <2>7 DEF NextCall
    <3>2. len > 0 /\ len <= Len(r)
      BY <1>1, <1>2, <2>2, <2>7
    <3>. HIDE DEF s, r
    <3>. QED BY <1>1, <2>1, <2>2, <3>1, <3>2 DEF s
  <2>. QED BY <2>4, <2>5, <2>6, <2>7
<1>. QED BY <1>3, <1>4

\* The deferred bytes are what osdp_stream_pending leaves out.
LEMMA PendingIsRest ==
    ASSUME StreamTypeOK
    PROVE  LET b == Consume(buffer, pending_consume)
           IN  b \in Seq(Bytes) /\ Len(b) = StreamPending /\ Len(b) <= Len(buffer)
<1>1. /\ Consume(buffer, pending_consume) \in Seq(Bytes)
      /\ Len(Consume(buffer, pending_consume)) =
            IF pending_consume >= Len(buffer) THEN 0 ELSE Len(buffer) - pending_consume
  BY ConsumeLen DEF StreamTypeOK
<1>. QED BY <1>1 DEF StreamPending, StreamTypeOK

\* The decoder never holds more than its buffer, whatever arrives, for every
\* size of the buffer and of the frames (osdp_stream_feed, osdp_stream_next).
THEOREM StreamBounded == StreamSpec => []StreamTypeOK
<1>1. StreamInit => StreamTypeOK
  BY StreamAssumption DEF StreamInit, StreamTypeOK
<1>2. StreamTypeOK /\ [StreamNext]_streamVars => StreamTypeOK'
  <2>. SUFFICES ASSUME StreamTypeOK, [StreamNext]_streamVars
                PROVE  StreamTypeOK'
    OBVIOUS
  <2>1. ASSUME NEW t \in Templates, BeginFrame(t) PROVE StreamTypeOK'
    <3>1. t \in Seq(Nat)
      BY StreamAssumption
    <3>2. \A k \in 1..Len(t) : Byte(sent + 1, t, k) \in Bytes
      BY <3>1 DEF Byte, Bytes, StreamTypeOK
    <3>3. Len(t) \in Nat
      BY <3>1
    <3>4. [k \in 1..Len(t) |-> Byte(sent + 1, t, k)] \in Seq(Bytes)
      BY <3>2, <3>3
    <3>. QED BY <2>1, <3>4 DEF BeginFrame, StreamTypeOK, rxVars
  <2>2. ASSUME NEW lose \in BOOLEAN, SendByte(lose) PROVE StreamTypeOK'
    <3>1. rest \in Seq(Bytes) /\ queue \in Seq(Bytes) /\ rest # <<>>
      BY <2>2 DEF StreamTypeOK, SendByte
    <3>2. Tail(rest) \in Seq(Bytes) /\ Append(queue, Head(rest)) \in Seq(Bytes)
      BY <3>1
    <3>. QED BY <2>2, <3>1, <3>2 DEF SendByte, StreamTypeOK, rxVars
  <2>3. CASE AbandonFrame
    BY <2>3 DEF AbandonFrame, StreamTypeOK, rxVars
  <2>4. CASE Drain
    <3>. DEFINE n == IF Len(queue) < ChunkLen THEN Len(queue) ELSE ChunkLen
                b == Consume(buffer, pending_consume)
    <3>1. n \in Nat /\ n <= Len(queue) /\ queue \in Seq(Bytes)
      BY StreamAssumption DEF StreamTypeOK
    <3>2. CASE n = 0
      BY <2>4, <3>2 DEF Drain, StreamTypeOK, senderVars
    <3>3. CASE n # 0
      <4>1. SubSeq(queue, 1, n) \in Seq(Bytes) /\ SubSeq(queue, n + 1, Len(queue)) \in Seq(Bytes)
        BY <3>1, <3>3
      <4>2. b \in Seq(Bytes)
        BY PendingIsRest
      <4>3. /\ Feed(b, SubSeq(queue, 1, n)) \in Seq(Bytes)
            /\ Len(Feed(b, SubSeq(queue, 1, n))) <= BufferLen
        <5>. HIDE DEF b, n
        <5>. QED BY <4>1, <4>2, FeedLen
      <4>4. /\ buffer' = Feed(b, SubSeq(queue, 1, n)) /\ pending_consume' = 0
            /\ queue' = SubSeq(queue, n + 1, Len(queue))
            /\ pc' \in {"drain", "decode"} /\ rest' = rest /\ sent' = sent
        BY <2>4, <3>3 DEF Drain, senderVars
      <4>. HIDE DEF b, n
      <4>. QED BY <4>1, <4>3, <4>4 DEF StreamTypeOK
    <3>. QED BY <3>2, <3>3
  <2>5. CASE DecodeNext
    <3>. DEFINE b == Consume(buffer, pending_consume)
                s == NextCall(b)
    <3>1. b \in Seq(Bytes) /\ Len(b) <= Len(buffer)
      BY PendingIsRest
    <3>2. /\ s.left \in Seq(Bytes) /\ s.frame \in Nat
          /\ Len(s.left) <= Len(b) /\ s.frame <= Len(s.left)
      <4>. HIDE DEF b
      <4>. QED BY <3>1, NextCallShrinks
    <3>3. /\ buffer' = s.left /\ pending_consume' = s.frame
          /\ pc' \in {"check", "decode"}
          /\ queue' = queue /\ rest' = rest /\ sent' = sent
      BY <2>5 DEF DecodeNext, senderVars
    <3>. HIDE DEF b, s
    <3>. QED BY <3>1, <3>2, <3>3, StreamAssumption DEF StreamTypeOK
  <2>6. CASE CheckInterchar
    <3>1. \/ buffer' = buffer /\ pending_consume' = pending_consume
          \/ buffer' = <<>> /\ pending_consume' = 0
      BY <2>6 DEF CheckInterchar
    <3>2. pc' = "idle" /\ queue' = queue /\ rest' = rest /\ sent' = sent
      BY <2>6 DEF CheckInterchar, senderVars
    <3>3. <<>> \in Seq(Bytes) /\ Len(<<>>) = 0 /\ BufferLen \in Nat
      BY StreamAssumption
    <3>4. CASE buffer' = buffer /\ pending_consume' = pending_consume
      BY <3>2, <3>4 DEF StreamTypeOK
    <3>5. CASE buffer' = <<>> /\ pending_consume' = 0
      BY <3>2, <3>3, <3>5 DEF StreamTypeOK
    <3>. QED BY <3>1, <3>4, <3>5
  <2>7. CASE Clock
    BY <2>7 DEF Clock, StreamTypeOK
  <2>8. CASE UNCHANGED streamVars
    BY <2>8 DEF streamVars, senderVars, rxVars, StreamTypeOK
  <2>. QED BY <2>1, <2>2, <2>3, <2>4, <2>5, <2>6, <2>7, <2>8 DEF StreamNext
<1>. QED BY <1>1, <1>2, PTL DEF StreamSpec

\* A tick never loops for ever over what it received: every osdp_stream_next
\* that keeps the decode loop going leaves strictly fewer bytes.
THEOREM DecodeLoopEnds == StreamSpec => []DecodeProgress
<1>1. StreamTypeOK => DecodeProgress
  <2>. SUFFICES ASSUME StreamTypeOK PROVE DecodeProgress
    OBVIOUS
  <2>. DEFINE b == Consume(buffer, pending_consume)
              s == NextCall(b)
  <2>1. b \in Seq(Bytes) /\ Len(b) = StreamPending
    BY PendingIsRest
  <2>2. s.status # "TRUNCATED" => Len(s.left) - s.frame < Len(b)
    <3>. HIDE DEF b
    <3>. QED BY <2>1, NextCallShrinks DEF s
  <2>. QED BY <2>1, <2>2 DEF DecodeProgress
<1>. QED BY <1>1, StreamBounded, PTL

-----------------------------------------------------------------------------
(* Transmissions in order.  The decoder drops bytes from the front and     *)
(* never reorders what is left; the last byte of a transmission is         *)
(* followed by bytes of later ones only.                                   *)

Suffix(t, s) ==
    \E m \in Nat : Len(t) + m = Len(s) /\ \A i \in 1..Len(t) : t[i] = s[i + m]

\* x was sent before y and does not end y's transmission.
Before(x, y) == x.of < y.of \/ (x.of = y.of /\ x.at < y.at /\ ~x.last)

Ordered(s) == \A i, j \in 1..Len(s) : i < j => Before(s[i], s[j])
AllBefore(s, t) == \A i \in 1..Len(s), j \in 1..Len(t) : Before(s[i], t[j])

\* The bytes s belong to transmissions up to n, none of which is in d.
Fresh(s, d, n) ==
    \A i \in 1..Len(s) : s[i].of <= n /\ \A k \in 1..Len(d) : d[k] < s[i].of

Increasing(d) == \A i, j \in 1..Len(d) : i < j => d[i] < d[j]
Handed(d, n) == d \in Seq(Nat) /\ Increasing(d) /\ \A k \in 1..Len(d) : d[k] <= n

\* l is held by the decoder, q by the driver and r by the sender.
InOrder(l, q, r) ==
    /\ Ordered(l) /\ Ordered(q) /\ Ordered(r)
    /\ AllBefore(l, q) /\ AllBefore(l, r) /\ AllBefore(q, r)

OrderInv(l, q, r, d, n) ==
    /\ InOrder(l, q, r)
    /\ Fresh(l, d, n) /\ Fresh(q, d, n) /\ Fresh(r, d, n)
    /\ Handed(d, n)

Left == Consume(buffer, pending_consume)

LEMMA SuffixRefl ==
    ASSUME NEW S, NEW s \in Seq(S)
    PROVE  Suffix(s, s)
<1>1. Len(s) \in Nat /\ Len(s) + 0 = Len(s) /\ \A i \in 1..Len(s) : s[i] = s[i + 0]
  OBVIOUS
<1>. QED BY <1>1 DEF Suffix

LEMMA EmptySuffix ==
    ASSUME NEW S, NEW s \in Seq(S)
    PROVE  Suffix(<<>>, s)
<1>. DEFINE e == <<>>
<1>1. Len(e) = 0 /\ Len(s) \in Nat
  OBVIOUS
<1>. HIDE DEF e
<1>2. Len(e) + Len(s) = Len(s) /\ \A i \in 1..Len(e) : e[i] = s[i + Len(s)]
  BY <1>1
<1>3. Suffix(e, s)
  BY <1>1, <1>2 DEF Suffix
<1>. QED BY <1>3 DEF e

LEMMA SuffixTrans ==
    ASSUME NEW S, NEW s \in Seq(S), NEW t \in Seq(S), NEW u \in Seq(S), Suffix(t, s), Suffix(u, t)
    PROVE  Suffix(u, s)
<1>1. PICK m \in Nat : Len(t) + m = Len(s) /\ \A i \in 1..Len(t) : t[i] = s[i + m]
  BY DEF Suffix
<1>2. PICK k \in Nat : Len(u) + k = Len(t) /\ \A i \in 1..Len(u) : u[i] = t[i + k]
  BY DEF Suffix
<1>3. Len(s) \in Nat /\ Len(t) \in Nat /\ Len(u) \in Nat
  OBVIOUS
<1>4. k + m \in Nat /\ Len(u) + (k + m) = Len(s)
  BY <1>1, <1>2, <1>3
<1>5. \A i \in 1..Len(u) : u[i] = s[i + (k + m)]
  <2>1. ASSUME NEW i \in 1..Len(u) PROVE u[i] = s[i + (k + m)]
    <3>1. i + k \in 1..Len(t) /\ (i + k) + m = i + (k + m)
      BY <1>2, <1>3
    <3>. QED BY <1>1, <1>2, <3>1
  <2>. QED BY <2>1
<1>. QED BY <1>4, <1>5 DEF Suffix

\* osdp_stream_consume drops bytes from the front.
LEMMA ConsumeSuffix ==
    ASSUME NEW S, NEW b \in Seq(S), NEW n \in Nat
    PROVE  Suffix(Consume(b, n), b)
<1>0. Len(b) \in Nat
  OBVIOUS
<1>1. CASE n >= Len(b)
  <2>1. Consume(b, n) = <<>>
    BY <1>1 DEF Consume
  <2>. QED BY <2>1, EmptySuffix
<1>2. CASE ~(n >= Len(b))
  <2>. DEFINE t == Consume(b, n)
  <2>1. t = SubSeq(b, n + 1, Len(b))
    BY <1>2 DEF Consume
  <2>2. Len(t) = Len(b) - n
    BY <1>2, ConsumeLen
  <2>3. \A i \in 1..Len(t) : t[i] = b[i + n]
    BY <1>0, <1>2, <2>1, <2>2
  <2>4. Len(t) + n = Len(b)
    BY <1>0, <2>2
  <2>. HIDE DEF t
  <2>5. Suffix(t, b)
    BY <2>3, <2>4 DEF Suffix
  <2>. QED BY <2>5 DEF t
<1>. QED BY <1>1, <1>2

LEMMA ResyncSuffix ==
    ASSUME NEW b \in Seq(Bytes)
    PROVE  Suffix(Resync(b), b)
<1>. DEFINE n == SelectInSeq(b, LAMBDA x : x.v = Som)
<1>1. n \in Nat
  BY SomPlace
<1>2. CASE n = 0
  <2>1. Resync(b) = <<>> /\ Len(b) \in Nat
    BY <1>2 DEF Resync
  <2>. QED BY <2>1, EmptySuffix
<1>3. CASE n # 0
  <2>1. n - 1 \in Nat /\ Resync(b) = Consume(b, n - 1)
    BY <1>1, <1>3 DEF Resync
  <2>. HIDE DEF n
  <2>. QED BY <2>1, ConsumeSuffix
<1>. QED BY <1>2, <1>3

\* osdp_stream_next keeps an end of what it was given; the frame it reports is
\* the beginning of that and ends with the last byte of a transmission.
LEMMA NextCallSuffix ==
    ASSUME NEW b \in Seq(Bytes)
    PROVE  LET s == NextCall(b)
           IN  /\ Suffix(s.left, b)
               /\ s.status # "OK" => s.frame = 0
               /\ s.status = "OK" => /\ s.frame \in 1..Len(s.left)
                                     /\ s.left[s.frame].last
                                     /\ s.left[s.frame].of = s.left[1].of
<1>. DEFINE r   == Resync(b)
            len == r[2].v
            s   == NextCall(b)
<1>1. r \in Seq(Bytes) /\ Len(r) \in Nat /\ Suffix(r, b)
  BY ResyncLen, ResyncSuffix
<1>2. HeaderLen \in Nat /\ MinLen \in Nat /\ HeaderLen >= 3 /\ MinLen > 0
  BY StreamAssumption
<1>3. CASE Len(r) < HeaderLen
  <2>1. s = [status |-> "TRUNCATED", left |-> r, frame |-> 0]
    BY <1>3 DEF NextCall
  <2>. HIDE DEF s, r
  <2>. QED BY <1>1, <2>1 DEF s
<1>4. CASE ~(Len(r) < HeaderLen)
  <2>1. Len(r) >= 3
    BY <1>1, <1>2, <1>4
  <2>2. len \in Nat
    <3>. HIDE DEF r
    <3>1. r[2] \in Bytes
      BY <1>1, <2>1
    <3>. QED BY <3>1 DEF Bytes
  <2>3. Suffix(Consume(r, 1), b)
    <3>. HIDE DEF r
    <3>1. Consume(r, 1) \in Seq(Bytes) /\ Suffix(Consume(r, 1), r)
      BY <1>1, ConsumeLen, ConsumeSuffix
    <3>. QED BY <1>1, <3>1, SuffixTrans
  <2>4. CASE len < MinLen \/ len > MaxLen
    <3>1. s = [status |-> "BAD", left |-> Consume(r, 1), frame |-> 0]
      BY <1>4, <2>4 DEF NextCall
    <3>. HIDE DEF s, r
    <3>. QED BY <2>3, <3>1 DEF s
  <2>5. CASE ~(len < MinLen \/ len > MaxLen) /\ Len(r) < len
    <3>1. s = [status |-> "TRUNCATED", left |-> r, frame |-> 0]
      BY <1>4, <2>5 DEF NextCall
    <3>. HIDE DEF s, r
    <3>. QED BY <1>1, <3>1 DEF s
  <2>6. CASE ~(len < MinLen \/ len > MaxLen) /\ ~(Len(r) < len) /\ Decode(r, len) # "OK"
    <3>1. s = [status |-> Decode(r, len), left |-> Consume(r, 1), frame |-> 0]
      BY <1>4, <2>6 DEF NextCall
    <3>. HIDE DEF s, r
    <3>. QED BY <2>3, <2>6, <3>1 DEF s
  <2>7. CASE ~(len < MinLen \/ len > MaxLen) /\ ~(Len(r) < len) /\ Decode(r, len) = "OK"
    <3>1. s = [status |-> "OK", left |-> r, frame |-> len]
      BY <1>4, <2>7 DEF NextCall
    <3>2. len \in 1..Len(r)
      BY <1>1, <1>2, <2>2, <2>7
    <3>3. r[len].last /\ r[len].of = r[1].of
      <4>. HIDE DEF r
      <4>. QED BY <2>7, <3>2 DEF Decode
    <3>. HIDE DEF s, r
    <3>. QED BY <1>1, <3>1, <3>2, <3>3 DEF s
  <2>. QED BY <2>4, <2>5, <2>6, <2>7
<1>. QED BY <1>3, <1>4

-----------------------------------------------------------------------------
(* What keeps bytes in order.                                              *)

LEMMA SuffixOrdered ==
    ASSUME NEW s \in Seq(Bytes), NEW t \in Seq(Bytes), Suffix(t, s),
           NEW u \in Seq(Bytes), NEW d \in Seq(Nat), NEW n \in Nat
    PROVE  /\ Ordered(s) => Ordered(t)
           /\ AllBefore(s, u) => AllBefore(t, u)
           /\ AllBefore(u, s) => AllBefore(u, t)
           /\ Fresh(s, d, n) => Fresh(t, d, n)
<1>1. PICK m \in Nat : Len(t) + m = Len(s) /\ \A i \in 1..Len(t) : t[i] = s[i + m]
  BY DEF Suffix
<1>2. Len(s) \in Nat /\ Len(t) \in Nat
  OBVIOUS
<1>3. \A i \in 1..Len(t) : i + m \in 1..Len(s)
  BY <1>1, <1>2
<1>4. ASSUME Ordered(s) PROVE Ordered(t)
  <2>1. ASSUME NEW i \in 1..Len(t), NEW j \in 1..Len(t), i < j PROVE Before(t[i], t[j])
    <3>1. i + m < j + m
      BY <1>1, <1>2, <2>1
    <3>. QED BY <1>1, <1>3, <1>4, <3>1 DEF Ordered
  <2>. QED BY <2>1 DEF Ordered
<1>5. ASSUME AllBefore(s, u) PROVE AllBefore(t, u)
  BY <1>1, <1>3, <1>5 DEF AllBefore
<1>6. ASSUME AllBefore(u, s) PROVE AllBefore(u, t)
  BY <1>1, <1>3, <1>6 DEF AllBefore
<1>7. ASSUME Fresh(s, d, n) PROVE Fresh(t, d, n)
  BY <1>1, <1>3, <1>7 DEF Fresh
<1>. QED BY <1>4, <1>5, <1>6, <1>7

\* Dropping bytes from the front of what the decoder holds.
LEMMA DropKeepsOrder ==
    ASSUME NEW l \in Seq(Bytes), NEW t \in Seq(Bytes), NEW q \in Seq(Bytes), NEW r \in Seq(Bytes),
           NEW d, NEW n \in Nat, OrderInv(l, q, r, d, n), Suffix(t, l)
    PROVE  OrderInv(t, q, r, d, n)
<1>1. d \in Seq(Nat)
  BY DEF OrderInv, Handed
<1>2. Ordered(t) /\ AllBefore(t, q) /\ AllBefore(t, r) /\ Fresh(t, d, n)
  BY <1>1, SuffixOrdered DEF OrderInv, InOrder
<1>. QED BY <1>2 DEF OrderInv, InOrder

\* A place of a sequence one longer is the last or a place it had before.
LEMMA LastOrEarlier ==
    ASSUME NEW a \in Nat
    PROVE  \A k \in 1..(a + 1) : k \in 1..a \/ k = a + 1
  OBVIOUS

\* A frame is handed on: its bytes are dropped and those behind it are of later
\* transmissions.
LEMMA HandOnKeepsOrder ==
    ASSUME NEW l \in Seq(Bytes), NEW t \in Seq(Bytes), NEW q \in Seq(Bytes), NEW r \in Seq(Bytes),
           NEW d, NEW n \in Nat, OrderInv(l, q, r, d, n),
           NEW f \in 1..Len(l), l[f].last, l[f].of = l[1].of, t = Consume(l, f)
    PROVE  OrderInv(t, q, r, Append(d, l[1].of), n)
<1>. DEFINE e == Append(d, l[1].of)
<1>1. d \in Seq(Nat) /\ Len(d) \in Nat /\ Len(l) \in Nat /\ 1 \in 1..Len(l)
  BY DEF OrderInv, Handed
<1>2. l[1].of \in Nat /\ l[1].of <= n /\ \A k \in 1..Len(d) : d[k] < l[1].of
  <2>1. l[1] \in Bytes
    BY <1>1
  <2>. QED BY <1>1, <2>1 DEF OrderInv, Fresh, Bytes
<1>3. /\ e \in Seq(Nat) /\ Len(e) = Len(d) + 1
      /\ \A k \in 1..Len(d) : e[k] = d[k]
      /\ e[Len(d) + 1] = l[1].of
  <2>. DEFINE v == l[1].of
  <2>1. v \in Nat
    BY <1>2
  <2>. HIDE DEF v
  <2>2. /\ Append(d, v) \in Seq(Nat) /\ Len(Append(d, v)) = Len(d) + 1
        /\ \A k \in 1..Len(d) : Append(d, v)[k] = d[k]
        /\ Append(d, v)[Len(d) + 1] = v
    BY <1>1, <2>1
  <2>. QED BY <2>2 DEF v
<1>. HIDE DEF e
<1>4. \A k \in 1..Len(e) : k \in 1..Len(d) \/ k = Len(d) + 1
  <2>1. Len(d) \in Nat /\ Len(e) = Len(d) + 1
    BY <1>1, <1>3
  <2>. QED BY <2>1, LastOrEarlier, Zenon
<1>5. Handed(e, n)
  <2>1. \A k \in 1..Len(e) : e[k] <= n
    BY <1>2, <1>3, <1>4 DEF OrderInv, Handed
  <2>2. ASSUME NEW i \in 1..Len(e), NEW j \in 1..Len(e), i < j PROVE e[i] < e[j]
    <3>1. i \in 1..Len(d)
      BY <1>1, <1>3, <2>2
    <3>2. e[i] = d[i]
      BY <1>3, <3>1
    <3>3. CASE j \in 1..Len(d)
      BY <1>2, <1>3, <2>2, <3>1, <3>2, <3>3 DEF OrderInv, Handed, Increasing
    <3>4. CASE j = Len(d) + 1
      BY <1>2, <1>3, <3>1, <3>2, <3>4 DEF OrderInv, Handed
    <3>. QED BY <1>4, <3>3, <3>4
  <2>. QED BY <1>3, <2>1, <2>2 DEF Handed, Increasing
<1>6. ASSUME NEW s \in Seq(Bytes), Fresh(s, d, n),
             \A j \in 1..Len(s) : Before(l[f], s[j])
      PROVE  Fresh(s, e, n)
  <2>1. ASSUME NEW j \in 1..Len(s) PROVE l[1].of < s[j].of
    BY <1>6 DEF Before
  <2>. QED BY <1>3, <1>4, <1>6, <2>1 DEF Fresh
<1>7. Fresh(q, e, n) /\ Fresh(r, e, n)
  BY <1>6 DEF OrderInv, InOrder, AllBefore
<1>8. OrderInv(t, q, r, d, n)
  BY ConsumeSuffix, DropKeepsOrder
<1>9. \A j \in 1..Len(t) : Before(l[f], t[j])
  <2>1. CASE f >= Len(l)
    <3>1. Len(t) = 0
      BY <2>1, ConsumeLen
    <3>. QED BY <3>1
  <2>2. CASE ~(f >= Len(l))
    <3>1. t = SubSeq(l, f + 1, Len(l)) /\ Len(t) = Len(l) - f
      BY <2>2, ConsumeLen DEF Consume
    <3>2. \A j \in 1..Len(t) : t[j] = l[f + j] /\ f + j \in 1..Len(l) /\ f < f + j
      BY <1>1, <2>2, <3>1
    <3>. QED BY <3>2 DEF OrderInv, InOrder, Ordered
  <2>. QED BY <2>1, <2>2
<1>10. Fresh(t, e, n)
  BY <1>6, <1>8, <1>9 DEF OrderInv
<1>. QED BY <1>5, <1>7, <1>8, <1>10 DEF OrderInv, e

\* The driver's oldest bytes move into the decoder's buffer.
LEMMA FeedKeepsOrder ==
    ASSUME NEW l \in Seq(Bytes), NEW q \in Seq(Bytes), NEW r \in Seq(Bytes),
           NEW d, NEW n \in Nat, OrderInv(l, q, r, d, n), NEW k \in 1..Len(q)
    PROVE  OrderInv(Feed(l, SubSeq(q, 1, k)), SubSeq(q, k + 1, Len(q)), r, d, n)
<1>. DEFINE x   == SubSeq(q, 1, k)
            y   == SubSeq(q, k + 1, Len(q))
            all == l \o x
<1>0. Len(q) \in Nat /\ Len(l) \in Nat /\ k \in Nat /\ k <= Len(q) /\ d \in Seq(Nat)
  BY DEF OrderInv, Handed
<1>1. x \in Seq(Bytes) /\ Len(x) = k /\ \A i \in 1..k : x[i] = q[i]
  BY <1>0
<1>2. Suffix(y, q) /\ y \in Seq(Bytes)
  <2>1. CASE k = Len(q)
    <3>1. y = <<>>
      BY <1>0, <2>1
    <3>2. <<>> \in Seq(Bytes)
      OBVIOUS
    <3>. HIDE DEF y
    <3>. QED BY <3>1, <3>2, EmptySuffix
  <2>2. CASE k < Len(q)
    <3>1. Consume(q, k) = y
      BY <1>0, <2>2 DEF Consume
    <3>. QED BY <1>0, <3>1, ConsumeSuffix, ConsumeLen
  <2>. QED BY <1>0, <2>1, <2>2
<1>3. Len(y) \in Nat /\ Len(y) = Len(q) - k /\ \A j \in 1..Len(y) : y[j] = q[j + k]
  BY <1>0
<1>4. \A j \in 1..Len(y) : j + k \in 1..Len(q)
  BY <1>0, <1>3
<1>5. /\ all \in Seq(Bytes) /\ Len(all) = Len(l) + k
      /\ \A i \in 1..Len(l) : all[i] = l[i]
      /\ \A i \in 1..k : all[Len(l) + i] = q[i]
  BY <1>0, <1>1
<1>. HIDE DEF x, y, all
<1>6. \A i \in 1..Len(all) : i \in 1..Len(l) \/ (i - Len(l) \in 1..k /\ all[i] = q[i - Len(l)])
  <2>1. ASSUME NEW i \in 1..Len(all), i \notin 1..Len(l)
        PROVE  i - Len(l) \in 1..k /\ all[i] = q[i - Len(l)]
    <3>1. i - Len(l) \in 1..k /\ Len(l) + (i - Len(l)) = i
      BY <1>0, <1>5, <2>1
    <3>2. all[Len(l) + (i - Len(l))] = q[i - Len(l)]
      BY <1>5, <3>1
    <3>. QED BY <3>1, <3>2
  <2>. QED BY <2>1
<1>7. \A i \in 1..k : i \in 1..Len(q)
  BY <1>0
<1>8. Ordered(all)
  <2>1. ASSUME NEW i \in 1..Len(all), NEW j \in 1..Len(all), i < j PROVE Before(all[i], all[j])
    <3>1. CASE j \in 1..Len(l)
      <4>1. i \in 1..Len(l)
        BY <1>0, <1>5, <2>1, <3>1
      <4>. QED BY <1>5, <2>1, <3>1, <4>1 DEF OrderInv, InOrder, Ordered
    <3>2. CASE j \notin 1..Len(l) /\ i \in 1..Len(l)
      BY <1>5, <1>6, <1>7, <3>2 DEF OrderInv, InOrder, AllBefore
    <3>3. CASE j \notin 1..Len(l) /\ i \notin 1..Len(l)
      <4>1. i - Len(l) < j - Len(l)
        BY <1>0, <1>5, <2>1
      <4>. QED BY <1>6, <1>7, <3>3, <4>1 DEF OrderInv, InOrder, Ordered
    <3>. QED BY <3>1, <3>2, <3>3
  <2>. QED BY <2>1 DEF Ordered
<1>9. AllBefore(all, y)
  <2>1. ASSUME NEW i \in 1..Len(all), NEW j \in 1..Len(y) PROVE Before(all[i], y[j])
    <3>1. CASE i \in 1..Len(l)
      BY <1>3, <1>4, <1>5, <3>1 DEF OrderInv, InOrder, AllBefore
    <3>2. CASE i \notin 1..Len(l)
      <4>1. i - Len(l) \in 1..k /\ all[i] = q[i - Len(l)]
        BY <1>6, <3>2
      <4>2. i - Len(l) < j + k
        BY <1>0, <1>3, <4>1
      <4>. QED BY <1>3, <1>4, <1>7, <4>1, <4>2 DEF OrderInv, InOrder, Ordered
    <3>. QED BY <3>1, <3>2
  <2>. QED BY <2>1 DEF AllBefore
<1>10. AllBefore(all, r)
  BY <1>5, <1>6, <1>7 DEF OrderInv, InOrder, AllBefore
<1>11. Fresh(all, d, n)
  BY <1>5, <1>6, <1>7 DEF OrderInv, Fresh
<1>12. Ordered(y) /\ AllBefore(y, r) /\ Fresh(y, d, n)
  BY <1>0, <1>2, SuffixOrdered DEF OrderInv, InOrder
<1>13. OrderInv(all, y, r, d, n)
  BY <1>8, <1>9, <1>10, <1>11, <1>12 DEF OrderInv, InOrder
<1>14. Suffix(Feed(l, x), all) /\ Feed(l, x) \in Seq(Bytes)
  <2>1. CASE Len(all) > BufferLen
    <3>1. Feed(l, x) = Consume(all, Len(all) - BufferLen)
      BY <2>1 DEF Feed, all
    <3>2. Len(all) - BufferLen \in Nat
      BY <1>0, <1>5, <2>1, StreamAssumption
    <3>. QED BY <1>5, <3>1, <3>2, ConsumeSuffix, ConsumeLen
  <2>2. CASE ~(Len(all) > BufferLen)
    <3>1. Feed(l, x) = all
      BY <2>2 DEF Feed, all
    <3>. QED BY <1>5, <3>1, SuffixRefl
  <2>. QED BY <2>1, <2>2
<1>15. OrderInv(Feed(l, x), y, r, d, n)
  BY <1>2, <1>5, <1>13, <1>14, DropKeepsOrder
<1>. QED BY <1>15 DEF x, y

-----------------------------------------------------------------------------
LEMMA OrderInit == StreamInit => OrderInv(Left, queue, rest, decoded, sent)
<1>. SUFFICES ASSUME StreamInit PROVE OrderInv(Left, queue, rest, decoded, sent)
  OBVIOUS
<1>1. /\ rest = <<>> /\ queue = <<>> /\ buffer = <<>> /\ pending_consume = 0
      /\ decoded = <<>> /\ sent = 0
  BY DEF StreamInit
<1>2. Len(<<>>) = 0 /\ <<>> \in Seq(Nat)
  OBVIOUS
<1>3. Left = <<>>
  BY <1>1, <1>2 DEF Left, Consume
<1>4. \A i \in 1..0 : FALSE
  OBVIOUS
<1>. QED BY <1>1, <1>2, <1>3, <1>4
         DEF OrderInv, InOrder, Ordered, AllBefore, Fresh, Handed, Increasing

LEMMA BeginKeepsOrder ==
    ASSUME NEW l \in Seq(Bytes), NEW q \in Seq(Bytes), NEW r \in Seq(Bytes), NEW d, NEW n \in Nat,
           OrderInv(l, q, r, d, n), NEW t \in Templates
    PROVE  OrderInv(l, q, [k \in 1..Len(t) |-> Byte(n + 1, t, k)], d, n + 1)
<1>. DEFINE m == n + 1
            u == [k \in 1..Len(t) |-> Byte(m, t, k)]
<1>0. t \in Seq(Nat) /\ Len(t) \in Nat /\ m \in Nat /\ n < m
  BY StreamAssumption
<1>1. Len(u) = Len(t)
  BY <1>0
<1>2. \A k \in 1..Len(t) : u[k].of = m /\ u[k].at = k /\ u[k].last = (k = Len(t))
  BY DEF Byte
<1>. HIDE DEF u, m
<1>3. Ordered(u)
  <2>1. ASSUME NEW i \in 1..Len(u), NEW j \in 1..Len(u), i < j PROVE Before(u[i], u[j])
    <3>1. i # Len(t)
      BY <1>0, <1>1, <2>1
    <3>2. ~u[i].last /\ u[i].of = u[j].of /\ u[i].at < u[j].at
      BY <1>1, <1>2, <2>1, <3>1
    <3>. QED BY <3>2 DEF Before
  <2>. QED BY <2>1 DEF Ordered
<1>4. ASSUME NEW s \in Seq(Bytes), Fresh(s, d, n) PROVE AllBefore(s, u) /\ Fresh(s, d, m)
  <2>1. ASSUME NEW i \in 1..Len(s) PROVE s[i].of <= n /\ s[i].of \in Nat
    <3>1. s[i] \in Bytes
      OBVIOUS
    <3>. QED BY <1>4, <3>1 DEF Fresh, Bytes
  <2>2. \A i \in 1..Len(s) : s[i].of < m /\ s[i].of <= m
    BY <1>0, <2>1
  <2>3. AllBefore(s, u)
    BY <1>1, <1>2, <2>2 DEF AllBefore, Before
  <2>. QED BY <1>4, <2>2, <2>3 DEF Fresh
<1>5. d \in Seq(Nat) /\ \A k \in 1..Len(d) : d[k] <= n /\ d[k] \in Nat
  BY DEF OrderInv, Handed
<1>6. \A k \in 1..Len(d) : d[k] < m /\ d[k] <= m
  BY <1>0, <1>5
<1>7. Handed(d, m)
  BY <1>6 DEF OrderInv, Handed
<1>8. Fresh(u, d, m)
  BY <1>0, <1>1, <1>2, <1>6 DEF Fresh
<1>9. /\ AllBefore(l, u) /\ AllBefore(q, u) /\ Fresh(l, d, m) /\ Fresh(q, d, m)
  BY <1>4 DEF OrderInv
<1>. QED BY <1>3, <1>7, <1>8, <1>9 DEF OrderInv, InOrder, u, m

LEMMA SendKeepsOrder ==
    ASSUME NEW l \in Seq(Bytes), NEW q \in Seq(Bytes), NEW r \in Seq(Bytes), NEW d, NEW n \in Nat,
           OrderInv(l, q, r, d, n), r # <<>>
    PROVE  OrderInv(l, q, Tail(r), d, n) /\ OrderInv(l, Append(q, Head(r)), Tail(r), d, n)
<1>. DEFINE t == Tail(r)
            h == Head(r)
            a == Append(q, h)
<1>0. d \in Seq(Nat) /\ Len(r) \in Nat /\ Len(q) \in Nat /\ Len(r) >= 1 /\ Len(l) \in Nat
  BY DEF OrderInv, Handed
<1>1. /\ t \in Seq(Bytes) /\ Len(t) + 1 = Len(r) /\ \A i \in 1..Len(t) : t[i] = r[i + 1]
      /\ h = r[1] /\ h \in Bytes
  BY <1>0
<1>2. Suffix(t, r)
  <2>. HIDE DEF t
  <2>. QED BY <1>1 DEF Suffix
<1>3. /\ a \in Seq(Bytes) /\ Len(a) = Len(q) + 1 /\ a[Len(q) + 1] = r[1]
      /\ \A i \in 1..Len(q) : a[i] = q[i]
  BY <1>0, <1>1
<1>4. \A i \in 1..Len(a) : i \in 1..Len(q) \/ i = Len(q) + 1
  BY <1>0, <1>3
<1>5. /\ \A i \in 1..Len(t) : i + 1 \in 1..Len(r) /\ 1 < i + 1
      /\ 1 \in 1..Len(r)
  BY <1>0, <1>1
<1>. HIDE DEF t, h, a
<1>6. Ordered(t) /\ AllBefore(l, t) /\ AllBefore(q, t) /\ Fresh(t, d, n)
  BY <1>0, <1>1, <1>2, SuffixOrdered DEF OrderInv, InOrder
<1>7. OrderInv(l, q, t, d, n)
  BY <1>6 DEF OrderInv, InOrder
<1>8. Ordered(a)
  <2>1. ASSUME NEW i \in 1..Len(a), NEW j \in 1..Len(a), i < j PROVE Before(a[i], a[j])
    <3>1. i \in 1..Len(q)
      BY <1>0, <1>3, <2>1
    <3>2. CASE j \in 1..Len(q)
      BY <1>3, <2>1, <3>1, <3>2 DEF OrderInv, InOrder, Ordered
    <3>3. CASE j = Len(q) + 1
      BY <1>3, <1>5, <3>1, <3>3 DEF OrderInv, InOrder, AllBefore
    <3>. QED BY <1>4, <3>2, <3>3
  <2>. QED BY <2>1 DEF Ordered
<1>9. AllBefore(l, a)
  BY <1>3, <1>4, <1>5 DEF OrderInv, InOrder, AllBefore
<1>10. AllBefore(a, t)
  <2>1. ASSUME NEW i \in 1..Len(a), NEW j \in 1..Len(t) PROVE Before(a[i], t[j])
    <3>1. CASE i \in 1..Len(q)
      BY <1>3, <1>6, <3>1 DEF AllBefore
    <3>2. CASE i = Len(q) + 1
      BY <1>1, <1>3, <1>5, <3>2 DEF OrderInv, InOrder, Ordered
    <3>. QED BY <1>4, <3>1, <3>2
  <2>. QED BY <2>1 DEF AllBefore
<1>11. Fresh(a, d, n)
  BY <1>3, <1>4, <1>5 DEF OrderInv, Fresh
<1>. QED BY <1>6, <1>7, <1>8, <1>9, <1>10, <1>11 DEF OrderInv, InOrder, t, a, h

LEMMA OrderStep ==
    ASSUME StreamTypeOK, OrderInv(Left, queue, rest, decoded, sent), [StreamNext]_streamVars
    PROVE  OrderInv(Left', queue', rest', decoded', sent')
<1>0. /\ Left \in Seq(Bytes) /\ queue \in Seq(Bytes) /\ rest \in Seq(Bytes) /\ sent \in Nat
      /\ buffer \in Seq(Bytes) /\ pending_consume \in Nat
      /\ <<>> \in Seq(Bytes) /\ \A s \in Seq(Bytes) : Suffix(<<>>, s)
  <2>1. \A s \in Seq(Bytes) : Suffix(<<>>, s)
    BY EmptySuffix
  <2>. QED BY <2>1, PendingIsRest DEF StreamTypeOK, Left
<1>1. ASSUME NEW t \in Templates, BeginFrame(t) PROVE OrderInv(Left', queue', rest', decoded', sent')
  <2>1. /\ Left' = Left /\ queue' = queue /\ decoded' = decoded /\ sent' = sent + 1
        /\ rest' = [k \in 1..Len(t) |-> Byte(sent + 1, t, k)]
    BY <1>1 DEF BeginFrame, rxVars, Left
  <2>2. OrderInv(Left, queue, [k \in 1..Len(t) |-> Byte(sent + 1, t, k)], decoded, sent + 1)
    BY <1>0, BeginKeepsOrder
  <2>. QED BY <2>1, <2>2
<1>2. ASSUME NEW lose, SendByte(lose) PROVE OrderInv(Left', queue', rest', decoded', sent')
  <2>1. /\ Left' = Left /\ decoded' = decoded /\ sent' = sent /\ rest # <<>> /\ rest' = Tail(rest)
        /\ (queue' = queue \/ queue' = Append(queue, Head(rest)))
    BY <1>2 DEF SendByte, rxVars, Left
  <2>2. /\ OrderInv(Left, queue, Tail(rest), decoded, sent)
        /\ OrderInv(Left, Append(queue, Head(rest)), Tail(rest), decoded, sent)
    BY <1>0, <2>1, SendKeepsOrder
  <2>. QED BY <2>1, <2>2
<1>3. CASE AbandonFrame
  <2>1. /\ Left' = Left /\ queue' = queue /\ decoded' = decoded /\ sent' = sent /\ rest' = <<>>
    BY <1>3 DEF AbandonFrame, rxVars, Left
  <2>2. decoded \in Seq(Nat)
    BY DEF OrderInv, Handed
  <2>3. /\ Ordered(<<>>) /\ AllBefore(Left, <<>>) /\ AllBefore(queue, <<>>)
        /\ Fresh(<<>>, decoded, sent)
    BY <1>0, <2>2, SuffixOrdered DEF OrderInv, InOrder
  <2>4. OrderInv(Left, queue, <<>>, decoded, sent)
    BY <2>3 DEF OrderInv, InOrder
  <2>. QED BY <2>1, <2>4
<1>4. CASE Drain
  <2>. DEFINE n == IF Len(queue) < ChunkLen THEN Len(queue) ELSE ChunkLen
  <2>1. n \in Nat /\ n <= Len(queue)
    BY <1>0, StreamAssumption
  <2>2. rest' = rest /\ decoded' = decoded /\ sent' = sent
    BY <1>4 DEF Drain, senderVars
  <2>3. CASE n = 0
    <3>1. Left' = Left /\ queue' = queue
      BY <1>4, <2>3 DEF Drain, Left
    <3>. QED BY <2>2, <3>1
  <2>4. CASE n # 0
    <3>1. /\ queue' = SubSeq(queue, n + 1, Len(queue))
          /\ buffer' = Feed(Left, SubSeq(queue, 1, n)) /\ pending_consume' = 0
      BY <1>4, <2>4 DEF Drain, Left
    <3>. HIDE DEF n
    <3>2. n \in 1..Len(queue)
      BY <1>0, <2>1, <2>4
    <3>3. OrderInv(Feed(Left, SubSeq(queue, 1, n)), SubSeq(queue, n + 1, Len(queue)),
                   rest, decoded, sent)
      BY <1>0, <3>2, FeedKeepsOrder
    <3>4. Left' = buffer'
      <4>1. SubSeq(queue, 1, n) \in Seq(Bytes)
        BY <1>0, <3>2
      <4>2. buffer' \in Seq(Bytes)
        BY <1>0, <3>1, <4>1, FeedLen
      <4>3. Consume(buffer', 0) = buffer'
        BY <4>2, ConsumeNone
      <4>. QED BY <3>1, <4>3 DEF Left
    <3>. QED BY <2>2, <3>1, <3>3, <3>4
  <2>. QED BY <2>3, <2>4
<1>5. CASE DecodeNext
  <2>. DEFINE s == NextCall(Left)
  <2>1. /\ s.left \in Seq(Bytes) /\ s.frame \in Nat /\ s.frame <= Len(s.left)
        /\ Suffix(s.left, Left)
        /\ (s.status # "OK" => s.frame = 0)
        /\ (s.status = "OK" => /\ s.frame \in 1..Len(s.left)
                               /\ s.left[s.frame].last
                               /\ s.left[s.frame].of = s.left[1].of)
    BY <1>0, NextCallShrinks, NextCallSuffix
  <2>2. /\ buffer' = s.left /\ pending_consume' = s.frame
        /\ decoded' = IF s.status = "OK" THEN Append(decoded, s.left[1].of) ELSE decoded
        /\ queue' = queue /\ rest' = rest /\ sent' = sent
    BY <1>5 DEF DecodeNext, senderVars, Left
  <2>. HIDE DEF s
  <2>3. OrderInv(s.left, queue, rest, decoded, sent)
    BY <1>0, <2>1, DropKeepsOrder
  <2>4. Left' = Consume(s.left, s.frame)
    BY <2>2 DEF Left
  <2>5. CASE s.status = "OK"
    <3>1. Consume(s.left, s.frame) \in Seq(Bytes)
      BY <2>1, ConsumeLen
    <3>2. OrderInv(Consume(s.left, s.frame), queue, rest, Append(decoded, s.left[1].of), sent)
      BY <1>0, <2>1, <2>3, <2>5, <3>1, HandOnKeepsOrder
    <3>. QED BY <2>2, <2>4, <2>5, <3>2
  <2>6. CASE s.status # "OK"
    <3>1. Consume(s.left, 0) = s.left
      BY <2>1, ConsumeNone
    <3>. QED BY <2>1, <2>2, <2>3, <2>4, <2>6, <3>1
  <2>. QED BY <2>5, <2>6
<1>6. CASE CheckInterchar
  <2>1. \/ buffer' = buffer /\ pending_consume' = pending_consume
        \/ buffer' = <<>> /\ pending_consume' = 0
    BY <1>6 DEF CheckInterchar
  <2>2. queue' = queue /\ rest' = rest /\ sent' = sent /\ decoded' = decoded
    BY <1>6 DEF CheckInterchar, senderVars
  <2>3. CASE buffer' = buffer /\ pending_consume' = pending_consume
    <3>1. Left' = Left
      BY <2>3 DEF Left
    <3>. QED BY <2>2, <3>1
  <2>4. CASE buffer' = <<>> /\ pending_consume' = 0
    <3>1. Left' = <<>>
      BY <1>0, <2>4, ConsumeNone DEF Left
    <3>2. OrderInv(<<>>, queue, rest, decoded, sent)
      BY <1>0, DropKeepsOrder
    <3>. QED BY <2>2, <3>1, <3>2
  <2>. QED BY <2>1, <2>3, <2>4
<1>7. CASE Clock \/ UNCHANGED streamVars
  <2>1. Left' = Left /\ queue' = queue /\ rest' = rest /\ sent' = sent /\ decoded' = decoded
    BY <1>7 DEF Clock, streamVars, senderVars, rxVars, Left
  <2>. QED BY <2>1
<1>. QED BY <1>1, <1>2, <1>3, <1>4, <1>5, <1>6, <1>7 DEF StreamNext

\* Every transmission is handed to process_frame at most once and never before an
\* earlier one, whatever is lost around it and whatever its bytes look like:
\* osdp_stream_next and osdp_stream_feed only ever drop bytes from the front.
THEOREM FramesInOrder == StreamSpec => []DecodedInOrder
<1>. DEFINE Inv == OrderInv(Left, queue, rest, decoded, sent)
<1>1. StreamInit => Inv
  BY OrderInit
<1>2. StreamTypeOK /\ Inv /\ [StreamNext]_streamVars => Inv'
  BY OrderStep
<1>3. Inv => DecodedInOrder
  BY DEF OrderInv, Handed, Increasing, DecodedInOrder
<1>. HIDE DEF Inv
<1>. QED BY <1>1, <1>2, <1>3, StreamBounded, PTL DEF StreamSpec

-----------------------------------------------------------------------------
(* A clean frame after a silence is decoded.                               *)

\* Frames as the library builds them: SOM, a LEN that counts every byte, room for
\* the CRC they announce, and so short that the buffer holds one of them, save
\* its last byte, together with a full chunk.
WellFormed ==
    \A t \in Templates :
        /\ t[1] = Som /\ t[2] = Len(t)
        /\ MinLen <= Len(t) /\ Len(t) <= MaxLen
        /\ t[3] = 1 => MinLenCrc <= Len(t)
        /\ Len(t) + ChunkLen <= BufferLen + 1

\* A header that announces a CRC in a frame too short for one begins at i.  The
\* places are counted from the end, so that dropping bytes moves none of them.
ShortHeader(b, i) ==
    i + 2 <= Len(b) /\ b[i].v = Som /\ b[i + 1].v < MinLenCrc /\ b[i + 2].v = 1
Headers(b) == {d \in 0..(Len(b) - 1) : ShortHeader(b, Len(b) - d)}
HeaderCount(b) == Cardinality(Headers(b))

\* The decoder waits for the rest of a frame: another call leaves all as it is.
Calm(b) == NextCall(b) = [status |-> "TRUNCATED", left |-> b, frame |-> 0]

LEMMA ResyncHead ==
    ASSUME NEW b \in Seq(Bytes)
    PROVE  Resync(b) = <<>> \/ Resync(b)[1].v = Som
<1>. DEFINE n == SelectInSeq(b, LAMBDA x : x.v = Som)
<1>1. n = 0 \/ (n \in 1..Len(b) /\ b[n].v = Som)
  BY FirstSom
<1>2. Resync(b) = IF n = 0 THEN <<>> ELSE Consume(b, n - 1)
  BY DEF Resync
<1>. HIDE DEF n
<1>3. ASSUME n \in 1..Len(b) PROVE Consume(b, n - 1)[1] = b[n]
  <2>1. n - 1 \in Nat /\ n \in Nat /\ Len(b) \in Nat /\ ~(n - 1 >= Len(b))
    BY <1>3
  <2>2. PICK m \in Nat : /\ Len(Consume(b, n - 1)) + m = Len(b)
                         /\ \A i \in 1..Len(Consume(b, n - 1)) : Consume(b, n - 1)[i] = b[i + m]
    BY <2>1, ConsumeSuffix DEF Suffix
  <2>3. Len(Consume(b, n - 1)) = Len(b) - (n - 1)
    BY <2>1, ConsumeLen
  <2>4. 1 \in 1..Len(Consume(b, n - 1)) /\ 1 + m = n
    BY <2>1, <2>2, <2>3, <1>3
  <2>. QED BY <2>2, <2>4
<1>. QED BY <1>1, <1>2, <1>3

LEMMA ResyncFixed ==
    ASSUME NEW b \in Seq(Bytes), b = <<>> \/ b[1].v = Som
    PROVE  Resync(b) = b
<1>. DEFINE n == SelectInSeq(b, LAMBDA x : x.v = Som)
<1>1. \/ n = 0 /\ \A i \in 1..Len(b) : b[i].v # Som
      \/ n \in 1..Len(b) /\ \A i \in 1..Len(b) : b[i].v = Som => n <= i
  BY FirstSom
<1>2. Resync(b) = IF n = 0 THEN <<>> ELSE Consume(b, n - 1)
  BY DEF Resync
<1>. HIDE DEF n
<1>3. CASE b = <<>>
  <2>1. n = 0
    BY <1>1, <1>3
  <2>. QED BY <1>2, <1>3, <2>1
<1>4. CASE b # <<>>
  <2>1. 1 \in 1..Len(b) /\ b[1].v = Som
    BY <1>4
  <2>2. n = 1
    BY <1>1, <2>1
  <2>. QED BY <1>2, <2>2, ConsumeNone
<1>. QED BY <1>3, <1>4

\* There are no more headers in an end of the bytes.
LEMMA HeadersFinite ==
    ASSUME NEW b \in Seq(Bytes)
    PROVE  IsFiniteSet(Headers(b)) /\ HeaderCount(b) \in Nat
<1>1. Len(b) - 1 \in Int
  OBVIOUS
<1>2. IsFiniteSet(0..(Len(b) - 1))
  BY <1>1, FS_Interval
<1>3. Headers(b) \in SUBSET (0..(Len(b) - 1))
  BY DEF Headers
<1>4. IsFiniteSet(Headers(b))
  BY <1>2, <1>3, FS_Subset
<1>. QED BY <1>4, FS_CardinalityType DEF HeaderCount

LEMMA HeadersOfEnd ==
    ASSUME NEW s \in Seq(Bytes), NEW t \in Seq(Bytes), Suffix(t, s)
    PROVE  Headers(t) \subseteq Headers(s) /\ HeaderCount(t) <= HeaderCount(s)
<1>1. PICK m \in Nat : Len(t) + m = Len(s) /\ \A i \in 1..Len(t) : t[i] = s[i + m]
  BY DEF Suffix
<1>2. ASSUME NEW d \in Headers(t) PROVE d \in Headers(s)
  <2>. DEFINE i == Len(t) - d
  <2>1. d \in 0..(Len(t) - 1) /\ ShortHeader(t, i)
    BY <1>2 DEF Headers
  <2>2. /\ i \in Nat /\ i \in 1..Len(t) /\ i + 1 \in 1..Len(t) /\ i + 2 \in 1..Len(t)
        /\ Len(s) - d = i + m /\ d \in 0..(Len(s) - 1) /\ (i + m) + 2 <= Len(s)
    BY <1>1, <2>1 DEF ShortHeader
  <2>. HIDE DEF i
  <2>3. t[i] = s[i + m] /\ t[i + 1] = s[(i + m) + 1] /\ t[i + 2] = s[(i + m) + 2]
    <3>1. (i + 1) + m = (i + m) + 1 /\ (i + 2) + m = (i + m) + 2
      BY <2>2
    <3>. QED BY <1>1, <2>2, <3>1
  <2>4. ShortHeader(s, i + m)
    BY <2>1, <2>2, <2>3 DEF ShortHeader
  <2>. QED BY <2>2, <2>4 DEF Headers
<1>3. Headers(t) \in SUBSET Headers(s)
  BY <1>2
<1>. QED BY <1>3, HeadersFinite, FS_Subset DEF HeaderCount

\* A header is counted no more once its first byte is dropped.
LEMMA HeaderDropped ==
    ASSUME NEW b \in Seq(Bytes), ShortHeader(b, 1)
    PROVE  HeaderCount(Consume(b, 1)) < HeaderCount(b)
<1>. DEFINE t == Consume(b, 1)
            e == Len(b) - 1
<1>1. Len(b) \in Nat /\ Len(b) >= 3 /\ e \in 0..e /\ Len(b) - e = 1
  BY DEF ShortHeader
<1>2. t \in Seq(Bytes) /\ Len(t) = e /\ Suffix(t, b)
  BY <1>1, ConsumeLen, ConsumeSuffix
<1>3. e \in Headers(b)
  BY <1>1 DEF Headers
<1>4. e \notin Headers(t)
  BY <1>1, <1>2 DEF Headers
<1>. HIDE DEF t, e
<1>5. Headers(t) \in SUBSET (Headers(b) \ {e})
  BY <1>2, <1>4, HeadersOfEnd
<1>6. /\ IsFiniteSet(Headers(b) \ {e})
      /\ Cardinality(Headers(b) \ {e}) = Cardinality(Headers(b)) - 1
  BY <1>3, HeadersFinite, FS_RemoveElement
<1>7. Cardinality(Headers(t)) <= Cardinality(Headers(b)) - 1
  BY <1>5, <1>6, FS_Subset
<1>8. HeaderCount(t) \in Nat /\ HeaderCount(b) \in Nat
  BY <1>2, HeadersFinite
<1>. QED BY <1>7, <1>8 DEF HeaderCount, t

\* A call that says TRUNCATED waits, or has dropped such a header.
LEMMA NextCallHeaders ==
    ASSUME NEW b \in Seq(Bytes)
    PROVE  LET s == NextCall(b)
               l == Consume(s.left, s.frame)
           IN  /\ l \in Seq(Bytes) /\ HeaderCount(l) <= HeaderCount(b)
               /\ s.status = "TRUNCATED" =>
                     l = s.left /\ (Calm(l) \/ HeaderCount(l) < HeaderCount(b))
<1>. DEFINE r   == Resync(b)
            len == r[2].v
            s   == NextCall(b)
            l   == Consume(s.left, s.frame)
<1>1. /\ s.left \in Seq(Bytes) /\ s.frame \in Nat /\ Suffix(s.left, b)
      /\ (s.status # "OK" => s.frame = 0)
  BY NextCallShrinks, NextCallSuffix
<1>2. l \in Seq(Bytes) /\ Suffix(l, s.left)
  <2>. HIDE DEF s
  <2>. QED BY <1>1, ConsumeLen, ConsumeSuffix
<1>3. HeaderCount(l) <= HeaderCount(b)
  <2>. HIDE DEF s, l
  <2>1. Suffix(l, b)
    BY <1>1, <1>2, SuffixTrans
  <2>. QED BY <1>2, <2>1, HeadersOfEnd
<1>4. s.status = "TRUNCATED" => l = s.left
  <2>. HIDE DEF s
  <2>. QED BY <1>1, ConsumeNone
<1>5. r \in Seq(Bytes) /\ Len(r) \in Nat /\ Suffix(r, b) /\ Resync(r) = r
  <2>1. r \in Seq(Bytes) /\ Suffix(r, b) /\ (r = <<>> \/ r[1].v = Som)
    BY ResyncLen, ResyncSuffix, ResyncHead
  <2>. HIDE DEF r
  <2>. QED BY <2>1, ResyncFixed
<1>6. ASSUME s.status = "TRUNCATED", s.left = r PROVE Calm(r)
  <2>1. \/ Len(r) < HeaderLen
        \/ ~(Len(r) < HeaderLen) /\ ~(len < MinLen \/ len > MaxLen) /\ Len(r) < len
        \/ s.left = Consume(r, 1) /\ Len(r) >= HeaderLen
    BY <1>5, <1>6, StreamAssumption DEF NextCall
  <2>2. s.left = Consume(r, 1) /\ Len(r) >= HeaderLen => s.left # r
    <3>. HIDE DEF r
    <3>1. Len(r) >= HeaderLen => Len(Consume(r, 1)) # Len(r)
      BY <1>5, ConsumeLen, StreamAssumption
    <3>. QED BY <3>1, StreamAssumption
  <2>. HIDE DEF r, s
  <2>. QED BY <1>5, <1>6, <2>1, <2>2 DEF Calm, NextCall
<1>7. ASSUME s.status = "TRUNCATED", s.left # r
      PROVE  HeaderCount(s.left) < HeaderCount(b)
  <2>1. /\ ~(Len(r) < HeaderLen) /\ ~(len < MinLen \/ len > MaxLen) /\ ~(Len(r) < len)
        /\ Decode(r, len) = "TRUNCATED" /\ s.left = Consume(r, 1)
    BY <1>7 DEF NextCall
  <2>2. r[3].v = 1 /\ len < MinLenCrc
    BY <2>1 DEF Decode
  <2>3. 1 + 2 <= Len(r) /\ r # <<>>
    BY <1>5, <2>1, StreamAssumption
  <2>4. r[1].v = Som
    BY <2>3, ResyncHead
  <2>5. ShortHeader(r, 1)
    BY <2>2, <2>3, <2>4 DEF ShortHeader
  <2>. HIDE DEF r, s
  <2>6. HeaderCount(s.left) < HeaderCount(r)
    BY <1>5, <2>1, <2>5, HeaderDropped
  <2>7. HeaderCount(r) <= HeaderCount(b)
    BY <1>5, HeadersOfEnd
  <2>8. HeaderCount(s.left) \in Nat /\ HeaderCount(r) \in Nat /\ HeaderCount(b) \in Nat
    BY <1>1, <1>5, HeadersFinite
  <2>. QED BY <2>6, <2>7, <2>8
<1>. HIDE DEF s, r, l
<1>8. s.status = "TRUNCATED" => Calm(l) \/ HeaderCount(l) < HeaderCount(b)
  BY <1>4, <1>6, <1>7
<1>. QED BY <1>2, <1>3, <1>4, <1>8 DEF s, l

-----------------------------------------------------------------------------
(* The residue of a broken frame is gone after a silence.                  *)

ClockOK ==
    /\ gap \in Nat /\ partial_age \in Nat /\ partial_age <= Interchar + 1
    /\ looked \in BOOLEAN /\ rx_partial_len \in Nat /\ burst \in Nat

\* One read empties the driver, so nothing is left in it during a tick, and
\* between two ticks rx_partial_len is what osdp_stream_pending would say.
QueueInv ==
    /\ Len(queue) <= ChunkLen
    /\ pc # "idle" => queue = <<>>
    /\ pc = "idle" => rx_partial_len = Len(Left)

\* A residue that no tick changes any more: its age follows the silence, late
\* by one unit and by one for each header dropped before.
Settling(k) == Calm(Left) /\ gap + HeaderCount(Left) <= partial_age + 1 + k

\* Whether the clock has moved since the last tick.
Behind == IF looked THEN 0 ELSE 1

\* How long the line can have been silent while the decoder holds something, if
\* there are never more than k short headers: each tick drops one of them, or
\* leaves a residue that settles until the timeout.
SilenceInv(k) ==
    /\ pc = "idle" /\ queue # <<>> => gap <= Behind
    /\ pc = "idle" /\ queue = <<>> =>
          \/ Left = <<>>
          \/ gap + HeaderCount(Left) <= k + Behind
          \/ Settling(k) /\ (partial_age < Interchar \/ (~looked /\ partial_age = Interchar))
    /\ pc \in {"drain", "decode"} =>
          \/ Left = <<>>
          \/ gap + HeaderCount(Left) <= k + 1
          \/ Settling(k) /\ rx_partial_len = Len(Left)
    /\ pc = "check" =>
          \/ Left = <<>>
          \/ gap + HeaderCount(Left) <= k
          \/ Calm(Left) /\ gap + HeaderCount(Left) <= k + 1
          \/ Settling(k) /\ rx_partial_len = Len(Left)

LEMMA LeftType ==
    ASSUME StreamTypeOK
    PROVE  /\ Left \in Seq(Bytes) /\ Len(Left) = StreamPending /\ Len(Left) \in Nat
           /\ Len(Left) <= BufferLen /\ HeaderCount(Left) \in Nat
           /\ (Left = <<>> <=> Len(Left) = 0)
<1>1. Left \in Seq(Bytes) /\ Len(Left) = StreamPending /\ Len(Left) <= Len(buffer)
  BY PendingIsRest DEF Left
<1>2. Len(Left) <= BufferLen
  BY <1>1, StreamAssumption DEF StreamTypeOK
<1>3. HeaderCount(Left) \in Nat
  BY <1>1, HeadersFinite
<1>. QED BY <1>1, <1>2, <1>3

\* What the three steps of a tick do to the undecoded bytes.
LEMMA DrainEffect ==
    ASSUME StreamTypeOK, QueueInv, Drain
    PROVE  /\ pc \in {"idle", "drain"} /\ queue' = <<>> /\ pc' \in {"drain", "decode"}
           /\ queue = <<>> => Left' = Left
           /\ queue # <<>> => pc = "idle" /\ Left' = Feed(Left, queue)
           /\ UNCHANGED <<senderVars, rx_partial_len, partial_age, looked, decoded>>
<1>. DEFINE n == IF Len(queue) < ChunkLen THEN Len(queue) ELSE ChunkLen
<1>0. queue \in Seq(Bytes) /\ Len(queue) \in Nat /\ ChunkLen \in Nat /\ Len(queue) <= ChunkLen
  BY StreamAssumption DEF StreamTypeOK, QueueInv
<1>1. n = Len(queue)
  BY <1>0
<1>2. /\ pc \in {"idle", "drain"} /\ pc' \in {"drain", "decode"}
      /\ UNCHANGED <<senderVars, rx_partial_len, partial_age, looked, decoded>>
  BY DEF Drain
<1>3. CASE queue = <<>>
  <2>1. n = 0
    BY <1>1, <1>3
  <2>2. queue' = queue /\ buffer' = buffer /\ pending_consume' = pending_consume
    BY <2>1 DEF Drain
  <2>. QED BY <1>2, <1>3, <2>2 DEF Left
<1>4. CASE queue # <<>>
  <2>1. n # 0
    BY <1>0, <1>1, <1>4
  <2>2. /\ queue' = SubSeq(queue, n + 1, Len(queue))
        /\ buffer' = Feed(Left, SubSeq(queue, 1, n)) /\ pending_consume' = 0
    BY <2>1 DEF Drain, Left
  <2>3. SubSeq(queue, 1, n) = queue /\ SubSeq(queue, n + 1, Len(queue)) = <<>>
    <3>1. SubSeq(queue, 1, Len(queue)) = queue
      BY <1>0
    <3>2. SubSeq(queue, Len(queue) + 1, Len(queue)) = <<>>
      BY <1>0
    <3>. HIDE DEF n
    <3>. QED BY <1>1, <3>1, <3>2
  <2>4. buffer' \in Seq(Bytes)
    BY <1>0, <2>2, <2>3, LeftType, FeedLen
  <2>5. Left' = buffer'
    BY <2>2, <2>4, ConsumeNone DEF Left
  <2>. QED BY <1>2, <1>4, <2>2, <2>3, <2>5 DEF QueueInv
<1>. QED BY <1>3, <1>4

LEMMA DecodeEffect ==
    ASSUME DecodeNext
    PROVE  LET s == NextCall(Left)
           IN  /\ pc = "decode" /\ Left' = Consume(s.left, s.frame)
               /\ pc' = IF s.status = "TRUNCATED" THEN "check" ELSE "decode"
               /\ decoded' = IF s.status = "OK" THEN Append(decoded, s.left[1].of) ELSE decoded
               /\ UNCHANGED <<senderVars, queue, rx_partial_len, partial_age, looked>>
BY DEF DecodeNext, Left

LEMMA CheckEffect ==
    ASSUME StreamTypeOK, CheckInterchar
    PROVE  /\ pc = "check" /\ pc' = "idle" /\ looked' = TRUE
           /\ UNCHANGED <<senderVars, queue, decoded>>
           /\ rx_partial_len' = Len(Left')
           /\ \/ /\ Left' = Left /\ rx_partial_len # Len(Left)
                 /\ partial_age' = IF Left = <<>> THEN partial_age ELSE 0
              \/ /\ Left # <<>> /\ rx_partial_len = Len(Left) /\ partial_age >= Interchar
                 /\ Left' = <<>> /\ partial_age' = partial_age
              \/ /\ Left' = Left /\ rx_partial_len = Len(Left)
                 /\ Left = <<>> \/ ~(partial_age >= Interchar)
                 /\ partial_age' = partial_age
<1>0. Len(Left) = StreamPending /\ (Left = <<>> <=> Len(Left) = 0)
  BY LeftType
<1>1. /\ pc = "check" /\ pc' = "idle" /\ looked' = TRUE
      /\ UNCHANGED <<senderVars, queue, decoded>>
  BY DEF CheckInterchar
<1>2. CASE StreamPending # rx_partial_len
  <2>1. /\ rx_partial_len' = StreamPending /\ UNCHANGED <<buffer, pending_consume>>
        /\ partial_age' = IF StreamPending = 0 THEN partial_age ELSE 0
    BY <1>2 DEF CheckInterchar
  <2>. QED BY <1>0, <1>1, <1>2, <2>1 DEF Left
<1>3. CASE StreamPending = rx_partial_len /\ StreamPending # 0 /\ partial_age >= Interchar
  <2>1. /\ buffer' = <<>> /\ pending_consume' = 0
        /\ rx_partial_len' = 0 /\ partial_age' = partial_age
    BY <1>3 DEF CheckInterchar
  <2>2. Left' = <<>>
    BY <2>1, ConsumeNone DEF Left, Consume
  <2>. QED BY <1>0, <1>1, <1>3, <2>1, <2>2
<1>4. CASE StreamPending = rx_partial_len /\ ~(StreamPending # 0 /\ partial_age >= Interchar)
  <2>1. UNCHANGED <<buffer, pending_consume, rx_partial_len, partial_age>>
    BY <1>4 DEF CheckInterchar
  <2>. QED BY <1>0, <1>1, <1>4, <2>1 DEF Left
<1>. QED BY <1>2, <1>3, <1>4

\* Outside a tick the undecoded bytes stay as they are.
LEMMA SenderEffect ==
    ASSUME \/ \E t \in Templates : BeginFrame(t)
           \/ \E lose \in BOOLEAN : SendByte(lose)
           \/ AbandonFrame
    PROVE  /\ pc = "idle" /\ pc' = "idle" /\ Left' = Left /\ burst' = burst
           /\ UNCHANGED <<rx_partial_len, partial_age, looked, decoded>>
           /\ \/ queue' = queue /\ gap' = gap
              \/ Len(queue) < burst /\ queue' = Append(queue, Head(rest)) /\ rest # <<>> /\ gap' = 0
BY DEF BeginFrame, SendByte, AbandonFrame, rxVars, Left

LEMMA ClockEffect ==
    ASSUME Clock
    PROVE  /\ pc = "idle" /\ pc' = "idle" /\ looked /\ looked' = FALSE /\ Left' = Left
           /\ gap' = IF gap >= Silence THEN gap ELSE gap + 1
           /\ partial_age' = IF partial_age > Interchar THEN partial_age ELSE partial_age + 1
           /\ UNCHANGED <<rest, sent, intact, good, burst, queue, rx_partial_len, decoded>>
BY DEF Clock, Left

LEMMA ClockStep ==
    ASSUME ClockOK, StreamTypeOK, [StreamNext]_streamVars
    PROVE  ClockOK'
<1>0. Interchar \in Nat /\ Interchar \in Int
  BY StreamAssumption
<1>1. CASE \/ \E t \in Templates : BeginFrame(t)
           \/ \E lose \in BOOLEAN : SendByte(lose)
           \/ AbandonFrame
  BY <1>0, <1>1, SenderEffect DEF ClockOK
<1>2. CASE Drain
  BY <1>0, <1>2 DEF Drain, ClockOK, senderVars
<1>3. CASE DecodeNext
  BY <1>0, <1>3, DecodeEffect DEF ClockOK, senderVars
<1>4. CASE CheckInterchar
  <2>1. Len(Left') \in Nat
    <3>1. Left' = Left \/ Left' = <<>>
      BY <1>4, CheckEffect
    <3>. QED BY <3>1, LeftType
  <2>. QED BY <1>0, <1>4, <2>1, CheckEffect DEF ClockOK, senderVars
<1>5. CASE Clock
  BY <1>0, <1>5, ClockEffect DEF ClockOK
<1>6. CASE UNCHANGED streamVars
  BY <1>6 DEF streamVars, senderVars, rxVars, ClockOK
<1>. QED BY <1>1, <1>2, <1>3, <1>4, <1>5, <1>6 DEF StreamNext

LEMMA QueueStep ==
    ASSUME burst <= ChunkLen, ClockOK, StreamTypeOK, QueueInv, [StreamNext]_streamVars
    PROVE  QueueInv'
<1>0. queue \in Seq(Bytes) /\ Len(queue) \in Nat /\ ChunkLen \in Nat /\ burst \in Nat /\ Len(<<>>) = 0
  BY StreamAssumption DEF StreamTypeOK, ClockOK
<1>1. CASE \/ \E t \in Templates : BeginFrame(t)
           \/ \E lose \in BOOLEAN : SendByte(lose)
           \/ AbandonFrame
  <2>1. /\ pc = "idle" /\ pc' = "idle" /\ Left' = Left /\ rx_partial_len' = rx_partial_len
        /\ \/ queue' = queue
           \/ Len(queue) < burst /\ queue' = Append(queue, Head(rest))
    BY <1>1, SenderEffect
  <2>2. ASSUME Len(queue) < burst, queue' = Append(queue, Head(rest))
        PROVE  Len(queue') <= ChunkLen
    <3>1. Len(queue') = Len(queue) + 1
      BY <1>0, <2>2
    <3>. QED BY <1>0, <2>2, <3>1
  <2>. QED BY <2>1, <2>2 DEF QueueInv
<1>2. CASE Drain
  BY <1>0, <1>2, DrainEffect DEF QueueInv
<1>3. CASE DecodeNext
  BY <1>3, DecodeEffect DEF QueueInv
<1>4. CASE CheckInterchar
  BY <1>4, CheckEffect DEF QueueInv
<1>5. CASE Clock
  BY <1>5, ClockEffect DEF QueueInv
<1>6. CASE UNCHANGED streamVars
  BY <1>6 DEF streamVars, rxVars, QueueInv, Left
<1>. QED BY <1>1, <1>2, <1>3, <1>4, <1>5, <1>6 DEF StreamNext

LEMMA SilenceSends ==
    ASSUME NEW k \in Nat, ClockOK, StreamTypeOK, SilenceInv(k),
           \/ \E t \in Templates : BeginFrame(t)
           \/ \E lose \in BOOLEAN : SendByte(lose)
           \/ AbandonFrame
    PROVE  SilenceInv(k)'
<1>0. queue \in Seq(Bytes)
  BY DEF StreamTypeOK
<1>1. /\ pc = "idle" /\ pc' = "idle" /\ Left' = Left
      /\ UNCHANGED <<rx_partial_len, partial_age, looked>>
      /\ \/ queue' = queue /\ gap' = gap
         \/ queue' = Append(queue, Head(rest)) /\ gap' = 0
  BY SenderEffect
<1>2. CASE queue' = queue /\ gap' = gap
  <2>1. Behind' = Behind /\ Settling(k)' = Settling(k)
    BY <1>1, <1>2 DEF Behind, Settling
  <2>. QED BY <1>1, <1>2, <2>1 DEF SilenceInv
<1>3. CASE queue' = Append(queue, Head(rest)) /\ gap' = 0
  <2>1. queue' # <<>>
    BY <1>0, <1>3
  <2>2. gap' <= Behind'
    BY <1>3 DEF Behind
  <2>. QED BY <1>1, <2>1, <2>2 DEF SilenceInv
<1>. QED BY <1>1, <1>2, <1>3

LEMMA SilenceDrains ==
    ASSUME NEW k \in Nat, ClockOK, StreamTypeOK, QueueInv, SilenceInv(k), Drain,
           HeaderCount(Left') <= k
    PROVE  SilenceInv(k)'
<1>1. /\ pc \in {"idle", "drain"} /\ queue' = <<>> /\ pc' \in {"drain", "decode"}
      /\ queue = <<>> => Left' = Left
      /\ queue # <<>> => pc = "idle"
      /\ UNCHANGED <<gap, rx_partial_len, partial_age, looked>>
  BY DrainEffect DEF senderVars
<1>2. CASE queue = <<>>
  <2>1. Settling(k)' = Settling(k) /\ Left' = Left
    BY <1>1, <1>2 DEF Settling
  <2>2. /\ gap \in Nat /\ HeaderCount(Left) \in Nat
        /\ gap + HeaderCount(Left) <= k + Behind => gap + HeaderCount(Left) <= k + 1
    BY LeftType DEF ClockOK, Behind
  <2>3. \/ Left = <<>>
        \/ gap + HeaderCount(Left) <= k + 1
        \/ Settling(k) /\ rx_partial_len = Len(Left)
    BY <1>1, <1>2, <2>2 DEF SilenceInv, QueueInv
  <2>. QED BY <1>1, <2>1, <2>3 DEF SilenceInv
<1>3. CASE queue # <<>>
  <2>1. gap <= 1 /\ gap' = gap /\ gap \in Nat
    BY <1>1, <1>3 DEF SilenceInv, Behind, ClockOK
  <2>2. HeaderCount(Left') \in Nat
    <3>1. Left' = Feed(Left, queue) /\ queue \in Seq(Bytes)
      BY <1>3, DrainEffect DEF StreamTypeOK
    <3>2. Left' \in Seq(Bytes)
      BY <3>1, LeftType, FeedLen
    <3>. QED BY <3>2, HeadersFinite
  <2>3. gap' + HeaderCount(Left') <= k + 1
    BY <2>1, <2>2
  <2>. QED BY <1>1, <2>3 DEF SilenceInv
<1>. QED BY <1>2, <1>3

LEMMA SilenceDecodes ==
    ASSUME NEW k \in Nat, ClockOK, StreamTypeOK, QueueInv, SilenceInv(k), DecodeNext
    PROVE  SilenceInv(k)'
<1>. DEFINE s == NextCall(Left)
            l == Consume(s.left, s.frame)
<1>1. /\ pc = "decode" /\ Left' = l
      /\ pc' = IF s.status = "TRUNCATED" THEN "check" ELSE "decode"
      /\ UNCHANGED <<gap, rx_partial_len, partial_age, looked>>
  BY DecodeEffect DEF senderVars
<1>2. /\ Left \in Seq(Bytes) /\ HeaderCount(Left) \in Nat /\ gap \in Nat
  BY LeftType DEF ClockOK
<1>3. /\ l \in Seq(Bytes) /\ HeaderCount(l) <= HeaderCount(Left)
      /\ s.status = "TRUNCATED" =>
            l = s.left /\ (Calm(l) \/ HeaderCount(l) < HeaderCount(Left))
  BY <1>2, NextCallHeaders
<1>4. HeaderCount(l) \in Nat
  BY <1>3, HeadersFinite
<1>5. Calm(Left) => s.status = "TRUNCATED" /\ l = Left
  <2>1. Calm(Left) => s.status = "TRUNCATED" /\ s.left = Left
    BY DEF Calm
  <2>. HIDE DEF s, l
  <2>. QED BY <1>3, <2>1
<1>6. Left = <<>> => l = <<>>
  <2>1. Len(s.left) <= Len(Left) /\ s.left \in Seq(Bytes) /\ s.frame \in Nat
    BY <1>2, NextCallShrinks
  <2>. HIDE DEF s
  <2>2. Len(l) = IF s.frame >= Len(s.left) THEN 0 ELSE Len(s.left) - s.frame
    BY <2>1, ConsumeLen
  <2>. HIDE DEF l
  <2>. QED BY <1>2, <1>3, <2>1, <2>2
<1>. HIDE DEF s, l
<1>7. CASE Left = <<>>
  BY <1>1, <1>6, <1>7 DEF SilenceInv
<1>8. CASE gap + HeaderCount(Left) <= k + 1
  <2>1. gap + HeaderCount(l) <= k + 1
    BY <1>2, <1>3, <1>4, <1>8
  <2>2. HeaderCount(l) < HeaderCount(Left) => gap + HeaderCount(l) <= k
    BY <1>2, <1>4, <1>8
  <2>. QED BY <1>1, <1>3, <2>1, <2>2 DEF SilenceInv
<1>9. CASE Settling(k) /\ rx_partial_len = Len(Left)
  <2>1. pc' = "check" /\ Left' = Left
    BY <1>1, <1>5, <1>9 DEF Settling
  <2>2. Settling(k)'
    BY <1>1, <1>9, <2>1 DEF Settling
  <2>. QED BY <1>1, <1>9, <2>1, <2>2 DEF SilenceInv
<1>. QED BY <1>1, <1>7, <1>8, <1>9 DEF SilenceInv

LEMMA SilenceChecks ==
    ASSUME NEW k \in Nat, ClockOK, StreamTypeOK, QueueInv, SilenceInv(k), CheckInterchar
    PROVE  SilenceInv(k)'
<1>0. /\ gap \in Nat /\ partial_age \in Nat /\ HeaderCount(Left) \in Nat /\ Interchar \in Nat
      /\ Interchar > 0 /\ queue = <<>>
  <2>1. pc = "check"
    BY CheckEffect
  <2>. QED BY <2>1, LeftType, StreamAssumption DEF ClockOK, QueueInv
<1>1. /\ pc = "check" /\ pc' = "idle" /\ queue' = <<>> /\ looked' /\ gap' = gap
      /\ Left' = <<>> \/ Left' = Left
  BY <1>0, CheckEffect DEF senderVars
<1>2. Behind' = 0
  BY <1>1 DEF Behind
<1>3. CASE Left' = <<>>
  BY <1>1, <1>3 DEF SilenceInv
<1>4. CASE Left' = Left /\ Left # <<>>
  <2>1. CASE gap + HeaderCount(Left) <= k
    <3>1. gap' + HeaderCount(Left') <= k + Behind'
      BY <1>0, <1>1, <1>2, <1>4, <2>1
    <3>. QED BY <1>1, <3>1 DEF SilenceInv
  <2>2. CASE Calm(Left) /\ gap + HeaderCount(Left) <= k + 1
    <3>1. /\ partial_age' \in Nat /\ ~(partial_age' >= Interchar)
      BY <1>0, <1>4, CheckEffect
    <3>2. gap + HeaderCount(Left) <= partial_age' + 1 + k
      BY <1>0, <2>2, <3>1
    <3>3. Settling(k)'
      BY <1>1, <1>4, <2>2, <3>2 DEF Settling
    <3>4. partial_age' < Interchar
      BY <1>0, <3>1
    <3>. QED BY <1>1, <3>3, <3>4 DEF SilenceInv
  <2>3. CASE Settling(k) /\ rx_partial_len = Len(Left)
    <3>1. partial_age' = partial_age /\ ~(partial_age >= Interchar)
      BY <1>4, <2>3, CheckEffect
    <3>2. Settling(k)'
      BY <1>1, <1>4, <2>3, <3>1 DEF Settling
    <3>3. partial_age' < Interchar
      BY <1>0, <3>1
    <3>. QED BY <1>1, <3>2, <3>3 DEF SilenceInv
  <2>. QED BY <1>1, <1>4, <2>1, <2>2, <2>3 DEF SilenceInv
<1>. QED BY <1>1, <1>3, <1>4

LEMMA SilenceClocks ==
    ASSUME NEW k \in Nat, ClockOK, StreamTypeOK, SilenceInv(k), Clock
    PROVE  SilenceInv(k)'
<1>0. /\ gap \in Nat /\ partial_age \in Nat /\ HeaderCount(Left) \in Nat /\ Interchar \in Nat
  BY LeftType, StreamAssumption DEF ClockOK
<1>1. /\ pc = "idle" /\ pc' = "idle" /\ looked /\ ~looked' /\ Left' = Left /\ queue' = queue
      /\ gap' = IF gap >= Silence THEN gap ELSE gap + 1
      /\ partial_age' = IF partial_age > Interchar THEN partial_age ELSE partial_age + 1
  BY ClockEffect
<1>2. Behind = 0 /\ Behind' = 1
  BY <1>1 DEF Behind
<1>3. gap' \in Nat /\ gap' <= gap + 1
  BY <1>0, <1>1
<1>4. CASE queue # <<>>
  <2>1. gap' <= Behind'
    BY <1>0, <1>1, <1>2, <1>3, <1>4 DEF SilenceInv
  <2>. QED BY <1>1, <1>4, <2>1 DEF SilenceInv
<1>5. CASE queue = <<>>
  <2>1. CASE Left = <<>>
    BY <1>1, <1>5, <2>1 DEF SilenceInv
  <2>2. CASE gap + HeaderCount(Left) <= k + Behind
    <3>1. gap' + HeaderCount(Left') <= k + Behind'
      BY <1>0, <1>1, <1>2, <1>3, <2>2
    <3>. QED BY <1>1, <1>5, <3>1 DEF SilenceInv
  <2>3. CASE Settling(k) /\ partial_age < Interchar
    <3>1. partial_age' = partial_age + 1
      BY <1>0, <1>1, <2>3
    <3>2. gap' + HeaderCount(Left) <= partial_age' + 1 + k
      BY <1>0, <1>3, <2>3, <3>1 DEF Settling
    <3>3. Settling(k)'
      BY <1>1, <2>3, <3>2 DEF Settling
    <3>4. partial_age' < Interchar \/ partial_age' = Interchar
      BY <1>0, <2>3, <3>1
    <3>. QED BY <1>1, <1>5, <3>3, <3>4 DEF SilenceInv
  <2>. QED BY <1>1, <1>5, <2>1, <2>2, <2>3 DEF SilenceInv
<1>. QED BY <1>4, <1>5

LEMMA SilenceStep ==
    ASSUME NEW k \in Nat, ClockOK, StreamTypeOK, QueueInv, SilenceInv(k),
           HeaderCount(Left') <= k, [StreamNext]_streamVars
    PROVE  SilenceInv(k)'
<1>1. CASE UNCHANGED streamVars
  <2>1. /\ UNCHANGED <<pc, queue, gap, looked, partial_age, rx_partial_len>> /\ Left' = Left
    BY <1>1 DEF streamVars, senderVars, rxVars, Left
  <2>. QED BY <2>1 DEF SilenceInv, Settling, Behind
<1>. QED BY <1>1, SilenceSends, SilenceDrains, SilenceDecodes, SilenceChecks, SilenceClocks
         DEF StreamNext

\* A sender that has waited so long finds the decoder empty.
LEMMA SilenceEmpties ==
    ASSUME NEW k \in Nat, Silence > Interchar + k + 1,
           ClockOK, StreamTypeOK, SilenceInv(k), pc = "idle", gap >= Silence
    PROVE  Left = <<>> /\ queue = <<>>
<1>0. /\ gap \in Nat /\ partial_age \in Nat /\ HeaderCount(Left) \in Nat
      /\ Interchar \in Nat /\ Interchar > 0 /\ Silence \in Nat
  BY LeftType, StreamAssumption DEF ClockOK
<1>1. Behind <= 1 /\ Behind \in Nat
  BY DEF Behind
<1>2. queue = <<>>
  BY <1>0, <1>1 DEF SilenceInv
<1>3. ~(gap + HeaderCount(Left) <= k + Behind)
  BY <1>0, <1>1
<1>4. Settling(k) => ~(partial_age <= Interchar)
  BY <1>0 DEF Settling
<1>5. partial_age < Interchar \/ partial_age = Interchar => partial_age <= Interchar
  BY <1>0
<1>. QED BY <1>2, <1>3, <1>4, <1>5 DEF SilenceInv

-----------------------------------------------------------------------------
(* A whole transmission on its way through the decoder.                    *)

\* What has arrived and was not decoded.
Undecoded == Left \o queue

\* All of the transmission under way has arrived so far, and nothing else.
Incoming(t) ==
    /\ Len(Undecoded) + Len(rest) = Len(t)
    /\ \A i \in 1..Len(Undecoded) : Undecoded[i] = Byte(sent, t, i)
    /\ \A i \in 1..Len(rest) : rest[i] = Byte(sent, t, Len(Undecoded) + i)

\* The inter-character timeout is not due before the sender has paused as long.
Young == (Left # <<>> /\ queue = <<>> /\ rx_partial_len = Len(Left)) => partial_age <= gap

Paused == gap >= Interchar /\ Head(rest).at > 1

Arriving ==
    (intact /\ rest # <<>>) => Paused \/ (Young /\ \E t \in Templates : Incoming(t))

\* Transmission n is complete, and the tick that reads its last byte decodes it.
Decoded(n) == \E i \in 1..Len(decoded) : decoded[i] = n
Complete(n, t) ==
    /\ Len(t) <= Len(Undecoded)
    /\ \A i \in 1..Len(t) : Undecoded[i] = Byte(n, t, i)
    /\ pc = "idle" => Len(Left) < Len(t)

Arrived ==
    \A n \in good : Decoded(n) \/ (pc # "check" /\ \E t \in Templates : Complete(n, t))

LEMMA ByteFields ==
    ASSUME NEW n, NEW t, NEW k
    PROVE  /\ Byte(n, t, k).v = t[k] /\ Byte(n, t, k).of = n /\ Byte(n, t, k).at = k
           /\ Byte(n, t, k).last <=> k = Len(t)
<1>1. Byte(n, t, k).v = t[k] /\ Byte(n, t, k).of = n /\ Byte(n, t, k).at = k
  BY DEF Byte
<1>2. Byte(n, t, k).last <=> k = Len(t)
  BY DEF Byte
<1>. QED BY <1>1, <1>2

LEMMA TemplateSizes ==
    ASSUME WellFormed, NEW t \in Templates
    PROVE  /\ t \in Seq(Nat) /\ Len(t) \in Nat /\ Len(t) >= 3 /\ HeaderLen < Len(t)
           /\ Len(t) + ChunkLen <= BufferLen + 1 /\ Len(t) <= BufferLen
           /\ ChunkLen \in Nat /\ BufferLen \in Nat
<1>1. /\ t \in Seq(Nat) /\ MinLen <= Len(t) /\ Len(t) + ChunkLen <= BufferLen + 1
      /\ HeaderLen \in Nat /\ 3 <= HeaderLen /\ HeaderLen < MinLen /\ MinLen \in Nat
      /\ ChunkLen \in Nat \ {0} /\ BufferLen \in Nat
  BY StreamAssumption DEF WellFormed
<1>. QED BY <1>1

\* osdp_stream_next waits for the rest of a well-formed frame, and reports the
\* frame once it is complete, whatever follows it.
LEMMA FrameCall ==
    ASSUME WellFormed, NEW t \in Templates, NEW n, NEW b \in Seq(Bytes),
           \A i \in 1..Len(b) : i <= Len(t) => b[i] = Byte(n, t, i)
    PROVE  /\ Len(b) < Len(t) => Calm(b)
           /\ Len(t) <= Len(b) =>
                 /\ NextCall(b) = [status |-> "OK", left |-> b, frame |-> Len(t)]
                 /\ b[1].of = n
<1>1. /\ Len(b) \in Nat /\ Len(t) \in Nat /\ Len(t) >= 3 /\ HeaderLen < Len(t)
      /\ HeaderLen \in Nat /\ 3 <= HeaderLen /\ MinLen \in Nat /\ MinLenCrc \in Nat /\ MaxLen \in Nat
  BY TemplateSizes, StreamAssumption
<1>2. /\ t[1] = Som /\ t[2] = Len(t) /\ MinLen <= Len(t) /\ Len(t) <= MaxLen
      /\ t[3] = 1 => MinLenCrc <= Len(t)
  BY DEF WellFormed
<1>3. \A i \in 1..Len(b) : i <= Len(t) =>
         /\ b[i].v = t[i] /\ b[i].of = n /\ b[i].at = i
         /\ i = Len(t) => b[i].last
  BY ByteFields
<1>4. b = <<>> \/ b[1].v = Som
  BY <1>1, <1>2, <1>3
<1>5. Resync(b) = b
  BY <1>4, ResyncFixed
<1>6. ASSUME ~(Len(b) < HeaderLen) PROVE b[2].v = Len(t) /\ b[3].v = t[3]
  BY <1>1, <1>2, <1>3, <1>6
<1>7. ASSUME Len(b) < Len(t) PROVE Calm(b)
  <2>1. CASE Len(b) < HeaderLen
    BY <1>5, <2>1 DEF Calm, NextCall
  <2>2. CASE ~(Len(b) < HeaderLen)
    <3>1. ~(Len(t) < MinLen \/ Len(t) > MaxLen)
      BY <1>1, <1>2
    <3>. QED BY <1>5, <1>6, <1>7, <2>2, <3>1 DEF Calm, NextCall
  <2>. QED BY <2>1, <2>2
<1>8. ASSUME Len(t) <= Len(b)
      PROVE  NextCall(b) = [status |-> "OK", left |-> b, frame |-> Len(t)] /\ b[1].of = n
  <2>1. /\ ~(Len(b) < HeaderLen) /\ ~(Len(t) < MinLen \/ Len(t) > MaxLen)
        /\ ~(Len(b) < Len(t)) /\ 1 \in 1..Len(b) /\ 1 <= Len(t)
        /\ \A i \in 1..Len(t) : i \in 1..Len(b) /\ i <= Len(t)
        /\ Len(t) \in 1..Len(t)
    BY <1>1, <1>2, <1>8
  <2>2. b[1].of = n /\ b[2].v = Len(t) /\ b[3].v = t[3]
    BY <1>3, <1>6, <2>1
  <2>3. ~(b[3].v = 1 /\ Len(t) < MinLenCrc)
    BY <1>1, <1>2, <2>2
  <2>4. /\ \A i \in 1..Len(t) : b[i].of = b[1].of /\ b[i].at = i
        /\ b[Len(t)].last
    BY <1>3, <2>1, <2>2
  <2>5. Decode(b, Len(t)) = "OK"
    BY <2>3, <2>4 DEF Decode
  <2>. QED BY <1>5, <2>1, <2>2, <2>5 DEF NextCall
<1>. QED BY <1>7, <1>8

LEMMA UndecodedBytes ==
    ASSUME StreamTypeOK
    PROVE  /\ Undecoded \in Seq(Bytes) /\ Len(Undecoded) = Len(Left) + Len(queue)
           /\ Len(Undecoded) \in Nat /\ Len(queue) \in Nat /\ Len(Left) \in Nat
           /\ queue = <<>> => Undecoded = Left
<1>1. Left \in Seq(Bytes) /\ queue \in Seq(Bytes)
  BY LeftType DEF StreamTypeOK
<1>2. Undecoded \in Seq(Bytes) /\ Len(Undecoded) = Len(Left) + Len(queue)
  BY <1>1 DEF Undecoded
<1>3. queue = <<>> => Undecoded = Left
  BY <1>1 DEF Undecoded
<1>. QED BY <1>1, <1>2, <1>3

\* A byte reaches the driver.
LEMMA UndecodedGrows ==
    ASSUME StreamTypeOK, NEW h \in Bytes, queue' = Append(queue, h), Left' = Left
    PROVE  /\ Len(Undecoded') = Len(Undecoded) + 1
           /\ \A i \in 1..Len(Undecoded) : Undecoded'[i] = Undecoded[i]
           /\ Undecoded'[Len(Undecoded) + 1] = h
<1>1. Left \in Seq(Bytes) /\ queue \in Seq(Bytes) /\ Len(Left) \in Nat /\ Len(queue) \in Nat
  BY LeftType DEF StreamTypeOK
<1>. DEFINE u == Left \o queue
            w == Left \o Append(queue, h)
<1>2. u \in Seq(Bytes) /\ Len(u) = Len(Left) + Len(queue)
  BY <1>1
<1>3. Append(queue, h) \in Seq(Bytes) /\ Len(Append(queue, h)) = Len(queue) + 1
  BY <1>1
<1>4. w \in Seq(Bytes) /\ Len(w) = Len(u) + 1
  BY <1>1, <1>2, <1>3
<1>5. w[Len(u) + 1] = h
  BY <1>1, <1>2, <1>3
<1>6. ASSUME NEW i \in 1..Len(u) PROVE w[i] = u[i]
  <2>1. CASE i <= Len(Left)
    BY <1>1, <1>2, <1>3, <2>1
  <2>2. CASE i > Len(Left)
    <3>1. i - Len(Left) \in 1..Len(queue)
      BY <1>1, <1>2, <2>2
    <3>2. w[i] = Append(queue, h)[i - Len(Left)] /\ u[i] = queue[i - Len(Left)]
      BY <1>1, <1>2, <1>3, <2>2, <3>1
    <3>. QED BY <1>1, <3>1, <3>2
  <2>. QED BY <1>1, <2>1, <2>2
<1>7. Undecoded = u /\ Undecoded' = w
  BY DEF Undecoded
<1>. HIDE DEF u, w
<1>. QED BY <1>4, <1>5, <1>6, <1>7

\* What fits the buffer stays undecoded as it moves there.
LEMMA UndecodedMoves ==
    ASSUME StreamTypeOK, QueueInv, Drain, queue = <<>> \/ Len(Undecoded) <= BufferLen
    PROVE  Undecoded' = Undecoded /\ Left' = Undecoded
<1>1. Left \in Seq(Bytes) /\ queue \in Seq(Bytes) /\ Undecoded \in Seq(Bytes)
  BY LeftType, UndecodedBytes DEF StreamTypeOK
<1>2. queue' = <<>>
  BY DrainEffect
<1>3. Left' = Undecoded
  <2>1. CASE queue = <<>>
    BY <2>1, DrainEffect, UndecodedBytes
  <2>2. CASE queue # <<>>
    <3>1. Left' = Feed(Left, queue) /\ Len(Undecoded) <= BufferLen
      BY <2>2, DrainEffect
    <3>2. ~(Len(Undecoded) > BufferLen)
      BY <3>1, UndecodedBytes, StreamAssumption
    <3>. QED BY <3>1, <3>2 DEF Feed, Undecoded
  <2>. QED BY <2>1, <2>2
<1>4. Undecoded' = Undecoded \o <<>>
  BY <1>2, <1>3 DEF Undecoded
<1>. QED BY <1>1, <1>3, <1>4

\* The undecoded bytes and the tick are as they were.
LEMMA ArrivedKept ==
    ASSUME Arrived, Undecoded' = Undecoded, Left' = Left,
           UNCHANGED <<good, decoded, pc>>
    PROVE  Arrived'
<1>1. \A n, t : Complete(n, t) => Complete(n, t)'
  BY DEF Complete
<1>2. \A n : Decoded(n) => Decoded(n)'
  BY DEF Decoded
<1>. QED BY <1>1, <1>2 DEF Arrived

LEMMA BeginArrives ==
    ASSUME NEW k \in Nat, Silence > Interchar + k + 1, ClockOK, StreamTypeOK, SilenceInv(k),
           Arriving, Arrived, NEW t \in Templates, BeginFrame(t)
    PROVE  Arriving' /\ Arrived'
<1>1. /\ pc = "idle" /\ Left' = Left /\ queue' = queue /\ gap' = gap /\ sent' = sent + 1
      /\ UNCHANGED <<good, decoded, pc>>
      /\ rest' = [i \in 1..Len(t) |-> Byte(sent + 1, t, i)]
      /\ intact' = (gap >= Silence)
  BY DEF BeginFrame, rxVars, Left
<1>2. Undecoded' = Undecoded
  BY <1>1 DEF Undecoded
<1>3. Arrived'
  BY <1>1, <1>2, ArrivedKept
<1>4. ASSUME intact' PROVE Young' /\ Incoming(t)'
  <2>1. Left = <<>> /\ queue = <<>>
    BY <1>1, <1>4, SilenceEmpties
  <2>2. Undecoded' = <<>> /\ Len(<<>>) = 0
    BY <1>2, <2>1, UndecodedBytes
  <2>3. Len(t) \in Nat
    BY StreamAssumption
  <2>4. Len(rest') = Len(t)
    BY <1>1, <2>3
  <2>5. \A i \in 1..Len(t) : rest'[i] = Byte(sent', t, 0 + i)
    BY <1>1, <2>3
  <2>6. Incoming(t)'
    BY <2>2, <2>3, <2>4, <2>5 DEF Incoming
  <2>. QED BY <1>1, <2>1, <2>6 DEF Young
<1>5. Arriving'
  BY <1>4 DEF Arriving
<1>. QED BY <1>3, <1>5

LEMMA SendArrives ==
    ASSUME ClockOK, StreamTypeOK, Arriving, Arrived, NEW lose \in BOOLEAN, SendByte(lose)
    PROVE  Arriving' /\ Arrived'
<1>. DEFINE h     == Head(rest)
            whole == intact /\ ~lose /\ (h.at = 1 \/ gap < Interchar)
<1>1. /\ pc = "idle" /\ rest # <<>> /\ Left' = Left /\ rest' = Tail(rest) /\ sent' = sent
      /\ UNCHANGED <<decoded, pc>>
      /\ queue' = IF lose THEN queue ELSE Append(queue, h)
      /\ intact' = whole
      /\ good' = IF whole /\ h.last THEN good \cup {sent} ELSE good
  BY DEF SendByte, rxVars, Left
<1>2. /\ rest \in Seq(Bytes) /\ Len(rest) \in Nat /\ Len(rest) >= 1 /\ h = rest[1] /\ h \in Bytes
      /\ Len(rest') = Len(rest) - 1 /\ \A i \in 1..Len(rest') : rest'[i] = rest[i + 1]
      /\ queue \in Seq(Bytes)
  <2>1. rest \in Seq(Bytes) /\ queue \in Seq(Bytes)
    BY DEF StreamTypeOK
  <2>. QED BY <1>1, <2>1
<1>3. CASE lose
  <2>1. ~intact' /\ good' = good /\ queue' = queue
    BY <1>1, <1>3
  <2>2. Undecoded' = Undecoded
    BY <1>1, <2>1 DEF Undecoded
  <2>3. Arrived'
    BY <1>1, <2>1, <2>2, ArrivedKept
  <2>. QED BY <2>1, <2>3 DEF Arriving
<1>4. CASE ~lose
  <2>1. queue' = Append(queue, h) /\ queue' # <<>>
    BY <1>1, <1>2, <1>4
  <2>2. /\ Len(Undecoded') = Len(Undecoded) + 1 /\ Len(Undecoded) \in Nat
        /\ \A i \in 1..Len(Undecoded) : Undecoded'[i] = Undecoded[i]
        /\ Undecoded'[Len(Undecoded) + 1] = h
        /\ Len(Left) <= Len(Undecoded) /\ Len(Left) \in Nat
    <3>. HIDE DEF h
    <3>. QED BY <1>1, <1>2, <2>1, UndecodedGrows, UndecodedBytes
  <2>3. \A n, t : Len(t) \in Nat /\ Complete(n, t) => Complete(n, t)'
    <3>1. SUFFICES ASSUME NEW n, NEW t, Len(t) \in Nat, Complete(n, t) PROVE Complete(n, t)'
      OBVIOUS
    <3>2. Len(t) <= Len(Undecoded') /\ \A i \in 1..Len(t) : i \in 1..Len(Undecoded)
      BY <2>2, <3>1 DEF Complete
    <3>3. \A i \in 1..Len(t) : Undecoded'[i] = Byte(n, t, i)
      BY <2>2, <3>1, <3>2 DEF Complete
    <3>. QED BY <1>1, <3>1, <3>2, <3>3 DEF Complete
  <2>4. \A t \in Templates : Len(t) \in Nat
    BY StreamAssumption
  <2>5. ASSUME NEW n \in good PROVE Decoded(n)' \/ (pc' # "check" /\ \E t \in Templates : Complete(n, t)')
    BY <1>1, <2>3, <2>4 DEF Arrived, Decoded
  <2>6. CASE ~whole
    <3>1. good' = good /\ ~intact'
      BY <1>1, <2>6
    <3>. QED BY <2>5, <3>1 DEF Arrived, Arriving
  <2>7. CASE whole
    <3>1. ~Paused
      <4>1. h \in Bytes /\ h.at \in Nat /\ gap \in Nat /\ Interchar \in Nat
        BY <1>2, StreamAssumption DEF Bytes, ClockOK
      <4>. QED BY <2>7, <4>1 DEF Paused
    <3>2. PICK t \in Templates : Incoming(t)
      BY <1>1, <2>7, <3>1 DEF Arriving
    <3>3. /\ Len(Undecoded) + Len(rest) = Len(t) /\ Len(t) \in Nat
          /\ \A i \in 1..Len(Undecoded) : Undecoded[i] = Byte(sent, t, i)
          /\ \A i \in 1..Len(rest) : rest[i] = Byte(sent, t, Len(Undecoded) + i)
      BY <2>4, <3>2 DEF Incoming
    <3>4. h = Byte(sent, t, Len(Undecoded) + 1)
      BY <1>2, <3>3
    <3>5. \A i \in 1..Len(Undecoded') : Undecoded'[i] = Byte(sent, t, i)
      <4>1. ASSUME NEW i \in 1..Len(Undecoded') PROVE Undecoded'[i] = Byte(sent, t, i)
        <5>1. i \in 1..Len(Undecoded) \/ i = Len(Undecoded) + 1
          BY <2>2
        <5>. QED BY <2>2, <3>3, <3>4, <5>1
      <4>. QED BY <4>1
    <3>6. Len(Undecoded') + Len(rest') = Len(t)
      <4>1. Len(rest') = Len(rest) - 1 /\ Len(rest) \in Nat
        BY <1>2
      <4>2. Len(Undecoded') = Len(Undecoded) + 1 /\ Len(Undecoded) \in Nat
        BY <2>2
      <4>3. Len(Undecoded) + Len(rest) = Len(t)
        BY <3>3
      <4>. QED BY <4>1, <4>2, <4>3
    <3>7. \A i \in 1..Len(rest') : rest'[i] = Byte(sent, t, Len(Undecoded') + i)
      <4>1. ASSUME NEW i \in 1..Len(rest') PROVE rest'[i] = Byte(sent, t, Len(Undecoded') + i)
        <5>1. i + 1 \in 1..Len(rest) /\ Len(Undecoded) + (i + 1) = Len(Undecoded') + i
          BY <1>2, <2>2
        <5>. QED BY <1>2, <3>3, <5>1
      <4>. QED BY <4>1
    <3>8. Incoming(t)' /\ Young'
      BY <1>1, <2>1, <3>5, <3>6, <3>7 DEF Incoming, Young
    <3>9. ASSUME h.last PROVE Complete(sent, t)'
      <4>1. Len(Undecoded) + 1 = Len(t)
        BY <3>4, <3>9, ByteFields
      <4>2. Len(t) <= Len(Undecoded') /\ Len(Left') < Len(t) /\ \A i \in 1..Len(t) : i \in 1..Len(Undecoded')
        BY <1>1, <2>2, <3>3, <4>1
      <4>. QED BY <1>1, <3>5, <4>2 DEF Complete
    <3>10. Arrived'
      <4>1. \A n \in good' : n \in good \/ (h.last /\ n = sent)
        BY <1>1
      <4>. HIDE DEF h
      <4>. QED BY <1>1, <2>5, <3>9, <4>1 DEF Arrived
    <3>. QED BY <3>8, <3>10 DEF Arriving
  <2>. QED BY <2>6, <2>7
<1>. QED BY <1>3, <1>4

LEMMA DrainArrives ==
    ASSUME WellFormed, ClockOK, StreamTypeOK, QueueInv, Arriving, Arrived, Drain
    PROVE  Arriving' /\ Arrived'
<1>1. /\ pc \in {"idle", "drain"} /\ queue' = <<>> /\ pc' \in {"drain", "decode"}
      /\ queue # <<>> => pc = "idle"
      /\ UNCHANGED <<rest, sent, gap, intact, good, rx_partial_len, partial_age, decoded>>
  BY DrainEffect DEF senderVars
<1>2. /\ Len(Undecoded) = Len(Left) + Len(queue) /\ Len(Undecoded) \in Nat
      /\ Len(Left) \in Nat /\ Len(queue) \in Nat /\ (queue # <<>> => Len(queue) # 0)
      /\ Len(queue) <= ChunkLen /\ (pc = "idle" => rx_partial_len = Len(Left))
      /\ rest \in Seq(Bytes) /\ Len(rest) \in Nat
  BY UndecodedBytes DEF StreamTypeOK, QueueInv
<1>3. \A t \in Templates : /\ Len(t) \in Nat /\ Len(t) <= BufferLen
                           /\ Len(t) + ChunkLen <= BufferLen + 1
                           /\ ChunkLen \in Nat /\ BufferLen \in Nat
  BY TemplateSizes
<1>4. ASSUME intact, rest # <<>>, ~Paused PROVE Arriving'
  <2>1. PICK t \in Templates : Incoming(t)
    BY <1>4 DEF Arriving
  <2>2. Len(Undecoded) <= BufferLen
    BY <1>2, <1>3, <2>1 DEF Incoming
  <2>3. Undecoded' = Undecoded /\ Left' = Undecoded
    BY <2>2, UndecodedMoves
  <2>4. Incoming(t)'
    BY <1>1, <2>1, <2>3 DEF Incoming
  <2>5. Young'
    <3>1. CASE queue = <<>>
      <4>1. Left' = Left
        BY <2>3, <3>1, UndecodedBytes
      <4>. QED BY <1>1, <1>4, <3>1, <4>1 DEF Arriving, Young
    <3>2. CASE queue # <<>>
      <4>1. rx_partial_len' # Len(Left')
        BY <1>1, <1>2, <2>3, <3>2
      <4>. QED BY <4>1 DEF Young
    <3>. QED BY <3>1, <3>2
  <2>. QED BY <2>1, <2>4, <2>5 DEF Arriving
<1>5. Arriving'
  <2>1. Paused => Paused'
    BY <1>1 DEF Paused
  <2>. QED BY <1>1, <1>4, <2>1 DEF Arriving
<1>6. ASSUME NEW n \in good, NEW t \in Templates, Complete(n, t) PROVE Complete(n, t)'
  <2>1. queue = <<>> \/ Len(Undecoded) <= BufferLen
    BY <1>1, <1>2, <1>3, <1>6 DEF Complete
  <2>2. Undecoded' = Undecoded
    BY <2>1, UndecodedMoves
  <2>. QED BY <1>1, <1>6, <2>2 DEF Complete
<1>7. Arrived'
  BY <1>1, <1>6 DEF Arrived, Decoded
<1>. QED BY <1>5, <1>7

LEMMA DecodeArrives ==
    ASSUME WellFormed, ClockOK, StreamTypeOK, decoded \in Seq(Nat), QueueInv,
           Arriving, Arrived, DecodeNext
    PROVE  Arriving' /\ Arrived'
<1>. DEFINE s == NextCall(Left)
<1>1. /\ pc = "decode" /\ Left' = Consume(s.left, s.frame) /\ pc' \in {"check", "decode"}
      /\ decoded' = IF s.status = "OK" THEN Append(decoded, s.left[1].of) ELSE decoded
      /\ UNCHANGED <<rest, sent, gap, intact, good, rx_partial_len, partial_age, queue>>
  BY DecodeEffect DEF senderVars
<1>2. /\ queue = <<>> /\ Undecoded = Left /\ Left \in Seq(Bytes) /\ Len(Left) \in Nat
      /\ rest \in Seq(Bytes) /\ Len(rest) \in Nat /\ (rest # <<>> => Len(rest) # 0)
  BY <1>1, LeftType, UndecodedBytes DEF QueueInv, StreamTypeOK
<1>3. ASSUME intact, rest # <<>>, ~Paused PROVE Arriving'
  <2>1. PICK t \in Templates : Incoming(t)
    BY <1>3 DEF Arriving
  <2>2. Len(Left) < Len(t) /\ \A i \in 1..Len(Left) : Left[i] = Byte(sent, t, i)
    BY <1>2, <1>3, <2>1, TemplateSizes DEF Incoming
  <2>3. Calm(Left)
    BY <1>2, <2>2, FrameCall
  <2>4. s.left = Left /\ s.frame = 0
    BY <2>3 DEF Calm
  <2>. HIDE DEF s
  <2>5. Left' = Left
    BY <1>1, <1>2, <2>4, ConsumeNone
  <2>6. Undecoded' = Undecoded
    BY <1>1, <2>5 DEF Undecoded
  <2>7. Incoming(t)' /\ Young'
    BY <1>1, <1>3, <2>1, <2>5, <2>6 DEF Incoming, Young, Arriving
  <2>. QED BY <2>1, <2>7 DEF Arriving
<1>4. Arriving'
  <2>1. Paused => Paused'
    BY <1>1 DEF Paused
  <2>. QED BY <1>1, <1>3, <2>1 DEF Arriving
<1>5. ASSUME NEW n, Decoded(n) PROVE Decoded(n)'
  <2>1. PICK i \in 1..Len(decoded) : decoded[i] = n
    BY <1>5 DEF Decoded
  <2>2. CASE decoded' = decoded
    BY <2>1, <2>2 DEF Decoded
  <2>3. CASE decoded' = Append(decoded, s.left[1].of)
    <3>. HIDE DEF s
    <3>1. i \in 1..Len(decoded') /\ decoded'[i] = decoded[i]
      BY <2>1, <2>3
    <3>. QED BY <2>1, <3>1 DEF Decoded
  <2>. QED BY <1>1, <2>2, <2>3
<1>6. ASSUME NEW n \in good, NEW t \in Templates, Complete(n, t) PROVE Decoded(n)'
  <2>1. Len(t) <= Len(Left) /\ Len(t) \in Nat /\ \A i \in 1..Len(t) : Left[i] = Byte(n, t, i)
    BY <1>2, <1>6, TemplateSizes DEF Complete
  <2>2. \A i \in 1..Len(Left) : i <= Len(t) => Left[i] = Byte(n, t, i)
    BY <1>2, <2>1
  <2>3. s = [status |-> "OK", left |-> Left, frame |-> Len(t)] /\ Left[1].of = n
    BY <1>2, <2>1, <2>2, FrameCall
  <2>4. decoded' = Append(decoded, n)
    BY <1>1, <2>3
  <2>5. Len(decoded) + 1 \in 1..Len(decoded') /\ decoded'[Len(decoded) + 1] = n
    BY <2>4
  <2>. QED BY <2>5 DEF Decoded
<1>7. Arrived'
  BY <1>1, <1>5, <1>6 DEF Arrived
<1>. QED BY <1>4, <1>7

LEMMA CheckArrives ==
    ASSUME ClockOK, StreamTypeOK, QueueInv, Arriving, Arrived, CheckInterchar
    PROVE  Arriving' /\ Arrived'
<1>1. /\ pc = "check" /\ pc' = "idle"
      /\ UNCHANGED <<rest, sent, gap, intact, good, queue, decoded>>
  BY CheckEffect DEF senderVars
<1>2. /\ queue = <<>> /\ Undecoded = Left /\ Len(Left) \in Nat /\ (Left # <<>> => Len(Left) # 0)
      /\ rest \in Seq(Bytes) /\ Len(rest) \in Nat /\ (rest # <<>> => Len(rest) # 0)
      /\ gap \in Nat /\ partial_age \in Nat /\ Interchar \in Nat
  BY <1>1, LeftType, UndecodedBytes, StreamAssumption DEF QueueInv, StreamTypeOK, ClockOK
<1>3. Arrived'
  BY <1>1 DEF Arrived, Decoded
<1>4. ASSUME intact, rest # <<>>, ~Paused PROVE Arriving'
  <2>1. PICK t \in Templates : Incoming(t)
    BY <1>4 DEF Arriving
  <2>2. Young
    BY <1>4 DEF Arriving
  <2>3. CASE Left' = Left
    <3>1. Incoming(t)'
      BY <1>1, <2>1, <2>3 DEF Incoming, Undecoded
    <3>2. Left # <<>> => partial_age' = 0 \/ (partial_age' = partial_age /\ rx_partial_len = Len(Left))
      BY <2>3, CheckEffect
    <3>3. Young'
      BY <1>1, <1>2, <2>2, <2>3, <3>2 DEF Young
    <3>. QED BY <2>1, <3>1, <3>3 DEF Arriving
  <2>4. CASE Left' # Left
    <3>1. Left # <<>> /\ rx_partial_len = Len(Left) /\ partial_age >= Interchar
      BY <2>4, CheckEffect
    <3>2. gap >= Interchar
      BY <1>2, <2>2, <3>1 DEF Young
    <3>3. Head(rest) = Byte(sent, t, Len(Left) + 1)
      <4>1. Head(rest) = rest[1] /\ 1 \in 1..Len(rest)
        BY <1>2, <1>4
      <4>. QED BY <1>2, <2>1, <4>1 DEF Incoming
    <3>4. Head(rest).at > 1
      BY <1>2, <3>1, <3>3, ByteFields
    <3>. QED BY <1>1, <3>2, <3>4 DEF Arriving, Paused
  <2>. QED BY <2>3, <2>4
<1>5. Arriving'
  <2>1. Paused => Paused'
    BY <1>1 DEF Paused
  <2>. QED BY <1>1, <1>4, <2>1 DEF Arriving
<1>. QED BY <1>3, <1>5

LEMMA ClockArrives ==
    ASSUME ClockOK, Arriving, Arrived, Clock
    PROVE  Arriving' /\ Arrived'
<1>1. /\ Left' = Left
      /\ gap' = IF gap >= Silence THEN gap ELSE gap + 1
      /\ partial_age' = IF partial_age > Interchar THEN partial_age ELSE partial_age + 1
      /\ UNCHANGED <<rest, sent, intact, good, queue, rx_partial_len, decoded, pc>>
  BY ClockEffect
<1>2. /\ gap \in Nat /\ partial_age \in Nat /\ partial_age <= Interchar + 1
      /\ Interchar \in Nat /\ Silence \in Nat /\ Silence > Interchar
  BY StreamAssumption DEF ClockOK
<1>3. Undecoded' = Undecoded
  BY <1>1 DEF Undecoded
<1>4. Arrived'
  BY <1>1, <1>3, ArrivedKept
<1>5. Paused => Paused'
  BY <1>1, <1>2 DEF Paused
<1>6. partial_age <= gap => partial_age' <= gap'
  BY <1>1, <1>2
<1>7. Young => Young'
  BY <1>1, <1>6 DEF Young
<1>8. \A t : Incoming(t) => Incoming(t)'
  BY <1>1, <1>3 DEF Incoming
<1>. QED BY <1>1, <1>4, <1>5, <1>7, <1>8 DEF Arriving

-----------------------------------------------------------------------------
\* What the theorem needs: after a silence the decoder is empty, and a whole
\* transmission is all it holds until it has handed it on.
CleanInv(k) ==
    /\ ClockOK
    /\ burst <= ChunkLen => QueueInv /\ SilenceInv(k) /\ Arriving /\ Arrived

LEMMA CleanInit ==
    ASSUME NEW k \in Nat, StreamInit
    PROVE  CleanInv(k)
<1>1. /\ gap = Silence /\ partial_age = 0 /\ looked = FALSE /\ rx_partial_len = 0 /\ burst \in Bursts
      /\ queue = <<>> /\ buffer = <<>> /\ pending_consume = 0 /\ pc = "idle"
      /\ rest = <<>> /\ good = {}
  BY DEF StreamInit
<1>2. Len(<<>>) = 0 /\ Left = <<>>
  BY <1>1 DEF Left, Consume
<1>3. ClockOK
  <2>1. /\ gap \in Nat /\ burst \in Nat /\ partial_age \in Nat /\ rx_partial_len \in Nat
        /\ partial_age <= Interchar + 1
    BY <1>1, StreamAssumption
  <2>2. looked \in BOOLEAN
    BY <1>1
  <2>. QED BY <2>1, <2>2 DEF ClockOK
<1>4. QueueInv
  BY <1>1, <1>2, StreamAssumption DEF QueueInv
<1>5. SilenceInv(k)
  BY <1>1, <1>2 DEF SilenceInv
<1>6. Arriving /\ Arrived
  BY <1>1 DEF Arriving, Arrived
<1>. QED BY <1>3, <1>4, <1>5, <1>6 DEF CleanInv

LEMMA CleanStep ==
    ASSUME WellFormed, NEW k \in Nat, Silence > Interchar + k + 1,
           StreamTypeOK, decoded \in Seq(Nat), CleanInv(k), HeaderCount(Left') <= k,
           [StreamNext]_streamVars
    PROVE  CleanInv(k)'
<1>1. ClockOK'
  BY ClockStep DEF CleanInv
<1>2. burst' = burst
  BY DEF StreamNext, BeginFrame, SendByte, AbandonFrame, Drain, DecodeNext, CheckInterchar, Clock,
         streamVars, senderVars
<1>3. SUFFICES ASSUME burst <= ChunkLen
               PROVE  QueueInv' /\ SilenceInv(k)' /\ Arriving' /\ Arrived'
  BY <1>1, <1>2 DEF CleanInv
<1>4. ClockOK /\ QueueInv /\ SilenceInv(k) /\ Arriving /\ Arrived
  BY <1>3 DEF CleanInv
<1>5. QueueInv'
  BY <1>3, <1>4, QueueStep
<1>6. SilenceInv(k)'
  BY <1>4, SilenceStep
<1>7. Arriving' /\ Arrived'
  <2>1. ASSUME NEW t \in Templates, BeginFrame(t) PROVE Arriving' /\ Arrived'
    BY <1>4, <2>1, BeginArrives
  <2>2. ASSUME NEW lose \in BOOLEAN, SendByte(lose) PROVE Arriving' /\ Arrived'
    BY <1>4, <2>2, SendArrives
  <2>3. CASE AbandonFrame
    <3>1. /\ rest' = <<>> /\ Left' = Left /\ queue' = queue /\ UNCHANGED <<good, decoded, pc>>
      BY <2>3 DEF AbandonFrame, rxVars, Left
    <3>2. Undecoded' = Undecoded
      BY <3>1 DEF Undecoded
    <3>. QED BY <1>4, <3>1, <3>2, ArrivedKept DEF Arriving
  <2>4. CASE Drain
    BY <1>4, <2>4, DrainArrives
  <2>5. CASE DecodeNext
    BY <1>4, <2>5, DecodeArrives
  <2>6. CASE CheckInterchar
    BY <1>4, <2>6, CheckArrives
  <2>7. CASE Clock
    BY <1>4, <2>7, ClockArrives
  <2>8. CASE UNCHANGED streamVars
    <3>1. /\ Left' = Left /\ Undecoded' = Undecoded
          /\ UNCHANGED <<rest, sent, gap, intact, good, queue, rx_partial_len, partial_age, decoded, pc>>
      BY <2>8 DEF streamVars, senderVars, rxVars, Left, Undecoded
    <3>2. Paused' = Paused /\ Young' = Young /\ \A t : Incoming(t)' = Incoming(t)
      BY <3>1 DEF Paused, Young, Incoming
    <3>. QED BY <1>4, <3>1, <3>2, ArrivedKept DEF Arriving
  <2>. QED BY <2>1, <2>2, <2>3, <2>4, <2>5, <2>6, <2>7, <2>8 DEF StreamNext
<1>. QED BY <1>5, <1>6, <1>7

LEMMA CleanDecodes ==
    ASSUME NEW k, StreamTypeOK, CleanInv(k)
    PROVE  CleanFrameDecoded
<1>1. SUFFICES ASSUME burst <= ChunkLen, pc = "idle", queue = <<>>, NEW n \in good
               PROVE  Decoded(n)
  BY DEF CleanFrameDecoded, Decoded
<1>2. Arrived /\ Undecoded = Left /\ Len(Left) \in Nat
  BY <1>1, UndecodedBytes DEF CleanInv
<1>3. ASSUME NEW t \in Templates, Complete(n, t) PROVE FALSE
  <2>1. Len(t) <= Len(Left) /\ Len(Left) < Len(t) /\ Len(t) \in Nat
    BY <1>1, <1>2, <1>3, StreamAssumption DEF Complete
  <2>. QED BY <1>2, <2>1
<1>. QED BY <1>1, <1>2, <1>3 DEF Arrived

\* The decoder never holds more than k headers that announce a CRC in a frame
\* too short for one.  It is true of k = BufferLen whatever arrives, and of k = 0
\* if no such bytes do.
FewHeaders(k) == HeaderCount(Left) <= k

\* CleanInv together with the order of the bytes.
OrderedInv(k) == OrderInv(Left, queue, rest, decoded, sent) /\ CleanInv(k)

LEMMA OrderedStep ==
    ASSUME WellFormed, NEW k \in Nat, Silence > Interchar + k + 1,
           StreamTypeOK, OrderedInv(k), FewHeaders(k)', [StreamNext]_streamVars
    PROVE  OrderedInv(k)'
<1>1. OrderInv(Left, queue, rest, decoded, sent)'
  BY OrderStep DEF OrderedInv
<1>2. decoded \in Seq(Nat) /\ HeaderCount(Left') <= k /\ CleanInv(k)
  BY DEF OrderedInv, OrderInv, Handed, FewHeaders
<1>3. CleanInv(k)'
  BY <1>2, CleanStep
<1>. QED BY <1>1, <1>3 DEF OrderedInv

\* For every buffer size, timeout and set of well-formed frames, whatever was lost
\* or broken off before: after a silence a transmission that arrives whole is
\* decoded by the end of the tick that reads its last byte.  The silence has to
\* outlast the inter-character timeout of check_interchar_timeout by one unit for
\* the tick that first sees the residue and by one for each short header in it,
\* which osdp_stream_next reports as TRUNCATED, so that the residue changes and its
\* age starts over.
THEOREM CleanFramesDecoded ==
    ASSUME WellFormed, NEW k \in Nat, Silence > Interchar + k + 1
    PROVE  StreamSpec /\ []FewHeaders(k) => []CleanFrameDecoded
<1>1. StreamInit => OrderedInv(k)
  BY CleanInit, OrderInit DEF OrderedInv
<1>2. StreamTypeOK /\ OrderedInv(k) /\ FewHeaders(k)' /\ [StreamNext]_streamVars => OrderedInv(k)'
  BY OrderedStep
<1>3. StreamTypeOK /\ OrderedInv(k) => CleanFrameDecoded
  BY CleanDecodes DEF OrderedInv
<1>. QED BY <1>1, <1>2, <1>3, StreamBounded, PTL DEF StreamSpec

\* No more headers than bytes, so of a sender that waits for a unit per byte of
\* the buffer nothing more has to be assumed.
COROLLARY PatientSenderDecoded ==
    ASSUME WellFormed, Silence > Interchar + BufferLen + 1
    PROVE  StreamSpec => []CleanFrameDecoded
<1>1. StreamTypeOK => FewHeaders(BufferLen)
  <2>. SUFFICES ASSUME StreamTypeOK PROVE FewHeaders(BufferLen)
    OBVIOUS
  <2>1. Left \in Seq(Bytes) /\ Len(Left) \in Nat /\ Len(Left) <= BufferLen
    BY LeftType
  <2>2. 0 \in Int /\ Len(Left) - 1 \in Int
    BY <2>1
  <2>3. /\ IsFiniteSet(0..(Len(Left) - 1))
        /\ Cardinality(0..(Len(Left) - 1)) =
              IF 0 > Len(Left) - 1 THEN 0 ELSE (Len(Left) - 1) - 0 + 1
    BY <2>2, FS_Interval
  <2>4. Headers(Left) \in SUBSET (0..(Len(Left) - 1))
    BY DEF Headers
  <2>5. Cardinality(Headers(Left)) <= Cardinality(0..(Len(Left) - 1))
    BY <2>3, <2>4, FS_Subset
  <2>6. HeaderCount(Left) \in Nat
    BY LeftType
  <2>. QED BY <2>1, <2>3, <2>5, <2>6, StreamAssumption DEF FewHeaders, HeaderCount
<1>2. BufferLen \in Nat
  BY StreamAssumption
<1>3. StreamInit => OrderedInv(BufferLen)
  BY <1>2, CleanInit, OrderInit DEF OrderedInv
<1>4. StreamTypeOK /\ OrderedInv(BufferLen) /\ FewHeaders(BufferLen)' /\ [StreamNext]_streamVars
         => OrderedInv(BufferLen)'
  BY <1>2, OrderedStep
<1>5. StreamTypeOK /\ OrderedInv(BufferLen) => CleanFrameDecoded
  BY CleanDecodes DEF OrderedInv
<1>. QED BY <1>1, <1>3, <1>4, <1>5, StreamBounded, PTL DEF StreamSpec
=============================================================================
