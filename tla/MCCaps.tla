------------------------------- MODULE MCCaps -------------------------------
(* Values for Caps, and the messages the codecs are checked on.            *)
EXTENDS Caps

\* One region at a time, at the sizes where an answer changes; and a call of
\* which one region is too small, so that none is bound.
Bindings ==
    {[tx |-> 8], [tx |-> 60], [tx |-> 2048], [rx_plain |-> 8], [rx_plain |-> 2048],
     [rpl_cache |-> 12], [cmd_cache |-> 8], [tx |-> 2048, rx_plain |-> 4]}

Template ==
    << <<3, 1, 0>>, <<4, 4, 1>>, <<5, 2, 1>>, <<11, 255, 255>>, <<13, 0, 1>>, <<16, 4, 0>> >>

\* Every code the application may bind, in reverse order.
Full == [i \in 1..13 |-> <<IF i <= 6 THEN 17 - i ELSE 14 - i, 0, 0>>]

Lists ==
    {<<>>, Template, Full, Append(Full, <<1, 0, 0>>),
     << <<16, 129, 0>>, <<11, 88, 2>>, <<4, 1, 9>>, <<11, 0, 0>> >>,
     << <<10, 0, 4>>, <<4, 1, 1>> >>, << <<3, 1, 1>> >>}

Commands ==
    {<<"CAP", <<0>>, 0>>, <<"POLL", <<>>, 0>>, <<"ISTAT", <<>>, 0>>, <<"LSTAT", <<>>, 0>>,
     <<"ACURXSIZE", <<64, 0>>, 0>>, <<"ACURXSIZE", <<1>>, 0>>, <<"KEEPACTIVE", <<1, 1>>, 0>>,
     <<"MFG", <<>>, 470>>, <<"MFG", <<>>, 1433>>}

-----------------------------------------------------------------------------
(* Messages at the edges of every field.  An unsigned 32-bit field is      *)
(* tried up to 2^31 - 1, the largest integer TLC has.                      *)

Edges(field) ==
    IF field.signed THEN {-32768, -1, 0, 32767}
    ELSE CASE field.bytes = 1 -> {0, 126, 127, 255}
           [] field.bytes = 2 -> {0, 255, 256, 65535}
           [] field.bytes = 4 -> {0, 65536, 2147483647}

\* A record of which every field differs, and the ones with a field at an edge.
Plain(l) == [k \in DOMAIN l.fields |-> k]
RecordsOf(l) ==
    {Plain(l)} \cup
    UNION {{[Plain(l) EXCEPT ![k] = v] : v \in Edges(l.fields[k])} : k \in DOMAIN l.fields}

\* Tails that a decoder or the padding could take for something else.
Tails == {<<>>, <<128>>, <<0>>, <<128, 0, 0>>, [i \in 1..16 |-> 128], [i \in 1..255 |-> 0],
          [i \in 1..256 |-> i % 256]}

\* The value of the last field that announces a tail of n bytes, and others.
Announced(l, n) ==
    CASE l.tail = "count" -> {n, n + 1} \cap 0..(256^l.fields[Len(l.fields)].bytes - 1)
      [] l.tail = "bits"  -> {8 * n, 8 * n + 1} \cup ({8 * n - 7} \cap Nat)
      [] OTHER -> {}

Messages(l) ==
    IF l.list
    THEN {[records |-> rs, tail |-> <<>>] :
            rs \in {<<>>} \cup {<<r>> : r \in RecordsOf(l)} \cup {<<r, Plain(l)>> : r \in RecordsOf(l)}}
    ELSE IF l.tail \in {"count", "bits"}
    THEN UNION {{[records |-> <<[Plain(l) EXCEPT ![Len(l.fields)] = v]>>, tail |-> t] :
            v \in Announced(l, Len(t))} : t \in Tails}
    ELSE {[records |-> <<r>>, tail |-> t] : r \in RecordsOf(l), t \in Tails}

\* What a builder accepts: the message's own layout.
WellFormed(l, m) ==
    /\ l.list => Len(m.records) >= l.min
    /\ ~l.list => TailOk(l, m.records[1], Len(m.tail))
    /\ l = Comset => m.records[1][1] <= 126

\* A payload one byte short or one byte long.
Cut(p) == {Append(p, 0)} \cup (IF p = <<>> THEN {} ELSE {Front(p)})

VARIABLE parcel     \* a payload handed from one end's builder to the other's decoder

LayoutOf(reply) == IF reply THEN ReplyLayout ELSE CommandLayout
CodeOf(reply)   == IF reply THEN ReplyCode ELSE CommandCode

\* One end builds a message of its own choice.
Exchange ==
    /\ parcel = Nothing /\ calls = 0 /\ commands = 0
    /\ \E reply \in BOOLEAN : \E kind \in DOMAIN LayoutOf(reply) :
          LET l == LayoutOf(reply)[kind]
          IN  \E m \in Messages(l) :
                parcel' = [reply |-> reply, code |-> CodeOf(reply)[kind], kind |-> kind,
                           message |-> m, payload |-> Build(l, m, FrameMaxLen)]
    /\ UNCHANGED vars

MCInit == CapsInit /\ parcel = Nothing
MCNext == Exchange \/ (parcel = Nothing /\ CapsNext /\ UNCHANGED parcel)
MCSpec == MCInit /\ [][MCNext]_<<vars, parcel>>

\* Whatever message an end builds, the other end classifies it by its code
\* and decodes the same message, through the padding of an encrypted frame
\* too; the builder refuses exactly the messages whose fields contradict
\* each other, or a buffer too small; and a payload with a byte too few or
\* too many is refused or is itself what the builder makes of the message
\* read from it (src/core/src/commands/, src/core/src/replies/,
\* src/core/src/sc/payload.c, src/core/src/dispatch/dispatch_classify.c).
CodecRoundTrip ==
    parcel # Nothing =>
        LET p == parcel.payload
            m == parcel.message
            l == LayoutOf(parcel.reply)[Classify(parcel.reply, parcel.code)]
        IN  /\ Classify(parcel.reply, parcel.code) = parcel.kind
            /\ (p # Refused) <=> WellFormed(l, m)
            /\ p # Refused =>
                  /\ Decode(l, p, 2) = m
                  /\ Unpad(Pad(p)) = p /\ Len(Pad(p)) = Padded(Len(p))
                  /\ Build(l, m, Len(p) - 1) = Refused
                  /\ \A q \in Cut(p) : LET n == Decode(l, q, 2)
                                       IN  n # Refused => Build(l, n, FrameMaxLen) = q
=============================================================================
