--------------------------- MODULE TransferProofs ---------------------------
(***************************************************************************)
(* For every set of applications and messages, every fragment length and   *)
(* every buffer: the reassembly buffers are never overrun, what is handed  *)
(* up is all of one attempt, what was sent before an osdp_ABORT is not,    *)
(* what the sender believes delivered was, and losses alone do no harm.    *)
(***************************************************************************)
EXTENDS Transfer, SequenceTheorems, TLAPS

-----------------------------------------------------------------------------
(* The inductive invariant                                                 *)

Kinds == {"file", "mfg"}
MessageType == [kind : Kinds, tag : Nat \ {0}, len : Nat \ {0}]

\* c is a fragment of attempt n, which sends m: it lies inside the message and
\* carries the bytes of its place.
FragOf(c, n, m) ==
    /\ c.is = "frag" /\ c.kind = m.kind /\ c.tag = m.tag /\ c.total = m.len
    /\ c.offset \in Nat /\ Len(c.data) \in Nat /\ c.offset + Len(c.data) <= m.len
    /\ \A i \in 1..Len(c.data) : c.data[i] = ByteOf(n, c.offset + i)
    /\ c.offset = 0 => c.whole = "yes" /\ c.size = Len(c.data) /\ Len(c.data) > 0

\* The controller: an application is at an attempt of its own, and no other
\* application has had a later attempt at that message.
Statuses == {"idle", "begun", "going", "failed", "unsupported", "done"}
Attempt == [id : Nat, msg : MessageType \cup {NoMsg}, off : Nat, status : Statuses]

SenderInv ==
    /\ cur \in Apps /\ msgs \in Seq(MessageType) /\ att \in [Apps -> Attempt]
    /\ cut \in [Kinds -> Nat] /\ \A k \in Kinds : cut[k] <= Len(msgs)
    /\ \A a \in Apps :
          /\ att[a].id <= Len(msgs)
          /\ att[a].id > 0 => att[a].msg = msgs[att[a].id] /\ att[a].msg \in Messages[a]
          /\ att[a].status \in {"begun", "going", "failed"} => att[a].id > 0
          /\ att[a].status = "going" => 0 < att[a].off /\ att[a].off < att[a].msg.len
    /\ \A n \in 1..Len(msgs) :
          \E a \in Apps : msgs[n] \in Messages[a] /\ n <= att[a].id

\* The line: one command and one answer at most, and the command is a fragment
\* of the attempt the application is at; a first fragment is of the last one.
FlightInv ==
    /\ ~waiting => cmd = NoCmd /\ rpl = NoRpl
    /\ cmd \in {NoCmd, out}
    /\ cmd # NoCmd => rpl = NoRpl
    /\ waiting => \/ out.is \in {"poll", "abort"}
                  \/ /\ att[cur].id > 0 /\ FragOf(out, att[cur].id, att[cur].msg)
                     /\ out.offset = 0 => /\ att[cur].id = Len(msgs)
                                          /\ \A k \in Kinds : cut[k] < Len(msgs)

\* The application has sent the first fragment of its attempt and the PD has
\* not seen it.
Beginning(a) ==
    /\ a = cur /\ waiting /\ out.is = "frag" /\ out.offset = 0
    /\ rpl = NoRpl /\ ~(have_last /\ last_cmd = out)

\* No later attempt at the same message has reached the PD.
Latest(n) ==
    \A a \in Apps : att[a].id > n /\ att[a].msg = msgs[n] => Beginning(a)

\* The first bytes of attempt n are in buf.
Holds(buf, n, len) ==
    \A i \in 1..len : i - 1 \in DOMAIN buf /\ buf[i - 1] = ByteOf(n, i)

\* The reassembler is at attempt n.
MfgAt(n) ==
    /\ msgs[n].kind = "mfg" /\ mfg.total = msgs[n].len /\ mfg_vendor = msgs[n].tag
    /\ mfg.total <= MfgCap /\ mfg.received \in 0..mfg.total
    /\ Holds(mfg.buf, n, mfg.received)
    /\ cut["mfg"] < n /\ Latest(n)

MfgInv ==
    /\ mfg = [total |-> mfg.total, received |-> mfg.received, active |-> mfg.active,
              buf |-> mfg.buf]
    /\ DOMAIN mfg.buf \subseteq 0..(MfgCap - 1)
    /\ ~mfg_bound => ~mfg.active
    /\ mfg.active => \E n \in 1..Len(msgs) : MfgAt(n)

\* The file transfer is at attempt n.
FileAt(n) ==
    /\ msgs[n].kind = "file" /\ ft.total = msgs[n].len /\ ft.type = msgs[n].tag
    /\ file_mode = "reassembly" => ft.total <= FileCap
    /\ ft.received \in 0..ft.total
    /\ Holds(file_buf, n, ft.received)
    /\ cut["file"] < n /\ Latest(n)

FileInv ==
    /\ ft = [active |-> ft.active, type |-> ft.type, total |-> ft.total,
             received |-> ft.received]
    /\ file_mode = "reassembly" => DOMAIN file_buf \subseteq 0..(FileCap - 1)
    /\ file_mode = "none" => ~ft.active
    /\ ft.active => \E n \in 1..Len(msgs) : FileAt(n)

\* An answer that makes the sender go on, to a fragment that is its last one.
Success(r) ==
    /\ r # NoRpl /\ r.is \notin {"BUSY", "NAK"}
    /\ r.is = "FTSTAT" => r.detail \in {"OK", "PROCESSED"}
Completes(c) == c.offset + Len(c.data) >= c.total /\ ~IsEarlyTermination(c)

Delivered(n) ==
    \E i \in 1..Len(delivered) :
        delivered[i].ok /\ delivered[i].data = Body(n, msgs[n].len)

\* Neither the answer on the line nor the one in the cache says that a message
\* was taken when it was not.
LineAnswer ==
    waiting /\ rpl # NoRpl /\ out.is = "frag" /\ Completes(out) /\ Success(rpl)
        => Delivered(att[cur].id)

CacheAnswer ==
    have_last /\ last_cmd.is = "frag" =>
        \E n \in 1..Len(msgs) :
            /\ FragOf(last_cmd, n, msgs[n])
            /\ Completes(last_cmd) /\ Success(last_rpl) => Delivered(n)

\* What the PD handed up.
Delivery == [kind : Kinds, tag : Nat, ok : BOOLEAN, data : Seq([of : Nat, at : Nat])]

\* What an application believes delivered was.
FinishedInv ==
    /\ finished \subseteq 1..Len(msgs) /\ FinishedIsDelivered
    /\ \A a \in Apps : att[a].status = "done" => att[a].id \in finished

TransferInv ==
    /\ SenderInv /\ FlightInv /\ MfgInv /\ FileInv /\ LineAnswer /\ CacheAnswer
    /\ delivered \in Seq(Delivery) /\ WholeMessage /\ FinishedInv

-----------------------------------------------------------------------------
(* Bytes, fragments and buffers                                            *)

\* A byte remembers its attempt.
LEMMA ByteFields ==
    ASSUME NEW n, NEW i
    PROVE  ByteOf(n, i).of = n
  BY DEF ByteOf

LEMMA BodyShape ==
    ASSUME NEW n, NEW len \in Nat
    PROVE  /\ Len(Body(n, len)) = len /\ DOMAIN Body(n, len) = 1..len
           /\ \A i \in 1..len : Body(n, len)[i] = ByteOf(n, i)
  BY DEF Body

\* f is the piece at off of the bytes of attempt n, len of them.
PieceOf(f, n, len, off) ==
    /\ f.total = len /\ f.offset = off
    /\ Len(f.data) \in Nat \ {0} /\ off + Len(f.data) <= len
    /\ \A i \in 1..Len(f.data) : f.data[i] = ByteOf(n, off + i)

\* What osdp_mp_frag_iter_next cuts at an offset inside the message.
LEMMA IterCuts ==
    ASSUME NEW n, NEW len \in Nat, NEW off \in 0..(len - 1)
    PROVE  PieceOf(IterFragment(Body(n, len), off, MaxFrag), n, len, off)
<1>. DEFINE b == Body(n, len)
            k == IF len - off < MaxFrag THEN len - off ELSE MaxFrag
            d == SubSeq(b, off + 1, off + k)
<1>1. k \in Nat \ {0} /\ off + k <= len
  BY TransferAssumption
<1>2. Len(b) = len /\ \A i \in 1..len : b[i] = ByteOf(n, i)
  BY BodyShape
<1>3. IterFragment(b, off, MaxFrag) = [total |-> len, offset |-> off, data |-> d]
  BY <1>2 DEF IterFragment
<1>. HIDE DEF b, k
<1>4. Len(d) = k /\ \A i \in 1..k : d[i] = b[off + i]
  BY <1>1
<1>5. \A i \in 1..k : d[i] = ByteOf(n, off + i)
  BY <1>1, <1>2, <1>4
<1>. HIDE DEF d
<1>. QED BY <1>1, <1>3, <1>4, <1>5 DEF b, PieceOf

\* The command as osdp_acu_send_command sends it.
Stamped(c, s) == [c EXCEPT !.sqn = s]

\* The fragment of attempt n at off, as it is sent.
Sent(m, n, off, whole, s) ==
    Stamped(Build(m, IterFragment(Body(n, m.len), off, MaxFrag), whole), s)

\* Nothing of the fragment is missing.
Intact(c) == c.whole = "yes" /\ c.size = Len(c.data) /\ Len(c.data) > 0

\* A fragment on the line is a fragment of its attempt, even when it is cut
\* short.
LEMMA BuildFrag ==
    ASSUME NEW m \in MessageType, NEW n, NEW off \in 0..(m.len - 1), NEW s,
           NEW whole \in {"yes", "data", "header"}, off = 0 => whole = "yes"
    PROVE  /\ FragOf(Sent(m, n, off, whole, s), n, m)
           /\ Sent(m, n, off, whole, s).offset = off
           /\ Sent(m, n, off, whole, s).is = "frag"
           /\ whole = "yes" => Intact(Sent(m, n, off, whole, s))
<1>. DEFINE f == IterFragment(Body(n, m.len), off, MaxFrag)
            d == f.data
            p == IF whole = "yes" THEN d ELSE SubSeq(d, 1, Len(d) - 1)
            c == Stamped(Build(m, f, whole), s)
<1>0. m.len \in Nat
  BY DEF MessageType
<1>1. /\ f.total = m.len /\ f.offset = off
      /\ Len(d) \in Nat \ {0} /\ off + Len(d) <= m.len
      /\ \A i \in 1..Len(d) : d[i] = ByteOf(n, off + i)
  <2>1. PieceOf(f, n, m.len, off)
    BY <1>0, IterCuts
  <2>. QED BY <2>1 DEF PieceOf
<1>. HIDE DEF f
<1>2. /\ c.is = "frag" /\ c.kind = m.kind /\ c.tag = m.tag /\ c.total = m.len
      /\ c.offset = off /\ c.size = Len(d) /\ c.whole = whole /\ c.data = p
  BY <1>1 DEF Stamped, Build, FragmentBuild
<1>. HIDE DEF c
<1>3. /\ Len(p) \in Nat /\ Len(p) <= Len(d) /\ (whole = "yes" => p = d)
      /\ \A i \in 1..Len(p) : p[i] = d[i]
  BY <1>1
<1>. HIDE DEF d, p
<1>4. off + Len(p) <= m.len /\ \A i \in 1..Len(p) : p[i] = ByteOf(n, off + i)
  BY <1>0, <1>1, <1>3
<1>5. FragOf(c, n, m)
  BY <1>1, <1>2, <1>3, <1>4 DEF FragOf
<1>6. c = Sent(m, n, off, whole, s)
  BY DEF c, f, Sent
<1>7. whole = "yes" => Intact(c)
  BY <1>1, <1>2, <1>3 DEF Intact
<1>. QED BY <1>2, <1>5, <1>6, <1>7

\* The termination marker lies at the end of its message.
LEMMA MarkerFrag ==
    ASSUME NEW m \in MessageType, NEW n, NEW s
    PROVE  LET c == Stamped(Build(m, FragTerminate(m.len), "yes"), s)
           IN  FragOf(c, n, m) /\ c.offset # 0
<1>. DEFINE c == Stamped(Build(m, FragTerminate(m.len), "yes"), s)
<1>1. /\ c.is = "frag" /\ c.kind = m.kind /\ c.tag = m.tag /\ c.total = m.len
      /\ c.offset = m.len /\ c.data = <<>>
  BY DEF Stamped, Build, FragmentBuild, FragTerminate
<1>. HIDE DEF c
<1>2. m.len \in Nat \ {0} /\ Len(c.data) = 0
  BY <1>1 DEF MessageType
<1>. QED BY <1>1, <1>2 DEF FragOf, c

\* memcpy into the buffer of the attempt the fragment belongs to.
LEMMA CopyHolds ==
    ASSUME NEW buf, NEW n, NEW m \in MessageType, NEW c, FragOf(c, n, m),
           NEW had \in Nat, c.offset <= had, Holds(buf, n, had),
           NEW got \in Nat, got <= had \/ got <= c.offset + Len(c.data)
    PROVE  /\ Holds(Copy(buf, c.offset, c.data), n, got)
           /\ DOMAIN Copy(buf, c.offset, c.data)
                  = DOMAIN buf \cup c.offset..(c.offset + Len(c.data) - 1)
<1>. DEFINE o == c.offset
            d == c.data
            b == Copy(buf, o, d)
            D == DOMAIN buf \cup o..(o + Len(d) - 1)
<1>1. /\ o \in Nat /\ Len(d) \in Nat
      /\ \A i \in 1..Len(d) : d[i] = ByteOf(n, o + i)
  BY DEF FragOf
<1>. HIDE DEF o, d
<1>2. /\ DOMAIN b = D
      /\ \A i \in D : b[i] = IF o <= i /\ i < o + Len(d) THEN d[i - o + 1] ELSE buf[i]
  BY DEF Copy
<1>. HIDE DEF b
<1>3. ASSUME NEW i \in 1..got PROVE i - 1 \in DOMAIN b /\ b[i - 1] = ByteOf(n, i)
  <2>1. CASE o <= i - 1 /\ i - 1 < o + Len(d)
    <3>1. i - 1 \in D /\ i - 1 - o + 1 \in 1..Len(d) /\ o + (i - 1 - o + 1) = i
      BY <1>1, <2>1
    <3>. QED BY <1>1, <1>2, <2>1, <3>1
  <2>2. CASE ~(o <= i - 1 /\ i - 1 < o + Len(d))
    <3>1. i \in 1..had
      BY <1>1, <2>2 DEF o, d
    <3>2. i - 1 \in DOMAIN buf /\ buf[i - 1] = ByteOf(n, i)
      BY <3>1 DEF Holds
    <3>. QED BY <1>2, <2>2, <3>2
  <2>. QED BY <2>1, <2>2
<1>. QED BY <1>2, <1>3 DEF Holds, b, o, d

\* What is handed up from a buffer that holds the whole attempt is the attempt.
LEMMA ContentsHeld ==
    ASSUME NEW buf, NEW n, NEW len \in Nat, Holds(buf, n, len)
    PROVE  Contents(buf, len) = Body(n, len)
  BY DEF Contents, Body, Holds

-----------------------------------------------------------------------------
(* The initial state                                                       *)

LEMMA TransferInitInv == TransferInit => TransferInv
<1>. SUFFICES ASSUME TransferInit PROVE TransferInv
  OBVIOUS
<1>. USE DEF TransferInit, Kinds
<1>1. SenderInv
  <2>1. att \in [Apps -> Attempt] /\ \A a \in Apps : att[a].id = 0 /\ att[a].status = "idle"
    BY DEF Attempt, Statuses
  <2>2. cur \in Apps /\ msgs \in Seq(MessageType) /\ Len(msgs) = 0
    OBVIOUS
  <2>3. cut \in [Kinds -> Nat] /\ \A k \in Kinds : cut[k] <= Len(msgs)
    OBVIOUS
  <2>. QED BY <2>1, <2>2, <2>3 DEF SenderInv
<1>2. FlightInv
  BY DEF FlightInv
<1>3. MfgInv
  BY DEF MfgInv, ReasmInit, Empty
<1>4. FileInv
  BY DEF FileInv, NoFile, Empty
<1>5. LineAnswer /\ CacheAnswer
  BY DEF LineAnswer, CacheAnswer
<1>6. delivered \in Seq(Delivery) /\ WholeMessage /\ FinishedInv
  BY DEF WholeMessage, FinishedInv, FinishedIsDelivered
<1>. QED BY <1>1, <1>2, <1>3, <1>4, <1>5, <1>6 DEF TransferInv

-----------------------------------------------------------------------------
(* Attempts and their owners                                               *)

\* Everything known of attempt n and of its message.
LEMMA AttemptFacts ==
    ASSUME SenderInv, NEW a \in Apps, att[a].id > 0
    PROVE  /\ att[a].id \in 1..Len(msgs) /\ att[a].id \in Nat
           /\ att[a].msg = msgs[att[a].id] /\ att[a].msg \in MessageType
           /\ att[a].msg \in Messages[a]
  BY DEF SenderInv, Attempt

LEMMA MessageLength ==
    ASSUME TransferInv, NEW n \in 1..Len(msgs)
    PROVE  msgs[n] \in MessageType /\ msgs[n].len \in Nat
<1>1. msgs[n] \in MessageType
  BY DEF TransferInv, SenderInv
<1>. QED BY <1>1 DEF MessageType

\* A continuation that matches what the PD is at, in kind, code and length,
\* belongs to the attempt the PD is at.
LEMMA SameAttempt ==
    ASSUME SenderInv, NEW n \in 1..Len(msgs), Latest(n), att[cur].id > 0,
           out.offset # 0,
           att[cur].msg.kind = msgs[n].kind, att[cur].msg.tag = msgs[n].tag,
           att[cur].msg.len = msgs[n].len
    PROVE  att[cur].id = n
<1>1. cur \in Apps /\ n \in Nat
  BY DEF SenderInv
<1>2. /\ att[cur].id \in Nat /\ att[cur].msg \in MessageType
      /\ att[cur].msg \in Messages[cur]
  BY <1>1, AttemptFacts
<1>3. msgs[n] \in MessageType
  BY DEF SenderInv
<1>4. att[cur].msg = msgs[n]
  BY <1>2, <1>3 DEF MessageType
<1>5. PICK a \in Apps : msgs[n] \in Messages[a] /\ n <= att[a].id
  BY DEF SenderInv
<1>6. a = cur
  BY <1>1, <1>2, <1>4, <1>5, DistinctMessages
<1>7. ~(att[cur].id > n)
  BY <1>1, <1>4 DEF Latest, Beginning
<1>. QED BY <1>1, <1>2, <1>5, <1>6, <1>7

\* A delivery stays a delivery when attempts and deliveries are added.
LEMMA DeliveredKept ==
    ASSUME NEW n \in 1..Len(msgs), Delivered(n), msgs'[n] = msgs[n],
           Len(delivered) \in Nat, Len(delivered') \in Nat, Len(delivered) <= Len(delivered'),
           \A i \in 1..Len(delivered) : delivered'[i] = delivered[i]
    PROVE  Delivered(n)'
  BY DEF Delivered

\* When no later attempt at a message has reached the PD, none has after a step
\* that begins another one or leaves the attempts alone.
LEMMA LatestKept ==
    ASSUME NEW n, Latest(n), msgs'[n] = msgs[n],
           \A a \in Apps :
              \/ Beginning(a)'
              \/ /\ att'[a].id = att[a].id /\ att'[a].msg = att[a].msg
                 /\ ~Beginning(a) \/ att[a].msg # msgs[n]
    PROVE  Latest(n)'
  BY DEF Latest

-----------------------------------------------------------------------------
(* Steps that leave the receivers alone                                    *)

\* The attempts already made stay what they are.
Extended ==
    /\ msgs' \in Seq(MessageType) /\ Len(msgs) <= Len(msgs')
    /\ \A n \in 1..Len(msgs) : msgs'[n] = msgs[n]

\* A receiver that is left alone stays at its attempt.
LEMMA MfgKept ==
    ASSUME TransferInv, Extended, UNCHANGED <<mfg_bound, mfg, mfg_vendor>>,
           mfg.active => cut'["mfg"] = cut["mfg"],
           mfg.active => \A n \in 1..Len(msgs) : MfgAt(n) => Latest(n)'
    PROVE  MfgInv'
<1>0. Len(msgs) \in Nat /\ Len(msgs') \in Nat /\ 1..Len(msgs) \subseteq 1..Len(msgs')
  BY DEF TransferInv, SenderInv, Extended
<1>1. ASSUME mfg.active, NEW n \in 1..Len(msgs), MfgAt(n) PROVE MfgAt(n)'
  BY <1>1 DEF MfgAt, Extended, Holds
<1>. QED BY <1>0, <1>1 DEF TransferInv, MfgInv

LEMMA FileKept ==
    ASSUME TransferInv, Extended, UNCHANGED <<file_mode, ft, file_buf>>,
           ft.active => cut'["file"] = cut["file"],
           ft.active => \A n \in 1..Len(msgs) : FileAt(n) => Latest(n)'
    PROVE  FileInv'
<1>0. Len(msgs) \in Nat /\ Len(msgs') \in Nat /\ 1..Len(msgs) \subseteq 1..Len(msgs')
  BY DEF TransferInv, SenderInv, Extended
<1>1. ASSUME ft.active, NEW n \in 1..Len(msgs), FileAt(n) PROVE FileAt(n)'
  BY <1>1 DEF FileAt, Extended, Holds
<1>. QED BY <1>0, <1>1 DEF TransferInv, FileInv

LEMMA CacheKept ==
    ASSUME TransferInv, Extended, delivered' = delivered, have_last' => have_last,
           last_cmd' = last_cmd, last_rpl' = last_rpl
    PROVE  CacheAnswer'
<1>0. Len(msgs) \in Nat /\ Len(msgs') \in Nat /\ Len(delivered) \in Nat
  BY DEF TransferInv, SenderInv, Extended
<1>. SUFFICES ASSUME have_last', last_cmd'.is = "frag"
              PROVE  \E n \in 1..Len(msgs') :
                        /\ FragOf(last_cmd', n, msgs'[n])
                        /\ Completes(last_cmd') /\ Success(last_rpl') => Delivered(n)'
  BY DEF CacheAnswer
<1>1. PICK n \in 1..Len(msgs) :
          /\ FragOf(last_cmd, n, msgs[n])
          /\ Completes(last_cmd) /\ Success(last_rpl) => Delivered(n)
  BY DEF TransferInv, CacheAnswer
<1>2. n \in 1..Len(msgs') /\ msgs'[n] = msgs[n]
  BY <1>0 DEF Extended
<1>3. Delivered(n) => Delivered(n)'
  BY <1>0, <1>2, DeliveredKept
<1>. QED BY <1>1, <1>2, <1>3

\* What was believed delivered stays so.
LEMMA FinishedKept ==
    ASSUME TransferInv, Extended, UNCHANGED <<delivered, finished>>,
           \A a \in Apps : att'[a] = att[a] \/ att'[a].status # "done"
    PROVE  FinishedInv'
<1>1. Len(msgs) \in Nat /\ Len(msgs') \in Nat
  BY DEF TransferInv, SenderInv, Extended
<1>2. finished' \subseteq 1..Len(msgs')
  BY <1>1 DEF TransferInv, FinishedInv, Extended
<1>3. FinishedIsDelivered'
  <2>. SUFFICES ASSUME NEW n \in finished
                PROVE  \E i \in 1..Len(delivered) :
                          delivered[i].ok /\ delivered[i].data = Body(n, msgs'[n].len)
    BY DEF FinishedIsDelivered
  <2>1. msgs'[n] = msgs[n]
    BY DEF TransferInv, FinishedInv, Extended
  <2>. QED BY <2>1 DEF TransferInv, FinishedInv, FinishedIsDelivered
<1>. QED BY <1>2, <1>3 DEF TransferInv, FinishedInv

\* What was handed up stays all of one attempt.
LEMMA WholeKept ==
    ASSUME TransferInv, Extended, delivered' = delivered
    PROVE  WholeMessage'
<1>. SUFFICES ASSUME NEW i \in 1..Len(delivered)
              PROVE  \E n \in 1..Len(msgs') :
                        /\ msgs'[n].kind = delivered[i].kind
                        /\ msgs'[n].tag = delivered[i].tag
                        /\ delivered[i].data = Body(n, msgs'[n].len)
  BY DEF WholeMessage
<1>1. PICK n \in 1..Len(msgs) :
          /\ msgs[n].kind = delivered[i].kind /\ msgs[n].tag = delivered[i].tag
          /\ delivered[i].data = Body(n, msgs[n].len)
  BY DEF TransferInv, WholeMessage
<1>2. n \in 1..Len(msgs') /\ msgs'[n] = msgs[n]
  BY DEF Extended, TransferInv, SenderInv
<1>. QED BY <1>1, <1>2

\* A step that neither writes the cache nor hands anything up.
LEMMA FrameInv ==
    ASSUME TransferInv, SenderInv', FlightInv', LineAnswer', MfgInv', FileInv', Extended,
           UNCHANGED <<delivered, last_cmd, last_rpl>>, have_last' => have_last,
           FinishedInv'
    PROVE  TransferInv'
<1>1. CacheAnswer'
  BY CacheKept
<1>2. WholeMessage'
  BY WholeKept
<1>3. delivered' \in Seq(Delivery)
  BY DEF TransferInv
<1>. QED BY <1>1, <1>2, <1>3 DEF TransferInv

\* ... nor changes a receiver.
LEMMA LineInv ==
    ASSUME TransferInv, SenderInv', FlightInv', LineAnswer', Extended,
           UNCHANGED <<rxVars, cut, delivered, last_cmd, last_rpl>>, have_last' => have_last,
           FinishedInv',
           \A a \in Apps :
              \/ Beginning(a)'
              \/ att'[a].id = att[a].id /\ att'[a].msg = att[a].msg /\ ~Beginning(a)
    PROVE  TransferInv'
<1>1. ASSUME NEW n \in 1..Len(msgs), Latest(n) PROVE Latest(n)'
  BY <1>1, LatestKept DEF Extended
<1>2. MfgInv'
  BY <1>1, MfgKept DEF rxVars, MfgAt
<1>3. FileInv'
  BY <1>1, FileKept DEF rxVars, FileAt
<1>. QED BY <1>2, <1>3, FrameInv

-----------------------------------------------------------------------------
(* The controller's steps                                                  *)

\* A step that puts a command on the line.
LEMMA SentInv ==
    ASSUME TransferInv, ~waiting, waiting', cmd' = out', UNCHANGED rpl,
           cur' = cur, SenderInv', Extended, FlightInv',
           UNCHANGED <<rxVars, cacheVars, cut, delivered, finished>>,
           \A a \in Apps :
              att'[a] = att[a] \/ (Beginning(a)' /\ att'[a].status # "done")
    PROVE  TransferInv'
<1>1. LineAnswer'
  BY DEF TransferInv, FlightInv, LineAnswer
<1>2. \A a \in Apps : ~Beginning(a)
  BY DEF Beginning
<1>3. FinishedInv'
  BY FinishedKept
<1>. QED BY <1>1, <1>2, <1>3, LineInv DEF cacheVars

\* ... that goes on with an attempt, or has nothing to do with one.
LEMMA ContinuedInv ==
    ASSUME TransferInv, NEW c, Transmit(c),
           \/ Stamped(c, next_seq).is \in {"poll", "abort"}
           \/ /\ att[cur].id > 0
              /\ FragOf(Stamped(c, next_seq), att[cur].id, att[cur].msg)
              /\ Stamped(c, next_seq).offset # 0,
           UNCHANGED <<cur, att, cacheVars, rxVars, msgs, delivered, finished, cut>>
    PROVE  TransferInv'
<1>. DEFINE o == Stamped(c, next_seq)
<1>1. ~waiting /\ waiting' /\ out' = o /\ cmd' = out' /\ UNCHANGED rpl
  BY DEF Transmit, Stamped
<1>. HIDE DEF o
<1>2. SenderInv' /\ Extended
  BY DEF TransferInv, SenderInv, Extended
<1>3. FlightInv'
  BY <1>1 DEF TransferInv, FlightInv, o
<1>. QED BY <1>1, <1>2, <1>3, SentInv

LEMMA SendNextInv == TransferInv /\ SendNext => TransferInv'
<1>. SUFFICES ASSUME TransferInv, SendNext PROVE TransferInv'
  OBVIOUS
<1>. DEFINE a == att[cur]
            f == IterFragment(Body(a.id, a.msg.len), a.off, MaxFrag)
            c == Build(a.msg, f, "yes")
<1>1. /\ Transmit(c) /\ a.status = "going"
      /\ Stamped(c, next_seq) = Sent(a.msg, a.id, a.off, "yes", next_seq)
  BY DEF SendNext, Current, Sent
<1>2. /\ cur \in Apps /\ a.id \in Nat /\ a.id > 0 /\ a.off \in Nat
      /\ 0 < a.off /\ a.off < a.msg.len
  BY <1>1 DEF TransferInv, SenderInv, Attempt
<1>3. a.msg \in MessageType /\ a.msg.len \in Nat
  BY <1>2, AttemptFacts DEF TransferInv, MessageType
<1>4. FragOf(Stamped(c, next_seq), a.id, a.msg)
      /\ Stamped(c, next_seq).offset = a.off
  <2>1. a.off \in 0..(a.msg.len - 1) /\ a.off # 0
    BY <1>2, <1>3
  <2>. HIDE DEF a, c
  <2>. QED BY <1>1, <1>3, <2>1, BuildFrag
<1>. HIDE DEF c
<1>. QED BY <1>1, <1>2, <1>4, ContinuedInv DEF SendNext

LEMMA PollInv == TransferInv /\ Poll => TransferInv'
<1>. SUFFICES ASSUME TransferInv, Poll PROVE TransferInv'
  OBVIOUS
<1>1. Stamped(Plain("poll"), next_seq).is = "poll"
  BY DEF Stamped, Plain
<1>. QED BY <1>1, ContinuedInv DEF Poll

LEMMA StrayFragmentInv == TransferInv /\ StrayFragment => TransferInv'
<1>. SUFFICES ASSUME TransferInv, StrayFragment PROVE TransferInv'
  OBVIOUS
<1>. DEFINE a == att[cur]
<1>1. PICK off \in {k * MaxFrag : k \in 1..a.msg.len} \cap 1..(a.msg.len - 1),
           whole \in {"yes", "data", "header"} :
           Transmit(Build(a.msg, IterFragment(Current, off, MaxFrag), whole))
  BY DEF StrayFragment
<1>. DEFINE c == Build(a.msg, IterFragment(Body(a.id, a.msg.len), off, MaxFrag), whole)
<1>2. Transmit(c) /\ Stamped(c, next_seq) = Sent(a.msg, a.id, off, whole, next_seq)
  BY <1>1 DEF Current, Sent
<1>3. cur \in Apps /\ a.id \in Nat /\ a.id > 0
  BY DEF TransferInv, SenderInv, Attempt, StrayFragment
<1>4. a.msg \in MessageType /\ a.msg.len \in Nat
  BY <1>3, AttemptFacts DEF TransferInv, MessageType
<1>5. FragOf(Stamped(c, next_seq), a.id, a.msg)
      /\ Stamped(c, next_seq).offset = off /\ off # 0
  <2>1. off \in 0..(a.msg.len - 1) /\ off # 0
    BY <1>4
  <2>. HIDE DEF a, c
  <2>. QED BY <1>2, <1>4, <2>1, BuildFrag
<1>. HIDE DEF c
<1>. QED BY <1>2, <1>3, <1>5, ContinuedInv DEF StrayFragment

LEMMA StrayEndInv == TransferInv /\ StrayEnd => TransferInv'
<1>. SUFFICES ASSUME TransferInv, StrayEnd PROVE TransferInv'
  OBVIOUS
<1>. DEFINE a == att[cur]
            c == Build(a.msg, FragTerminate(a.msg.len), "yes")
<1>0. UNCHANGED <<cur, att, cacheVars, rxVars, msgs, delivered, finished, cut>>
  BY DEF StrayEnd
<1>1. CASE a.status = "going" /\ Transmit(c)
  <2>1. cur \in Apps /\ a.id \in Nat /\ a.id > 0
    BY <1>1 DEF TransferInv, SenderInv, Attempt
  <2>2. a.msg \in MessageType
    BY <2>1, AttemptFacts DEF TransferInv
  <2>3. FragOf(Stamped(c, next_seq), a.id, a.msg)
        /\ Stamped(c, next_seq).offset # 0
    <3>. HIDE DEF a
    <3>. QED BY <2>2, MarkerFrag
  <2>. HIDE DEF c
  <2>. QED BY <1>0, <1>1, <2>1, <2>3, ContinuedInv
<1>2. CASE Transmit(Plain("abort"))
  <2>1. Stamped(Plain("abort"), next_seq).is = "abort"
    BY DEF Stamped, Plain
  <2>. QED BY <1>0, <1>2, <2>1, ContinuedInv
<1>. QED BY <1>1, <1>2 DEF StrayEnd

\* A new attempt: its first fragment is not the one in the cache, because no
\* byte of it was ever sent before.
LEMMA BeginInv ==
    ASSUME TransferInv, NEW m \in Messages[cur], Begin(m)
    PROVE  TransferInv' /\ Beginning(cur)' /\ att'[cur].msg = m /\ att'[cur].status = "begun"
<1>. DEFINE n == Len(msgs) + 1
            c == Build(m, IterFragment(Body(n, m.len), 0, MaxFrag), "yes")
            o == Stamped(c, next_seq)
<1>1. /\ ~waiting /\ waiting' /\ out' = o /\ cmd' = out' /\ UNCHANGED rpl
      /\ att' = [att EXCEPT ![cur] = [id |-> n, msg |-> m, off |-> 0, status |-> "begun"]]
      /\ msgs' = Append(msgs, m)
      /\ UNCHANGED <<cur, cacheVars, rxVars, delivered, finished, cut>>
  BY DEF Begin, Transmit, Stamped
<1>2. /\ cur \in Apps /\ m \in MessageType /\ m.len \in Nat \ {0}
      /\ msgs \in Seq(MessageType) /\ Len(msgs) \in Nat /\ n \in Nat /\ n > Len(msgs)
  BY TransferAssumption DEF TransferInv, SenderInv, MessageType, Kinds
<1>3. FragOf(o, n, m) /\ o.offset = 0 /\ o.is = "frag"
  <2>1. 0 \in 0..(m.len - 1)
    BY <1>2
  <2>2. o = Sent(m, n, 0, "yes", next_seq)
    BY DEF Sent
  <2>. HIDE DEF n, o
  <2>. QED BY <1>2, <2>1, <2>2, BuildFrag
<1>. HIDE DEF o, c
<1>4. /\ msgs' \in Seq(MessageType) /\ Len(msgs') = n /\ msgs'[n] = m
      /\ \A i \in 1..Len(msgs) : msgs'[i] = msgs[i]
  BY <1>1, <1>2
<1>5. Extended
  BY <1>2, <1>4 DEF Extended
<1>6. /\ att'[cur].id = n /\ att'[cur].msg = m /\ att'[cur].status = "begun"
      /\ att' \in [Apps -> Attempt]
      /\ \A a \in Apps : a # cur => att'[a] = att[a]
  BY <1>1, <1>2 DEF TransferInv, SenderInv, Attempt, Statuses
<1>. HIDE DEF n
<1>7. SenderInv'
  <2>1. cut' \in [Kinds -> Nat] /\ \A k \in Kinds : cut'[k] <= Len(msgs')
    BY <1>1, <1>2, <1>4 DEF TransferInv, SenderInv
  <2>2. ASSUME NEW a \in Apps
        PROVE  /\ att'[a].id <= Len(msgs')
               /\ att'[a].id > 0 => att'[a].msg = msgs'[att'[a].id]
                                    /\ att'[a].msg \in Messages[a]
               /\ att'[a].status \in {"begun", "going", "failed"} => att'[a].id > 0
               /\ att'[a].status = "going" => 0 < att'[a].off /\ att'[a].off < att'[a].msg.len
    <3>1. CASE a = cur
      BY <1>2, <1>4, <1>6, <3>1
    <3>2. CASE a # cur
      <4>1. att'[a] = att[a] /\ att[a].id \in Nat
        BY <1>6, <3>2 DEF TransferInv, SenderInv, Attempt
      <4>2. /\ att[a].id <= Len(msgs)
            /\ att[a].id > 0 => att[a].msg = msgs[att[a].id] /\ att[a].msg \in Messages[a]
            /\ att[a].status \in {"begun", "going", "failed"} => att[a].id > 0
            /\ att[a].status = "going" => 0 < att[a].off /\ att[a].off < att[a].msg.len
        BY DEF TransferInv, SenderInv
      <4>3. att[a].id > 0 => msgs'[att[a].id] = msgs[att[a].id]
        BY <1>4, <4>1, <4>2
      <4>4. att[a].id <= Len(msgs')
        BY <1>2, <1>4, <4>1, <4>2
      <4>. QED BY <4>1, <4>2, <4>3, <4>4
    <3>. QED BY <3>1, <3>2
  <2>3. ASSUME NEW i \in 1..Len(msgs')
        PROVE  \E a \in Apps : msgs'[i] \in Messages[a] /\ i <= att'[a].id
    <3>1. CASE i = n
      BY <1>2, <1>4, <1>6, <3>1
    <3>2. CASE i # n
      <4>1. i \in 1..Len(msgs)
        BY <1>2, <1>4, <3>2 DEF n
      <4>2. PICK a \in Apps : msgs[i] \in Messages[a] /\ i <= att[a].id
        BY <4>1 DEF TransferInv, SenderInv
      <4>3. i <= att'[a].id
        BY <1>2, <1>6, <4>1, <4>2
      <4>. QED BY <1>4, <4>1, <4>2, <4>3
    <3>. QED BY <3>1, <3>2
  <2>. QED BY <1>1, <1>2, <1>4, <1>6, <2>1, <2>2, <2>3 DEF SenderInv
<1>8. FlightInv'
  <2>1. \A k \in Kinds : cut'[k] < Len(msgs')
    BY <1>1, <1>2, <1>4 DEF TransferInv, SenderInv
  <2>. QED BY <1>1, <1>2, <1>3, <1>4, <1>6, <2>1 DEF TransferInv, FlightInv
<1>9. Beginning(cur)'
  <2>1. ASSUME have_last, last_cmd = o PROVE FALSE
    <3>1. PICK k \in 1..Len(msgs) : FragOf(o, k, msgs[k])
      BY <1>3, <2>1 DEF TransferInv, CacheAnswer
    <3>2. Len(o.data) \in Nat /\ Len(o.data) > 0 /\ 1 \in 1..Len(o.data)
      BY <1>3 DEF FragOf
    <3>3. o.data[1] = ByteOf(n, 1) /\ o.data[1] = ByteOf(k, 1)
      BY <1>3, <3>1, <3>2 DEF FragOf
    <3>4. n = k
      BY <3>3, ByteFields
    <3>. QED BY <1>2, <3>4
  <2>2. rpl = NoRpl
    BY <1>1 DEF TransferInv, FlightInv
  <2>. QED BY <1>1, <1>3, <2>1, <2>2 DEF Beginning, cacheVars
<1>. QED BY <1>1, <1>5, <1>6, <1>7, <1>8, <1>9, SentInv

LEMMA StartInv == TransferInv /\ Start => TransferInv'
  BY BeginInv DEF Start

LEMMA StrayBeginInv == TransferInv /\ StrayBegin => TransferInv'
  BY BeginInv DEF StrayBegin

\* The slot changes hands, or the sequence starts over, between two commands.
LEMMA IdleInv ==
    ASSUME TransferInv, ~waiting, cur' \in Apps,
           UNCHANGED <<att, waiting, out, cmd, rpl, cacheVars, rxVars, msgs, delivered,
                       finished, cut>>
    PROVE  TransferInv'
<1>. USE DEF cacheVars
<1>1. SenderInv' /\ Extended
  BY DEF TransferInv, SenderInv, Extended
<1>2. FlightInv' /\ LineAnswer'
  BY DEF TransferInv, FlightInv, LineAnswer
<1>3. \A a \in Apps : ~Beginning(a)
  BY DEF Beginning
<1>4. FinishedInv'
  BY <1>1, FinishedKept
<1>. QED BY <1>1, <1>2, <1>3, <1>4, LineInv

LEMMA StraySwitchInv == TransferInv /\ StraySwitch => TransferInv'
  BY IdleInv DEF StraySwitch, Stray

LEMMA StrayResetSequenceInv == TransferInv /\ StrayResetSequence => TransferInv'
  BY IdleInv DEF StrayResetSequence, Stray, TransferInv, SenderInv

\* Frames that arrive again, are lost, or come too late.
LEMMA DeliveryInv ==
    ASSUME TransferInv, UNCHANGED <<ctlVars, last_cmd, last_rpl, rxVars, msgs, delivered,
                                    finished, cut>>,
           have_last' => have_last, rpl' \in {rpl, NoRpl},
           cmd' \in {NoCmd, cmd} \/ (cmd' = out /\ waiting /\ rpl = NoRpl)
    PROVE  TransferInv'
<1>. USE DEF ctlVars
<1>1. SenderInv' /\ Extended
  BY DEF TransferInv, SenderInv, Extended
<1>2. FlightInv'
  BY DEF TransferInv, FlightInv
<1>3. LineAnswer'
  <2>1. Delivered(att[cur].id) => Delivered(att[cur].id)'
    BY DEF Delivered
  <2>. QED BY <2>1 DEF TransferInv, LineAnswer
<1>4. \A a \in Apps : Beginning(a) => Beginning(a)'
  BY DEF Beginning
<1>5. FinishedInv'
  BY <1>1, FinishedKept
<1>. QED BY <1>1, <1>2, <1>3, <1>4, <1>5, LineInv

LEMMA ResendInv == TransferInv /\ Resend => TransferInv'
  BY DeliveryInv DEF Resend, cacheVars, histVars

LEMMA LoseInv == TransferInv /\ Lose => TransferInv'
  BY DeliveryInv DEF Lose, cacheVars

LEMMA PdGoOfflineInv == TransferInv /\ PdGoOffline => TransferInv'
  BY DeliveryInv DEF PdGoOffline

\* A fragment that completes a message carries a byte of it, and so belongs to
\* one attempt.
LEMMA OneAttempt ==
    ASSUME NEW c, NEW n, NEW m \in MessageType, NEW k, NEW l,
           FragOf(c, n, m), FragOf(c, k, l), Completes(c)
    PROVE  n = k
<1>1. Len(c.data) \in Nat /\ c.offset \in Nat /\ c.total \in Nat \ {0}
  BY DEF FragOf, MessageType
<1>2. 1 \in 1..Len(c.data)
  BY <1>1 DEF Completes, IsEarlyTermination
<1>3. c.data[1] = ByteOf(n, c.offset + 1) /\ c.data[1] = ByteOf(k, c.offset + 1)
  BY <1>2 DEF FragOf
<1>. QED BY <1>3, ByteFields

LEMMA PdRetransmitInv == TransferInv /\ PdRetransmit => TransferInv'
<1>. SUFFICES ASSUME TransferInv, PdRetransmit PROVE TransferInv'
  OBVIOUS
<1>. USE DEF ctlVars, cacheVars, histVars
<1>1. /\ cmd # NoCmd /\ have_last /\ last_cmd = cmd
      /\ cmd' = NoCmd /\ rpl' = last_rpl
      /\ UNCHANGED <<ctlVars, cacheVars, rxVars, msgs, delivered, finished, cut>>
  BY DEF PdRetransmit, IsRetransmit, SendBytes
<1>2. cmd = out /\ waiting
  BY <1>1 DEF TransferInv, FlightInv
<1>3. SenderInv' /\ Extended
  BY <1>1 DEF TransferInv, SenderInv, Extended
<1>4. FlightInv'
  BY <1>1, <1>2 DEF TransferInv, FlightInv
<1>5. LineAnswer'
  <2>. SUFFICES ASSUME out.is = "frag", Completes(out), Success(last_rpl)
                PROVE  Delivered(att[cur].id)'
    BY <1>1 DEF LineAnswer
  <2>1. PICK n \in 1..Len(msgs) : FragOf(out, n, msgs[n]) /\ Delivered(n)
    BY <1>1, <1>2 DEF TransferInv, CacheAnswer
  <2>2. att[cur].id > 0 /\ FragOf(out, att[cur].id, att[cur].msg)
    BY <1>2 DEF TransferInv, FlightInv
  <2>3. att[cur].msg \in MessageType
    BY <2>2, AttemptFacts DEF TransferInv, SenderInv
  <2>4. n = att[cur].id
    BY <2>1, <2>2, <2>3, OneAttempt
  <2>. QED BY <1>1, <2>1, <2>4 DEF Delivered
<1>6. \A a \in Apps : ~Beginning(a)
  BY <1>1, <1>2 DEF Beginning
<1>7. FinishedInv'
  BY <1>1, <1>3, FinishedKept
<1>. QED BY <1>1, <1>3, <1>4, <1>5, <1>6, <1>7, LineInv

\* What an answer to the outstanding command makes of the attempt.
LEMMA AnsweredFacts ==
    ASSUME SenderInv, FlightInv, waiting, rpl # NoRpl,
           NEW r, r = Answered(att[cur], out, rpl)
    PROVE  /\ r \in Attempt /\ r.id = att[cur].id /\ r.msg = att[cur].msg
           /\ r.status \in {"begun", "going", "failed"} => r.id > 0
           /\ r.status = "going" => 0 < r.off /\ r.off < r.msg.len
           /\ r.status = "done" => \/ att[cur].status = "done"
                                   \/ out.is = "frag" /\ Completes(out) /\ Success(rpl)
<1>. DEFINE a == att[cur]
<1>0. cur \in Apps
  BY DEF SenderInv
<1>1. /\ a = [id |-> a.id, msg |-> a.msg, off |-> a.off, status |-> a.status]
      /\ a.id \in Nat /\ a.off \in Nat /\ a.msg \in MessageType \cup {NoMsg}
      /\ a.status \in Statuses
      /\ a.status \in {"begun", "going", "failed"} => a.id > 0
      /\ a.status = "going" => 0 < a.off /\ a.off < a.msg.len
  BY <1>0 DEF SenderInv, Attempt
<1>2. CASE r = a
  BY <1>0, <1>1, <1>2 DEF Attempt
<1>3. CASE r = [a EXCEPT !.status = "unsupported"]
  <2>. HIDE DEF a
  <2>. QED BY <1>1, <1>3 DEF Attempt, Statuses, a
<1>4. CASE r = [a EXCEPT !.status = "failed"] /\ (a.status = "going" \/ a.id > 0)
  <2>1. r = [id |-> a.id, msg |-> a.msg, off |-> a.off, status |-> "failed"] /\ a.id > 0
    <3>. HIDE DEF a
    <3>. QED BY <1>1, <1>4
  <2>. QED BY <1>1, <2>1 DEF Attempt, Statuses
<1>5. CASE /\ out.is = "frag" /\ FragOf(out, a.id, a.msg) /\ a.id > 0
           /\ r = [a EXCEPT !.off = out.offset + Len(out.data),
                            !.status = IF IterAtEnd(Current, out.offset + Len(out.data))
                                       THEN "done" ELSE "going"]
           /\ ~IsEarlyTermination(out) /\ Success(rpl)
  <2>. DEFINE end == out.offset + Len(out.data)
  <2>1. a.msg \in MessageType /\ a.msg.len \in Nat \ {0}
    BY <1>0, <1>5, AttemptFacts DEF MessageType
  <2>2. /\ out.offset \in Nat /\ Len(out.data) \in Nat /\ out.total = a.msg.len
        /\ end > 0 /\ end \in Nat
    BY <1>5 DEF FragOf
  <2>3. IterAtEnd(Current, end) <=> end >= a.msg.len
    BY <2>1, BodyShape DEF IterAtEnd, Current
  <2>4. r = [id |-> a.id, msg |-> a.msg, off |-> end,
             status |-> IF end >= a.msg.len THEN "done" ELSE "going"]
    <3>1. r = [a EXCEPT !.off = end,
                        !.status = IF end >= a.msg.len THEN "done" ELSE "going"]
      BY <1>5, <2>3
    <3>. HIDE DEF a, end
    <3>. QED BY <1>1, <3>1
  <2>5. end >= a.msg.len => Completes(out)
    BY <1>5, <2>2 DEF Completes
  <2>6. /\ r.id = a.id /\ r.msg = a.msg /\ r.off = end
        /\ r.status = IF end >= a.msg.len THEN "done" ELSE "going"
    <3>. HIDE DEF a, end
    <3>. QED BY <2>4
  <2>7. r \in Attempt
    <3>. HIDE DEF a, end
    <3>. QED BY <1>1, <2>2, <2>4 DEF Attempt, Statuses
  <2>. HIDE DEF end
  <2>. QED BY <1>5, <2>1, <2>2, <2>5, <2>6, <2>7
<1>6. \/ out.is \in {"poll", "abort"}
      \/ out.is = "frag" /\ FragOf(out, a.id, a.msg) /\ a.id > 0
  BY DEF FlightInv, FragOf
<1>7. CASE out.is \in {"poll", "abort"}
  <2>1. r = a \/ (r = [a EXCEPT !.status = "failed"] /\ a.status = "going")
    <3>. HIDE DEF a
    <3>. QED BY <1>7 DEF Answered, a
  <2>. QED BY <1>2, <1>4, <2>1
<1>8. CASE out.is = "frag" /\ FragOf(out, a.id, a.msg) /\ a.id > 0
  <2>1. CASE rpl.is = "BUSY"
    BY <1>2, <2>1 DEF Answered
  <2>2. CASE rpl.is = "NAK" /\ rpl.detail = "UNKNOWN_CMD"
    BY <1>3, <1>8, <2>2 DEF Answered
  <2>3. CASE /\ rpl.is # "BUSY" /\ ~(rpl.is = "NAK" /\ rpl.detail = "UNKNOWN_CMD")
             /\ \/ rpl.is = "NAK" \/ IsEarlyTermination(out)
                \/ rpl.is = "FTSTAT" /\ rpl.detail \notin {"OK", "PROCESSED"}
    BY <1>4, <1>8, <2>3 DEF Answered
  <2>4. CASE /\ rpl.is \notin {"BUSY", "NAK"} /\ ~IsEarlyTermination(out)
             /\ rpl.is = "FTSTAT" => rpl.detail \in {"OK", "PROCESSED"}
    <3>1. Success(rpl)
      BY <2>4 DEF Success
    <3>. QED BY <1>5, <1>8, <2>4, <3>1 DEF Answered
  <2>. QED BY <2>1, <2>2, <2>3, <2>4
<1>. QED BY <1>6, <1>7, <1>8

LEMMA TakeReplyInv == TransferInv /\ TakeReply => TransferInv'
<1>. SUFFICES ASSUME TransferInv, TakeReply PROVE TransferInv'
  OBVIOUS
<1>. USE DEF ctlVars, cacheVars
<1>1. /\ rpl # NoRpl /\ rpl' = NoRpl
      /\ UNCHANGED <<cur, cmd, cacheVars, rxVars, msgs, delivered, cut>>
  BY DEF TakeReply
<1>2. waiting /\ cmd = NoCmd
  BY <1>1 DEF TransferInv, FlightInv
<1>3. \A a \in Apps : ~Beginning(a)
  BY <1>1 DEF Beginning
<1>4. LineAnswer' /\ Extended
  BY <1>1 DEF LineAnswer, TransferInv, SenderInv, Extended
<1>5. CASE UNCHANGED <<waiting, att, finished, out>>
  <2>1. SenderInv' /\ FlightInv'
    BY <1>1, <1>2, <1>5 DEF TransferInv, SenderInv, FlightInv
  <2>2. FinishedInv'
    BY <1>1, <1>4, <1>5, FinishedKept
  <2>. QED BY <1>1, <1>3, <1>4, <1>5, <2>1, <2>2, LineInv
<1>6. CASE /\ waiting' = FALSE
           /\ att' = [att EXCEPT ![cur] = Answered(att[cur], out, rpl)]
           /\ finished' = IF Answered(att[cur], out, rpl).status = "done"
                          THEN finished \cup {Answered(att[cur], out, rpl).id} ELSE finished
  <2>. DEFINE r == Answered(att[cur], out, rpl)
  <2>0. cur \in Apps /\ att \in [Apps -> Attempt] /\ att[cur].id \in Nat
    BY DEF TransferInv, SenderInv, Attempt
  <2>1. /\ r \in Attempt /\ r.id = att[cur].id /\ r.msg = att[cur].msg
        /\ r.status \in {"begun", "going", "failed"} => r.id > 0
        /\ r.status = "going" => 0 < r.off /\ r.off < r.msg.len
        /\ r.status = "done" => \/ att[cur].status = "done"
                                \/ out.is = "frag" /\ Completes(out) /\ Success(rpl)
    BY <1>1, <1>2, AnsweredFacts DEF TransferInv
  <2>. HIDE DEF r
  <2>2. /\ att' \in [Apps -> Attempt] /\ att'[cur] = r
        /\ \A a \in Apps : a # cur => att'[a] = att[a]
        /\ finished' = IF r.status = "done" THEN finished \cup {r.id} ELSE finished
    BY <1>6, <2>0, <2>1 DEF r
  <2>3. \A a \in Apps : att'[a].id = att[a].id /\ att'[a].msg = att[a].msg
    BY <2>1, <2>2
  <2>4. SenderInv'
    <3>1. ASSUME NEW a \in Apps
          PROVE  /\ att'[a].id <= Len(msgs')
                 /\ att'[a].id > 0 => att'[a].msg = msgs'[att'[a].id]
                                      /\ att'[a].msg \in Messages[a]
                 /\ att'[a].status \in {"begun", "going", "failed"} => att'[a].id > 0
                 /\ att'[a].status = "going"
                       => 0 < att'[a].off /\ att'[a].off < att'[a].msg.len
      <4>1. CASE a = cur
        BY <1>1, <2>1, <2>2, <4>1 DEF TransferInv, SenderInv
      <4>2. CASE a # cur
        BY <1>1, <2>2, <4>2 DEF TransferInv, SenderInv
      <4>. QED BY <4>1, <4>2
    <3>2. \A n \in 1..Len(msgs') : \E a \in Apps : msgs'[n] \in Messages[a] /\ n <= att'[a].id
      BY <1>1, <2>3 DEF TransferInv, SenderInv
    <3>. QED BY <1>1, <2>2, <3>1, <3>2 DEF TransferInv, SenderInv
  <2>5. FlightInv'
    BY <1>1, <1>2, <1>6 DEF TransferInv, FlightInv
  <2>6. FinishedInv'
    <3>1. ASSUME r.status = "done" PROVE r.id \in 1..Len(msgs) /\ Delivered(r.id)
      <4>1. CASE att[cur].status = "done"
        BY <2>0, <2>1, <4>1 DEF TransferInv, FinishedInv, FinishedIsDelivered, Delivered
      <4>2. CASE out.is = "frag" /\ Completes(out) /\ Success(rpl)
        <5>1. att[cur].id > 0
          BY <1>2, <4>2 DEF TransferInv, FlightInv
        <5>2. att[cur].id \in 1..Len(msgs)
          BY <2>0, <5>1, AttemptFacts DEF TransferInv
        <5>. QED BY <1>1, <1>2, <2>1, <4>2, <5>2 DEF TransferInv, LineAnswer
      <4>. QED BY <2>1, <3>1, <4>1, <4>2
    <3>2. finished' \subseteq 1..Len(msgs')
      BY <1>1, <2>2, <3>1 DEF TransferInv, FinishedInv
    <3>3. FinishedIsDelivered'
      BY <1>1, <2>2, <3>1 DEF TransferInv, FinishedInv, FinishedIsDelivered, Delivered
    <3>4. \A a \in Apps : att'[a].status = "done" => att'[a].id \in finished'
      BY <2>1, <2>2 DEF TransferInv, FinishedInv
    <3>. QED BY <3>2, <3>3, <3>4 DEF FinishedInv
  <2>. QED BY <1>1, <1>3, <1>4, <2>3, <2>4, <2>5, <2>6, LineInv
<1>. QED BY <1>5, <1>6 DEF TakeReply

-----------------------------------------------------------------------------
(* The PD's configuration                                                  *)

\* A receiver is installed or removed between two commands.
LEMMA ConfigInv ==
    ASSUME TransferInv, MfgInv', FileInv',
           UNCHANGED <<ctlVars, cmd, rpl, cacheVars, msgs, delivered, finished, cut>>
    PROVE  TransferInv'
<1>. USE DEF ctlVars, cacheVars
<1>1. SenderInv' /\ Extended
  BY DEF TransferInv, SenderInv, Extended
<1>2. FlightInv'
  BY DEF TransferInv, FlightInv
<1>3. LineAnswer'
  BY DEF TransferInv, LineAnswer, Delivered
<1>4. FinishedInv'
  BY <1>1, FinishedKept
<1>. QED BY <1>1, <1>2, <1>3, <1>4, FrameInv

LEMMA ConfigLatest ==
    ASSUME UNCHANGED <<ctlVars, rpl, cacheVars, msgs>>, NEW n, Latest(n)
    PROVE  Latest(n)'
  BY DEF ctlVars, cacheVars, Latest, Beginning

LEMMA SetFileReceiverInv ==
    ASSUME TransferInv, NEW mode, SetFileReceiver(mode)
    PROVE  TransferInv'
<1>1. UNCHANGED <<ctlVars, cmd, rpl, cacheVars, mfg_bound, mfg, mfg_vendor, msgs, delivered,
                  finished, cut>>
  BY DEF SetFileReceiver
<1>2. Extended
  BY <1>1 DEF TransferInv, SenderInv, Extended
<1>3. MfgInv'
  BY <1>1, <1>2, ConfigLatest, MfgKept DEF MfgAt
<1>4. FileInv'
  <2>1. ft = [active |-> ft.active, type |-> ft.type, total |-> ft.total,
              received |-> ft.received]
    BY DEF TransferInv, FileInv
  <2>2. ft' = [active |-> FALSE, type |-> ft.type, total |-> ft.total, received |-> 0]
    BY <2>1 DEF SetFileReceiver
  <2>3. DOMAIN file_buf' = {}
    BY DEF SetFileReceiver, Empty
  <2>. QED BY <2>2, <2>3 DEF FileInv
<1>. QED BY <1>1, <1>3, <1>4, ConfigInv

LEMMA SetMfgReceiverInv ==
    ASSUME TransferInv, NEW bound, SetMfgReceiver(bound)
    PROVE  TransferInv'
<1>1. UNCHANGED <<ctlVars, cmd, rpl, cacheVars, file_mode, ft, file_buf, msgs, delivered,
                  finished, cut>>
  BY DEF SetMfgReceiver
<1>2. Extended
  BY <1>1 DEF TransferInv, SenderInv, Extended
<1>3. FileInv'
  BY <1>1, <1>2, ConfigLatest, FileKept DEF FileAt
<1>4. MfgInv'
  BY DEF SetMfgReceiver, ReasmInit, Empty, MfgInv
<1>. QED BY <1>1, <1>3, <1>4, ConfigInv

-----------------------------------------------------------------------------
(* The PD's handlers                                                       *)

\* The command a handler runs on is the outstanding one.
LEMMA FreshFacts ==
    ASSUME TransferInv, Fresh(cmd)
    PROVE  /\ cmd = out /\ waiting
           /\ out.is \in {"poll", "abort"} \/ out.is = "frag"
           /\ out.is = "frag" =>
                /\ att[cur].id \in 1..Len(msgs) /\ msgs[att[cur].id] \in MessageType
                /\ att[cur].msg = msgs[att[cur].id] /\ att[cur].id > 0
                /\ FragOf(out, att[cur].id, msgs[att[cur].id])
                /\ out.offset = 0 => /\ att[cur].id = Len(msgs)
                                     /\ \A k \in Kinds : cut[k] < att[cur].id
<1>1. cmd = out /\ waiting
  BY DEF TransferInv, FlightInv, Fresh
<1>2. \/ out.is \in {"poll", "abort"}
      \/ /\ att[cur].id > 0 /\ FragOf(out, att[cur].id, att[cur].msg)
         /\ out.offset = 0 => /\ att[cur].id = Len(msgs)
                              /\ \A k \in Kinds : cut[k] < Len(msgs)
  BY <1>1 DEF TransferInv, FlightInv
<1>3. cur \in Apps
  BY DEF TransferInv, SenderInv
<1>4. att[cur].id > 0 => /\ att[cur].id \in 1..Len(msgs) /\ att[cur].msg = msgs[att[cur].id]
                         /\ att[cur].msg \in MessageType
  BY <1>3, AttemptFacts DEF TransferInv
<1>. QED BY <1>1, <1>2, <1>4 DEF FragOf

\* The end of process_frame: what the handler did to the receivers and what it
\* handed up, the answer that goes out and into the cache.
LEMMA HandledInv ==
    ASSUME TransferInv, Fresh(cmd), NEW i, NEW d, Finish(cmd, Reply(i, d)),
           MfgInv', FileInv',
           cut' \in [Kinds -> Nat], \A k \in Kinds : cut'[k] <= Len(msgs),
           cut' = cut \/ out.is = "abort" \/ out.offset # 0,
           delivered' \in Seq(Delivery), WholeMessage', Len(delivered) <= Len(delivered'),
           \A j \in 1..Len(delivered) : delivered'[j] = delivered[j],
           out.is = "frag" /\ Completes(out) /\ Success(Reply(i, d))
              => Delivered(att[cur].id)'
    PROVE  TransferInv'
<1>. USE DEF ctlVars
<1>. DEFINE r == Reply(i, d)
<1>0. /\ Len(msgs) \in Nat /\ Len(delivered) \in Nat /\ Len(delivered') \in Nat
      /\ msgs \in Seq(MessageType)
  BY DEF TransferInv, SenderInv
<1>1. cmd = out /\ waiting
  BY FreshFacts
<1>2. /\ cmd' = NoCmd
      /\ UNCHANGED <<ctlVars, msgs, finished>>
      /\ have_last' => last_rpl' = rpl' /\ last_cmd' \in {NoCmd, out}
  BY <1>1 DEF Finish, SendBytes
<1>3. Success(rpl') => Success(r)
  <2>1. rpl' = (IF r = NoRpl \/ r.is = "BUSY" THEN r ELSE [r EXCEPT !.sqn = cmd.sqn])
    BY DEF Finish, SendBytes
  <2>. QED BY <2>1 DEF Success, Reply
<1>. HIDE DEF r
<1>4. SenderInv'
  BY <1>2 DEF TransferInv, SenderInv
<1>5. FlightInv'
  <2>1. ~waiting' => cmd' = NoCmd /\ rpl' = NoRpl
    BY <1>1, <1>2
  <2>. QED BY <1>1, <1>2, <2>1 DEF TransferInv, FlightInv
<1>6. LineAnswer'
  BY <1>2, <1>3 DEF LineAnswer, r
<1>7. CacheAnswer'
  <2>. SUFFICES ASSUME have_last', last_cmd'.is = "frag"
                PROVE  \E n \in 1..Len(msgs') :
                          /\ FragOf(last_cmd', n, msgs'[n])
                          /\ Completes(last_cmd') /\ Success(last_rpl') => Delivered(n)'
    BY DEF CacheAnswer
  <2>1. last_cmd' = out
    BY <1>2 DEF NoCmd, Plain
  <2>2. att[cur].id \in 1..Len(msgs) /\ FragOf(out, att[cur].id, msgs[att[cur].id])
    BY <2>1, FreshFacts
  <2>. QED BY <1>2, <1>3, <2>1, <2>2 DEF r
<1>8. FinishedInv'
  <2>1. ASSUME NEW n \in finished PROVE Delivered(n)'
    <3>1. n \in 1..Len(msgs) /\ Delivered(n)
      BY DEF TransferInv, FinishedInv, FinishedIsDelivered, Delivered
    <3>. QED BY <1>0, <1>2, <3>1, DeliveredKept
  <2>2. FinishedIsDelivered'
    BY <1>2, <2>1 DEF FinishedIsDelivered, Delivered
  <2>. QED BY <1>2, <2>2 DEF TransferInv, FinishedInv
<1>. QED BY <1>4, <1>5, <1>6, <1>7, <1>8 DEF TransferInv

\* A handler that is not given a first fragment of that kind.
LEMMA HandledLatest ==
    ASSUME TransferInv, Fresh(cmd), NEW r, Finish(cmd, r),
           NEW n \in 1..Len(msgs), Latest(n),
           out.is = "frag" /\ out.offset = 0 => out.kind # msgs[n].kind
    PROVE  Latest(n)'
<1>1. UNCHANGED <<cur, att, msgs>>
  BY DEF Finish, ctlVars
<1>2. ASSUME NEW a \in Apps, Beginning(a) PROVE att[a].msg # msgs[n]
  <2>1. a = cur /\ out.is = "frag" /\ out.offset = 0
    BY <1>2 DEF Beginning
  <2>2. out.kind = att[cur].msg.kind
    BY <2>1, FreshFacts DEF FragOf
  <2>. QED BY <2>1, <2>2
<1>. QED BY <1>1, <1>2, LatestKept

\* A handler that hands nothing up.
LEMMA NothingHanded ==
    ASSUME TransferInv, UNCHANGED <<msgs, delivered>>
    PROVE  /\ delivered' \in Seq(Delivery) /\ WholeMessage' /\ Len(delivered) <= Len(delivered')
           /\ \A j \in 1..Len(delivered) : delivered'[j] = delivered[j]
  BY DEF TransferInv, WholeMessage

\* A handler that hands attempt n up.
LEMMA HandedUp ==
    ASSUME TransferInv, UNCHANGED msgs, NEW n \in 1..Len(msgs), NEW d,
           delivered' = Append(delivered, d),
           d \in Delivery, d.kind = msgs[n].kind, d.tag = msgs[n].tag,
           d.data = Body(n, msgs[n].len)
    PROVE  /\ delivered' \in Seq(Delivery) /\ WholeMessage' /\ Len(delivered) <= Len(delivered')
           /\ \A j \in 1..Len(delivered) : delivered'[j] = delivered[j]
           /\ d.ok => Delivered(n)'
           /\ Len(delivered') \in Nat /\ delivered'[Len(delivered')] = d
<1>1. delivered \in Seq(Delivery) /\ Len(delivered) \in Nat
  BY DEF TransferInv
<1>2. /\ delivered' \in Seq(Delivery) /\ Len(delivered') = Len(delivered) + 1
      /\ \A j \in 1..Len(delivered) : delivered'[j] = delivered[j]
      /\ delivered'[Len(delivered) + 1] = d
  BY <1>1
<1>3. WholeMessage'
  <2>. SUFFICES ASSUME NEW j \in 1..Len(delivered')
                PROVE  \E k \in 1..Len(msgs) :
                          /\ msgs[k].kind = delivered'[j].kind
                          /\ msgs[k].tag = delivered'[j].tag
                          /\ delivered'[j].data = Body(k, msgs[k].len)
    BY DEF WholeMessage
  <2>1. CASE j = Len(delivered) + 1
    BY <1>2, <2>1
  <2>2. CASE j # Len(delivered) + 1
    <3>1. j \in 1..Len(delivered) /\ delivered'[j] = delivered[j]
      BY <1>1, <1>2, <2>2
    <3>. QED BY <3>1 DEF TransferInv, WholeMessage
  <2>. QED BY <2>1, <2>2
<1>4. d.ok => Delivered(n)'
  BY <1>1, <1>2 DEF Delivered
<1>. QED BY <1>1, <1>2, <1>3, <1>4

\* The bytes of an attempt, as they are handed up.
LEMMA BodyType ==
    ASSUME NEW n \in Nat, NEW len \in Nat
    PROVE  Body(n, len) \in Seq([of : Nat, at : Nat])
<1>1. \A i \in 1..len : ByteOf(n, i) \in [of : Nat, at : Nat]
  BY DEF ByteOf
<1>. DEFINE S == [of : Nat, at : Nat]
<1>. HIDE DEF S
<1>2. Body(n, len) \in [1..len -> S]
  BY <1>1 DEF Body, S
<1>3. Seq(S) = UNION {[1..k -> S] : k \in Nat}
  BY SeqDef
<1>4. Body(n, len) \in Seq(S)
  BY <1>2, <1>3
<1>. QED BY <1>4 DEF S

\* A receiver of the other kind is left at its attempt.
LEMMA MfgUntouched ==
    ASSUME TransferInv, Fresh(cmd), NEW r, Finish(cmd, r), out.is = "frag" => out.kind = "file",
           UNCHANGED <<mfg, mfg_vendor>>, cut'["mfg"] = cut["mfg"]
    PROVE  MfgInv'
<1>1. Extended /\ UNCHANGED mfg_bound
  BY DEF Finish, TransferInv, SenderInv, Extended
<1>2. ASSUME NEW n \in 1..Len(msgs), MfgAt(n) PROVE Latest(n)'
  BY <1>2, HandledLatest DEF MfgAt
<1>. QED BY <1>1, <1>2, MfgKept

LEMMA FileUntouched ==
    ASSUME TransferInv, Fresh(cmd), NEW r, Finish(cmd, r), out.is = "frag" => out.kind = "mfg",
           UNCHANGED <<ft, file_buf>>, cut'["file"] = cut["file"]
    PROVE  FileInv'
<1>1. Extended /\ UNCHANGED file_mode
  BY DEF Finish, TransferInv, SenderInv, Extended
<1>2. ASSUME NEW n \in 1..Len(msgs), FileAt(n) PROVE Latest(n)'
  BY <1>2, HandledLatest DEF FileAt
<1>. QED BY <1>1, <1>2, FileKept

LEMMA HandlePollInv == TransferInv /\ HandlePoll(cmd) => TransferInv'
<1>. SUFFICES ASSUME TransferInv, HandlePoll(cmd) PROVE TransferInv'
  OBVIOUS
<1>1. /\ Fresh(cmd) /\ cmd.is = "poll" /\ Finish(cmd, Reply("ACK", "none"))
      /\ UNCHANGED <<ft, file_buf, mfg, mfg_vendor, delivered, cut>>
  BY DEF HandlePoll, Ack
<1>2. out.is = "poll" /\ UNCHANGED msgs
  BY <1>1, FreshFacts DEF Finish
<1>3. MfgInv' /\ FileInv'
  BY <1>1, <1>2, MfgUntouched, FileUntouched
<1>4. cut' \in [Kinds -> Nat] /\ \A k \in Kinds : cut'[k] <= Len(msgs)
  BY <1>1 DEF TransferInv, SenderInv
<1>. QED BY <1>1, <1>2, <1>3, <1>4, NothingHanded, HandledInv

LEMMA HandleAbortInv ==
    ASSUME TransferInv, NEW v, HandleAbort(cmd, v)
    PROVE  TransferInv'
<1>1. /\ Fresh(cmd) /\ cmd.is = "abort" /\ UNCHANGED <<file_buf, delivered>>
      /\ ft' = NoFile /\ mfg' = ReasmReset(mfg)
      /\ cut' = [k \in {"file", "mfg"} |-> Len(msgs)]
  BY DEF HandleAbort
<1>2. PICK i, d : Finish(cmd, Reply(i, d))
  <2>1. CASE v = "OK"
    BY <2>1 DEF HandleAbort, Ack
  <2>2. CASE v # "OK"
    BY <2>2 DEF HandleAbort, Nak
  <2>. QED BY <2>1, <2>2
<1>3. out.is = "abort" /\ UNCHANGED <<msgs, file_mode, mfg_bound>>
  BY <1>1, <1>2, FreshFacts DEF Finish
<1>4. FileInv'
  BY <1>1, <1>3 DEF FileInv, NoFile, TransferInv
<1>5. MfgInv'
  <2>1. mfg = [total |-> mfg.total, received |-> mfg.received, active |-> mfg.active,
               buf |-> mfg.buf] /\ DOMAIN mfg.buf \subseteq 0..(MfgCap - 1)
    BY DEF TransferInv, MfgInv
  <2>2. mfg' = [total |-> 0, received |-> 0, active |-> FALSE, buf |-> mfg.buf]
    BY <1>1, <2>1 DEF ReasmReset
  <2>. QED BY <2>1, <2>2 DEF MfgInv
<1>6. cut' \in [Kinds -> Nat] /\ \A k \in Kinds : cut'[k] <= Len(msgs)
  BY <1>1 DEF TransferInv, SenderInv, Kinds
<1>. QED BY <1>1, <1>2, <1>3, <1>4, <1>5, <1>6, NothingHanded, HandledInv

LEMMA FileRefusedInv == TransferInv /\ FileRefused(cmd) => TransferInv'
<1>. SUFFICES ASSUME TransferInv, FileRefused(cmd) PROVE TransferInv'
  OBVIOUS
<1>1. /\ Fresh(cmd) /\ cmd.is = "frag" /\ cmd.kind = "file"
      /\ UNCHANGED <<file_buf, mfg, mfg_vendor, delivered, cut>>
  BY DEF FileRefused
<1>2. /\ cmd = out /\ FragOf(out, att[cur].id, msgs[att[cur].id])
  BY <1>1, FreshFacts
<1>3. PICK i, d : Finish(cmd, Reply(i, d)) /\ ~Success(Reply(i, d))
  <2>1. ~Success(Reply("NAK", "UNKNOWN_CMD")) /\ ~Success(Reply("NAK", "CMD_LENGTH"))
        /\ ~Success(Reply("FTSTAT", "ABORT"))
    BY DEF Success, Reply
  <2>. QED BY <2>1 DEF FileRefused, Nak
<1>4. UNCHANGED <<msgs, file_mode>> /\ Extended
  BY <1>3 DEF Finish, TransferInv, SenderInv, Extended
<1>5. MfgInv'
  BY <1>1, <1>2, <1>3, MfgUntouched
<1>6. FileInv'
  <2>1. CASE UNCHANGED ft /\ file_mode = "none"
    <3>1. ~ft.active
      BY <2>1 DEF TransferInv, FileInv
    <3>. QED BY <1>1, <1>4, <2>1, <3>1, FileKept
  <2>2. CASE UNCHANGED ft /\ ~FiletransferDecodes(cmd)
    <3>1. out.offset # 0
      BY <1>2, <2>2 DEF FiletransferDecodes, FragOf
    <3>2. ASSUME NEW n \in 1..Len(msgs), FileAt(n) PROVE Latest(n)'
      BY <1>1, <1>3, <3>1, <3>2, HandledLatest DEF FileAt
    <3>. QED BY <1>1, <1>4, <2>2, <3>2, FileKept
  <2>3. CASE ft' = IF cmd.offset = 0
                   THEN [active |-> FALSE, type |-> cmd.tag, total |-> cmd.total, received |-> 0]
                   ELSE [ft EXCEPT !.active = FALSE]
    <3>1. /\ ft = [active |-> ft.active, type |-> ft.type, total |-> ft.total,
                   received |-> ft.received]
          /\ file_mode = "reassembly" => DOMAIN file_buf \subseteq 0..(FileCap - 1)
      BY DEF TransferInv, FileInv
    <3>2. CASE cmd.offset = 0
      <4>1. ft' = [active |-> FALSE, type |-> cmd.tag, total |-> cmd.total, received |-> 0]
        BY <2>3, <3>2
      <4>. QED BY <1>1, <1>4, <3>1, <4>1 DEF FileInv
    <3>3. CASE cmd.offset # 0
      <4>1. ft' = [active |-> FALSE, type |-> ft.type, total |-> ft.total,
                   received |-> ft.received]
        BY <2>3, <3>1, <3>3
      <4>. QED BY <1>1, <1>4, <3>1, <4>1 DEF FileInv
    <3>. QED BY <3>2, <3>3
  <2>. QED BY <2>1, <2>2, <2>3 DEF FileRefused
<1>7. cut' \in [Kinds -> Nat] /\ \A k \in Kinds : cut'[k] <= Len(msgs)
  BY <1>1 DEF TransferInv, SenderInv
<1>. QED BY <1>1, <1>3, <1>4, <1>5, <1>6, <1>7, NothingHanded, HandledInv

LEMMA MfgRefusedInv == TransferInv /\ MfgRefused(cmd) => TransferInv'
<1>. SUFFICES ASSUME TransferInv, MfgRefused(cmd) PROVE TransferInv'
  OBVIOUS
<1>1. /\ Fresh(cmd) /\ cmd.is = "frag" /\ cmd.kind = "mfg"
      /\ UNCHANGED <<ft, file_buf, delivered, cut>>
  BY DEF MfgRefused
<1>2. /\ cmd = out /\ FragOf(out, att[cur].id, msgs[att[cur].id])
  BY <1>1, FreshFacts
<1>3. PICK i, d : Finish(cmd, Reply(i, d)) /\ ~Success(Reply(i, d))
  <2>1. ~Success(Reply("NAK", "UNKNOWN_CMD")) /\ ~Success(Reply("NAK", "CMD_LENGTH"))
        /\ ~Success(Reply("NAK", "RECORD_INVALID"))
    BY DEF Success, Reply
  <2>. QED BY <2>1 DEF MfgRefused, Nak
<1>4. UNCHANGED <<msgs, mfg_bound>> /\ Extended
  BY <1>3 DEF Finish, TransferInv, SenderInv, Extended
<1>5. FileInv'
  BY <1>1, <1>2, <1>3, FileUntouched
<1>6. MfgInv'
  <2>1. CASE UNCHANGED <<mfg, mfg_vendor>> /\ ~mfg_bound
    <3>1. ~mfg.active
      BY <2>1 DEF TransferInv, MfgInv
    <3>. QED BY <1>1, <1>4, <2>1, <3>1, MfgKept
  <2>2. CASE UNCHANGED <<mfg, mfg_vendor>> /\ cmd.whole = "header"
    <3>1. out.offset # 0
      BY <1>2, <2>2 DEF FragOf
    <3>2. ASSUME NEW n \in 1..Len(msgs), MfgAt(n) PROVE Latest(n)'
      BY <1>1, <1>3, <3>1, <3>2, HandledLatest DEF MfgAt
    <3>. QED BY <1>1, <1>4, <2>2, <3>2, MfgKept
  <2>3. CASE mfg' = ReasmReset(mfg)
    <3>1. mfg = [total |-> mfg.total, received |-> mfg.received, active |-> mfg.active,
                 buf |-> mfg.buf] /\ DOMAIN mfg.buf \subseteq 0..(MfgCap - 1)
      BY DEF TransferInv, MfgInv
    <3>2. mfg' = [total |-> 0, received |-> 0, active |-> FALSE, buf |-> mfg.buf]
      BY <2>3, <3>1 DEF ReasmReset
    <3>. QED BY <3>1, <3>2 DEF MfgInv
  <2>. QED BY <2>1, <2>2, <2>3 DEF MfgRefused
<1>7. cut' \in [Kinds -> Nat] /\ \A k \in Kinds : cut'[k] <= Len(msgs)
  BY <1>1 DEF TransferInv, SenderInv
<1>. QED BY <1>1, <1>3, <1>4, <1>5, <1>6, <1>7, NothingHanded, HandledInv

\* A fragment the file receiver takes: it continues the transfer of its own
\* attempt, or begins it, and the buffer holds what has arrived of it.
LEMMA FileTakenFacts ==
    ASSUME TransferInv, NEW v, FileTaken(cmd, v), NEW n, n = att[cur].id
    PROVE  LET m == msgs[n]
               got == FileAfter(out).received
           IN  /\ n \in 1..Len(msgs) /\ m \in MessageType /\ m.kind = "file"
               /\ out.tag = m.tag /\ out.total = m.len /\ out.kind = "file"
               /\ got \in 0..m.len /\ got = out.offset + Len(out.data)
               /\ file_mode = "reassembly" => /\ m.len <= FileCap
                                              /\ DOMAIN file_buf' \subseteq 0..(FileCap - 1)
               /\ Holds(file_buf', n, got)
               /\ cut["file"] < n /\ Latest(n)'
<1>. DEFINE m == msgs[n]
            had == IF out.offset = 0 THEN 0 ELSE ft.received
            got == FileAfter(out).received
<1>1. /\ Fresh(cmd) /\ cmd.is = "frag" /\ cmd.kind = "file"
      /\ file_mode # "none" /\ FileInSequence(cmd)
      /\ file_buf' = Copy(file_buf, cmd.offset, cmd.data)
      /\ Finish(cmd, Reply("FTSTAT", FileStatus(v, FileAfter(cmd).received >= FileAfter(cmd).total)))
  BY DEF FileTaken
<1>2. /\ cmd = out /\ n \in 1..Len(msgs) /\ m \in MessageType /\ att[cur].msg = m /\ n > 0
      /\ FragOf(out, n, m)
      /\ out.offset = 0 => n = Len(msgs) /\ \A k \in Kinds : cut[k] < n
  BY <1>1, FreshFacts
<1>3. /\ out.kind = m.kind /\ out.tag = m.tag /\ out.total = m.len /\ out.kind = "file"
      /\ out.offset \in Nat /\ Len(out.data) \in Nat /\ out.offset + Len(out.data) <= m.len
      /\ m.len \in Nat \ {0} /\ m.kind = "file" /\ cut["file"] \in Nat /\ n \in Nat
  BY <1>1, <1>2 DEF FragOf, MessageType, TransferInv, SenderInv, Kinds
<1>4. cur \in Apps /\ SenderInv /\ FileCap \in Nat /\ UNCHANGED <<msgs, att>>
  BY <1>1, TransferAssumption DEF TransferInv, SenderInv, Finish, ctlVars
<1>5. /\ had = out.offset /\ had \in Nat /\ Holds(file_buf, n, had)
      /\ file_mode = "reassembly" => m.len <= FileCap
      /\ cut["file"] < n /\ Latest(n)'
  <2>1. CASE out.offset = 0
    <3>1. Latest(n)'
      <4>1. \A a \in Apps : att[a].id \in Nat /\ att[a].id <= Len(msgs)
        BY DEF TransferInv, SenderInv, Attempt
      <4>. QED BY <1>2, <1>4, <2>1, <4>1 DEF Latest
    <3>2. file_mode = "reassembly" => m.len <= FileCap
      BY <1>1, <1>2, <1>3, <2>1 DEF FileInSequence
    <3>3. had = 0 /\ Holds(file_buf, n, 0)
      BY <2>1 DEF Holds
    <3>4. cut["file"] < n
      BY <1>2, <2>1 DEF Kinds
    <3>. QED BY <2>1, <3>1, <3>2, <3>3, <3>4
  <2>2. CASE out.offset # 0
    <3>1. ft.active /\ out.offset = ft.received /\ out.tag = ft.type /\ out.total = ft.total
      BY <1>1, <1>2, <2>2 DEF FileInSequence
    <3>2. PICK k \in 1..Len(msgs) : FileAt(k)
      BY <3>1 DEF TransferInv, FileInv
    <3>3. n = k
      BY <1>2, <1>3, <1>4, <2>2, <3>1, <3>2, SameAttempt DEF FileAt
    <3>4. Latest(k)'
      BY <1>1, <2>2, <3>2, HandledLatest DEF FileAt
    <3>5. had = ft.received
      BY <2>2
    <3>. QED BY <1>3, <3>1, <3>2, <3>3, <3>4, <3>5 DEF FileAt
  <2>. QED BY <2>1, <2>2
<1>6. got = had + Len(out.data)
  BY DEF FileAfter
<1>. HIDE DEF m, had, got
<1>7. got \in Nat /\ got = out.offset + Len(out.data) /\ got <= m.len /\ out.offset <= had
  BY <1>3, <1>5, <1>6
<1>8. /\ Holds(file_buf', n, got)
      /\ DOMAIN file_buf' = DOMAIN file_buf \cup out.offset..(out.offset + Len(out.data) - 1)
  <2>1. file_buf' = Copy(file_buf, out.offset, out.data)
    BY <1>1, <1>2
  <2>2. got <= out.offset + Len(out.data)
    BY <1>3, <1>7
  <2>. QED BY <1>2, <1>5, <1>7, <2>1, <2>2, CopyHolds, Zenon
<1>9. ASSUME file_mode = "reassembly" PROVE DOMAIN file_buf' \subseteq 0..(FileCap - 1)
  <2>1. DOMAIN file_buf \subseteq 0..(FileCap - 1)
    BY <1>9 DEF TransferInv, FileInv
  <2>2. Len(out.data) > 0 => out.offset + Len(out.data) <= FileCap
    BY <1>1, <1>2, <1>9 DEF FileInSequence
  <2>. QED BY <1>3, <1>4, <1>8, <2>1, <2>2
<1>. QED BY <1>2, <1>3, <1>5, <1>7, <1>8, <1>9 DEF m, got

\* ... and when it is complete, what is handed up is the attempt.
LEMMA FileHanded ==
    ASSUME TransferInv, NEW v, FileTaken(cmd, v), NEW n, n = att[cur].id,
           FileAfter(out).received >= out.total
    PROVE  \E d \in Delivery :
              /\ delivered' = Append(delivered, d)
              /\ d.kind = msgs[n].kind /\ d.tag = msgs[n].tag
              /\ d.data = Body(n, msgs[n].len) /\ d.ok = (v = "OK")
<1>. DEFINE d == [kind |-> "file", tag |-> out.tag, ok |-> v = "OK",
                  data |-> Contents(file_buf', out.total)]
<1>1. cmd = out
  BY FreshFacts DEF FileTaken
<1>2. FileAfter(out).total = out.total
  BY DEF FileAfter
<1>3. delivered' = Append(delivered, d)
  BY <1>1, <1>2 DEF FileTaken
<1>4. /\ n \in 1..Len(msgs) /\ msgs[n] \in MessageType /\ msgs[n].kind = "file"
      /\ out.tag = msgs[n].tag /\ out.total = msgs[n].len
      /\ FileAfter(out).received \in 0..msgs[n].len
      /\ Holds(file_buf', n, FileAfter(out).received)
  BY FileTakenFacts
<1>5. msgs[n].len \in Nat /\ msgs[n].tag \in Nat /\ n \in Nat
  BY <1>4 DEF MessageType
<1>6. Contents(file_buf', out.total) = Body(n, msgs[n].len)
  <2>1. FileAfter(out).received = msgs[n].len
    BY <1>4, <1>5
  <2>. QED BY <1>4, <1>5, <2>1, ContentsHeld
<1>7. d.kind = "file" /\ d.tag = out.tag /\ d.ok = (v = "OK") /\ d.data = Body(n, msgs[n].len)
  BY <1>6
<1>8. d \in Delivery
  <2>1. Body(n, msgs[n].len) \in Seq([of : Nat, at : Nat])
    BY <1>5, BodyType
  <2>2. "file" \in Kinds /\ out.tag \in Nat /\ (v = "OK") \in BOOLEAN
    BY <1>4, <1>5 DEF Kinds
  <2>3. d = [kind |-> "file", tag |-> out.tag, ok |-> v = "OK", data |-> Body(n, msgs[n].len)]
    BY <1>6
  <2>. HIDE DEF d
  <2>. QED BY <2>1, <2>2, <2>3 DEF Delivery
<1>. HIDE DEF d
<1>. QED BY <1>3, <1>4, <1>7, <1>8

LEMMA FileTakenInv ==
    ASSUME TransferInv, NEW v, FileTaken(cmd, v)
    PROVE  TransferInv'
<1>0. PICK n : n = att[cur].id
  OBVIOUS
<1>. DEFINE m == msgs[n]
            got == FileAfter(out).received
            complete == got >= out.total
<1>1. Fresh(cmd) /\ cmd = out /\ out.is = "frag"
  BY FreshFacts DEF FileTaken
<1>2. FileAfter(out).total = out.total
  BY DEF FileAfter
<1>3. /\ ft' = [FileAfter(out) EXCEPT !.active = v = "OK" /\ ~complete]
      /\ ~complete => delivered' = delivered
      /\ Finish(cmd, Reply("FTSTAT", FileStatus(v, complete)))
      /\ UNCHANGED <<mfg, mfg_vendor, cut>>
  BY <1>1, <1>2 DEF FileTaken
<1>4. /\ n \in 1..Len(msgs) /\ m \in MessageType /\ m.kind = "file"
      /\ out.tag = m.tag /\ out.total = m.len /\ out.kind = "file"
      /\ got \in 0..m.len /\ got = out.offset + Len(out.data)
      /\ file_mode = "reassembly" => /\ m.len <= FileCap
                                     /\ DOMAIN file_buf' \subseteq 0..(FileCap - 1)
      /\ Holds(file_buf', n, got)
      /\ cut["file"] < n /\ Latest(n)'
  BY <1>0, FileTakenFacts
<1>5. UNCHANGED <<msgs, att, cur, file_mode>>
  BY <1>3 DEF Finish, ctlVars
<1>6. MfgInv'
  BY <1>1, <1>3, <1>4, MfgUntouched
<1>7. /\ ft' = [active |-> v = "OK" /\ ~complete, type |-> out.tag, total |-> out.total,
                received |-> got]
  BY <1>3 DEF FileAfter
<1>. HIDE DEF m, got, complete
<1>8. FileInv'
  <2>1. /\ ft'.total = m.len /\ ft'.type = m.tag /\ ft'.received = got
        /\ ft' = [active |-> ft'.active, type |-> ft'.type, total |-> ft'.total,
                  received |-> ft'.received]
    BY <1>4, <1>7
  <2>2. n \in 1..Len(msgs') /\ msgs'[n] = m /\ cut'["file"] = cut["file"]
    BY <1>3, <1>4, <1>5 DEF m
  <2>3. file_mode' # "none"
    BY <1>5 DEF FileTaken
  <2>4. FileAt(n)'
    BY <1>4, <1>5, <2>1, <2>2 DEF FileAt
  <2>. QED BY <1>4, <1>5, <2>1, <2>2, <2>3, <2>4 DEF FileInv
<1>9. cut' \in [Kinds -> Nat] /\ \A k \in Kinds : cut'[k] <= Len(msgs)
  BY <1>3 DEF TransferInv, SenderInv
<1>10. CASE ~complete
  <2>1. ~Completes(out)
    BY <1>4, <1>10 DEF Completes, complete
  <2>. QED BY <1>1, <1>3, <1>5, <1>6, <1>8, <1>9, <1>10, <2>1, NothingHanded, HandledInv
<1>11. CASE complete
  <2>1. PICK d \in Delivery :
            /\ delivered' = Append(delivered, d)
            /\ d.kind = msgs[n].kind /\ d.tag = msgs[n].tag
            /\ d.data = Body(n, msgs[n].len) /\ d.ok = (v = "OK")
    BY <1>0, <1>11, FileHanded DEF complete, got
  <2>2. /\ delivered' \in Seq(Delivery) /\ WholeMessage' /\ Len(delivered) <= Len(delivered')
        /\ \A j \in 1..Len(delivered) : delivered'[j] = delivered[j]
        /\ d.ok => Delivered(n)'
    BY <1>4, <1>5, <2>1, HandedUp
  <2>3. Success(Reply("FTSTAT", FileStatus(v, complete))) => v = "OK"
    BY DEF Success, Reply, FileStatus
  <2>4. Success(Reply("FTSTAT", FileStatus(v, complete))) => Delivered(att[cur].id)'
    BY <1>0, <1>5, <2>1, <2>2, <2>3
  <2>. QED BY <1>1, <1>3, <1>6, <1>8, <1>9, <2>2, <2>4, HandledInv
<1>. QED BY <1>10, <1>11

\* What osdp_mp_reasm_push made of a fragment that it took.
Had(c) == IF c.offset = 0 THEN 0 ELSE mfg.received
Got(c) == IF c.offset + Len(c.data) > Had(c) THEN c.offset + Len(c.data) ELSE Had(c)

\* A reassembler, and nothing else.
IsReasm(r) ==
    r = [total |-> r.total, received |-> r.received, active |-> r.active, buf |-> r.buf]

LEMMA ResetFields ==
    ASSUME NEW r, IsReasm(r), NEW q, q = ReasmReset(r)
    PROVE  q.total = 0 /\ q.received = 0 /\ ~q.active /\ q.buf = r.buf /\ IsReasm(q)
<1>1. q = [total |-> 0, received |-> 0, active |-> FALSE, buf |-> r.buf]
  BY DEF IsReasm, ReasmReset
<1>. QED BY <1>1 DEF IsReasm

LEMMA PushTaken ==
    ASSUME NEW c, ReasmPush(mfg, MfgCap, c).ok, ~IsEarlyTermination(c)
    PROVE  LET push == ReasmPush(mfg, MfgCap, c)
           IN  /\ ~PushRefused(mfg, MfgCap, c)
               /\ push.state = IF Got(c) = c.total THEN "COMPLETE" ELSE "IN_PROGRESS"
               /\ push.r.total = c.total /\ push.r.received = Got(c) /\ push.r.active
               /\ push.r.buf = Copy(mfg.buf, c.offset, c.data)
               /\ IsReasm(push.r)
<1>1. ~PushRefused(mfg, MfgCap, c)
  BY DEF ReasmPush
<1>2. /\ ReasmPush(mfg, MfgCap, c).state = IF Got(c) = c.total THEN "COMPLETE" ELSE "IN_PROGRESS"
      /\ ReasmPush(mfg, MfgCap, c).r = [total |-> c.total, received |-> Got(c), active |-> TRUE,
                                        buf |-> Copy(mfg.buf, c.offset, c.data)]
  BY <1>1 DEF ReasmPush, Had, Got
<1>. QED BY <1>1, <1>2 DEF IsReasm

\* A fragment the reassembler takes: it continues its own attempt or begins it,
\* and the buffer holds what has arrived of it.
LEMMA MfgTakenFacts ==
    ASSUME TransferInv, NEW v, MfgTaken(cmd, v), NEW n, n = att[cur].id,
           ~IsEarlyTermination(out)
    PROVE  LET m == msgs[n]
               buf == Copy(mfg.buf, out.offset, out.data)
           IN  /\ n \in 1..Len(msgs) /\ m \in MessageType /\ m.kind = "mfg"
               /\ out.tag = m.tag /\ out.total = m.len /\ out.kind = "mfg"
               /\ Got(out) \in 0..m.len /\ Got(out) >= out.offset + Len(out.data)
               /\ out.offset \in Nat /\ Len(out.data) \in Nat
               /\ m.len <= MfgCap /\ DOMAIN buf \subseteq 0..(MfgCap - 1)
               /\ Holds(buf, n, Got(out))
               /\ cut["mfg"] < n /\ Latest(n)'
<1>. DEFINE m == msgs[n]
            had == Had(out)
            got == Got(out)
            buf == Copy(mfg.buf, out.offset, out.data)
<1>1. /\ Fresh(cmd) /\ cmd.is = "frag" /\ cmd.kind = "mfg" /\ VendorMatches(cmd)
      /\ ReasmPush(mfg, MfgCap, cmd).ok /\ \E r : Finish(cmd, r)
  BY DEF MfgTaken
<1>2. /\ cmd = out /\ n \in 1..Len(msgs) /\ m \in MessageType /\ att[cur].msg = m /\ n > 0
      /\ FragOf(out, n, m)
      /\ out.offset = 0 => n = Len(msgs) /\ \A k \in Kinds : cut[k] < n
  BY <1>1, FreshFacts
<1>3. /\ out.kind = m.kind /\ out.tag = m.tag /\ out.total = m.len /\ out.kind = "mfg"
      /\ out.offset \in Nat /\ Len(out.data) \in Nat /\ out.offset + Len(out.data) <= m.len
      /\ m.len \in Nat \ {0} /\ m.kind = "mfg" /\ cut["mfg"] \in Nat /\ n \in Nat
  BY <1>1, <1>2 DEF FragOf, MessageType, TransferInv, SenderInv, Kinds
<1>4. cur \in Apps /\ SenderInv /\ MfgCap \in Nat /\ UNCHANGED <<msgs, att>>
  BY <1>1, TransferAssumption DEF TransferInv, SenderInv, Finish, ctlVars
<1>5. ~PushRefused(mfg, MfgCap, out)
  BY <1>1, <1>2, PushTaken
<1>6. /\ out.offset <= had /\ had \in 0..m.len /\ Holds(mfg.buf, n, had)
      /\ m.len <= MfgCap
      /\ cut["mfg"] < n /\ Latest(n)'
  <2>1. CASE out.offset = 0
    <3>1. Latest(n)'
      <4>1. \A a \in Apps : att[a].id \in Nat /\ att[a].id <= Len(msgs)
        BY DEF TransferInv, SenderInv, Attempt
      <4>. QED BY <1>2, <1>4, <2>1, <4>1 DEF Latest
    <3>2. m.len <= MfgCap
      BY <1>3, <1>4, <1>5, <2>1 DEF PushRefused
    <3>3. had = 0 /\ Holds(mfg.buf, n, 0)
      BY <2>1 DEF Holds, Had
    <3>4. cut["mfg"] < n
      BY <1>2, <2>1 DEF Kinds
    <3>. QED BY <1>3, <2>1, <3>1, <3>2, <3>3, <3>4
  <2>2. CASE out.offset # 0
    <3>1. /\ mfg.active /\ out.total = mfg.total /\ ~(out.offset > mfg.received)
          /\ out.tag = mfg_vendor
      BY <1>1, <1>2, <1>5, <2>2 DEF PushRefused, VendorMatches
    <3>2. PICK k \in 1..Len(msgs) : MfgAt(k)
      BY <3>1 DEF TransferInv, MfgInv
    <3>3. n = k
      BY <1>2, <1>3, <1>4, <2>2, <3>1, <3>2, SameAttempt DEF MfgAt
    <3>4. Latest(k)'
      BY <1>1, <2>2, <3>2, HandledLatest DEF MfgAt
    <3>5. had = mfg.received /\ mfg.received \in 0..m.len
      BY <1>3, <2>2, <3>1, <3>2 DEF Had, MfgAt
    <3>. QED BY <1>3, <3>1, <3>2, <3>3, <3>4, <3>5 DEF MfgAt
  <2>. QED BY <2>1, <2>2
<1>7. got = IF out.offset + Len(out.data) > had THEN out.offset + Len(out.data) ELSE had
  BY DEF Got
<1>. HIDE DEF m, had, got, buf
<1>8. /\ got \in 0..m.len /\ got >= out.offset + Len(out.data)
      /\ got \in Nat /\ had \in Nat
      /\ (got <= had \/ got <= out.offset + Len(out.data))
  BY <1>3, <1>6, <1>7
<1>9. /\ Holds(buf, n, got)
      /\ DOMAIN buf = DOMAIN mfg.buf \cup out.offset..(out.offset + Len(out.data) - 1)
  BY <1>2, <1>6, <1>8, CopyHolds, Zenon DEF buf
<1>10. DOMAIN buf \subseteq 0..(MfgCap - 1)
  <2>1. DOMAIN mfg.buf \subseteq 0..(MfgCap - 1)
    BY DEF TransferInv, MfgInv
  <2>. QED BY <1>3, <1>4, <1>6, <1>9, <2>1
<1>. QED BY <1>2, <1>3, <1>6, <1>8, <1>9, <1>10 DEF m, got, buf

LEMMA MfgHanded ==
    ASSUME TransferInv, NEW v, MfgTaken(cmd, v), NEW n, n = att[cur].id,
           ~IsEarlyTermination(out), Got(out) = out.total
    PROVE  \E d \in Delivery :
              /\ delivered' = Append(delivered, d)
              /\ d.kind = msgs[n].kind /\ d.tag = msgs[n].tag
              /\ d.data = Body(n, msgs[n].len) /\ d.ok = (v = "OK")
<1>. DEFINE push == ReasmPush(mfg, MfgCap, out)
            buf == Copy(mfg.buf, out.offset, out.data)
            d == [kind |-> "mfg", tag |-> out.tag, ok |-> v = "OK",
                  data |-> Contents(buf, out.total)]
<1>1. cmd = out
  BY FreshFacts DEF MfgTaken
<1>2. push.ok
  BY <1>1 DEF MfgTaken
<1>3. push.state = "COMPLETE" /\ push.r.buf = buf /\ push.r.total = out.total
  BY <1>2, PushTaken
<1>4. delivered' = Append(delivered, d)
  <2>1. delivered' = Append(delivered, [kind |-> "mfg", tag |-> out.tag, ok |-> v = "OK",
                                        data |-> Contents(push.r.buf, push.r.total)])
    BY <1>1, <1>3 DEF MfgTaken
  <2>. HIDE DEF push, buf
  <2>. QED BY <1>3, <2>1
<1>. HIDE DEF push
<1>5. /\ n \in 1..Len(msgs) /\ msgs[n] \in MessageType /\ msgs[n].kind = "mfg"
      /\ out.tag = msgs[n].tag /\ out.total = msgs[n].len
      /\ Holds(buf, n, Got(out))
  BY MfgTakenFacts
<1>6. msgs[n].len \in Nat /\ msgs[n].tag \in Nat /\ n \in Nat
  BY <1>5 DEF MessageType
<1>7. Contents(buf, out.total) = Body(n, msgs[n].len)
  BY <1>5, <1>6, ContentsHeld
<1>. HIDE DEF buf
<1>8. d.kind = "mfg" /\ d.tag = out.tag /\ d.ok = (v = "OK") /\ d.data = Body(n, msgs[n].len)
  BY <1>7
<1>9. d \in Delivery
  <2>1. Body(n, msgs[n].len) \in Seq([of : Nat, at : Nat])
    BY <1>6, BodyType
  <2>2. "mfg" \in Kinds /\ out.tag \in Nat /\ (v = "OK") \in BOOLEAN
    BY <1>5, <1>6 DEF Kinds
  <2>3. d = [kind |-> "mfg", tag |-> out.tag, ok |-> v = "OK", data |-> Body(n, msgs[n].len)]
    BY <1>7
  <2>. HIDE DEF d
  <2>. QED BY <2>1, <2>2, <2>3 DEF Delivery
<1>. HIDE DEF d
<1>. QED BY <1>4, <1>5, <1>8, <1>9

LEMMA MfgTakenInv ==
    ASSUME TransferInv, NEW v, MfgTaken(cmd, v)
    PROVE  TransferInv'
<1>0. PICK n : n = att[cur].id
  OBVIOUS
<1>. DEFINE m == msgs[n]
            push == ReasmPush(mfg, MfgCap, out)
            buf == Copy(mfg.buf, out.offset, out.data)
            complete == push.state = "COMPLETE"
<1>1. Fresh(cmd) /\ cmd = out /\ out.is = "frag" /\ out.kind = "mfg"
  BY FreshFacts DEF MfgTaken
<1>2. /\ push.ok /\ mfg_vendor' = out.tag /\ mfg_bound
      /\ UNCHANGED <<ft, file_buf>> /\ \E r : Finish(cmd, r)
  BY <1>1 DEF MfgTaken
<1>3. UNCHANGED <<msgs, att, cur, mfg_bound>>
  BY <1>2 DEF Finish, ctlVars
<1>4. CASE IsEarlyTermination(out)
  <2>1. push.state = "TERMINATED" /\ push.r = ReasmReset(mfg)
    BY <1>4 DEF ReasmPush
  <2>2. /\ mfg' = push.r /\ Finish(cmd, Reply("ACK", "none"))
        /\ cut' = [cut EXCEPT !["mfg"] = Len(msgs)] /\ UNCHANGED delivered
    BY <1>1, <2>1 DEF MfgTaken, Ack
  <2>3. FileInv'
    <3>1. cut'["file"] = cut["file"]
      BY <2>2 DEF TransferInv, SenderInv, Kinds
    <3>. QED BY <1>1, <1>2, <2>2, <3>1, FileUntouched
  <2>4. MfgInv'
    <3>1. IsReasm(mfg) /\ DOMAIN mfg.buf \subseteq 0..(MfgCap - 1)
      BY DEF TransferInv, MfgInv, IsReasm
    <3>2. IsReasm(mfg') /\ ~mfg'.active /\ mfg'.buf = mfg.buf
      BY <2>1, <2>2, <3>1, ResetFields
    <3>. QED BY <3>1, <3>2 DEF MfgInv, IsReasm
  <2>5. cut' \in [Kinds -> Nat] /\ \A k \in Kinds : cut'[k] <= Len(msgs)
    <3>1. /\ cut \in [Kinds -> Nat] /\ Len(msgs) \in Nat
          /\ \A k \in Kinds : cut[k] <= Len(msgs)
      BY DEF TransferInv, SenderInv
    <3>. QED BY <2>2, <3>1 DEF Kinds
  <2>6. out.offset # 0 /\ ~Completes(out)
    <3>1. out.offset \in Nat /\ out.total \in Nat \ {0}
      BY <1>1, FreshFacts DEF FragOf, MessageType
    <3>. QED BY <1>4, <3>1 DEF IsEarlyTermination, Completes
  <2>. QED BY <1>1, <1>3, <2>2, <2>3, <2>4, <2>5, <2>6, NothingHanded, HandledInv
<1>5. CASE ~IsEarlyTermination(out)
  <2>1. /\ n \in 1..Len(msgs) /\ m \in MessageType /\ m.kind = "mfg"
        /\ out.tag = m.tag /\ out.total = m.len
        /\ Got(out) \in 0..m.len /\ Got(out) >= out.offset + Len(out.data)
        /\ out.offset \in Nat /\ Len(out.data) \in Nat
        /\ m.len <= MfgCap /\ DOMAIN buf \subseteq 0..(MfgCap - 1)
        /\ Holds(buf, n, Got(out))
        /\ cut["mfg"] < n /\ Latest(n)'
    BY <1>0, <1>5, MfgTakenFacts
  <2>2. /\ push.state = IF Got(out) = out.total THEN "COMPLETE" ELSE "IN_PROGRESS"
        /\ push.r.total = out.total /\ push.r.received = Got(out) /\ push.r.active
        /\ push.r.buf = buf /\ IsReasm(push.r)
    BY <1>2, <1>5, PushTaken
  <2>3. UNCHANGED cut
    BY <1>1, <2>2 DEF MfgTaken
  <2>4. FileInv'
    BY <1>1, <1>2, <2>3, FileUntouched
  <2>5. cut' \in [Kinds -> Nat] /\ \A k \in Kinds : cut'[k] <= Len(msgs)
    BY <2>3 DEF TransferInv, SenderInv
  <2>6. CASE Got(out) # out.total
    <3>1. mfg' = push.r /\ UNCHANGED delivered /\ Finish(cmd, Reply("ACK", "none"))
      BY <1>1, <2>2, <2>6 DEF MfgTaken, Ack
    <3>. HIDE DEF push
    <3>2. ~Completes(out)
      <4>1. m.len \in Nat
        BY <2>1 DEF MessageType
      <4>. QED BY <2>1, <2>6, <4>1 DEF Completes
    <3>3. /\ mfg'.total = m.len /\ mfg'.received = Got(out) /\ mfg'.buf = buf /\ mfg'.active
          /\ IsReasm(mfg')
      BY <2>1, <2>2, <3>1
    <3>. HIDE DEF buf
    <3>4. n \in 1..Len(msgs') /\ msgs'[n] = m /\ mfg_vendor' = m.tag
      BY <1>2, <1>3, <2>1
    <3>. HIDE DEF m
    <3>5. MfgAt(n)'
      BY <2>1, <2>3, <3>3, <3>4 DEF MfgAt
    <3>6. MfgInv'
      BY <1>2, <1>3, <2>1, <3>3, <3>4, <3>5 DEF MfgInv, IsReasm
    <3>. QED BY <1>1, <1>3, <2>3, <2>4, <2>5, <3>1, <3>2, <3>6, NothingHanded, HandledInv
  <2>7. CASE Got(out) = out.total
    <3>1. mfg' = ReasmReset(push.r) /\ Finish(cmd, AppReply(v))
      BY <1>1, <2>2, <2>7 DEF MfgTaken
    <3>2. MfgInv'
      <4>1. IsReasm(mfg') /\ ~mfg'.active /\ mfg'.buf = buf
        <5>. HIDE DEF push, buf
        <5>. QED BY <2>2, <3>1, ResetFields
      <4>. QED BY <2>1, <4>1 DEF MfgInv, IsReasm
    <3>3. PICK d \in Delivery :
              /\ delivered' = Append(delivered, d)
              /\ d.kind = msgs[n].kind /\ d.tag = msgs[n].tag
              /\ d.data = Body(n, msgs[n].len) /\ d.ok = (v = "OK")
      BY <1>0, <1>5, <2>7, MfgHanded
    <3>4. /\ delivered' \in Seq(Delivery) /\ WholeMessage' /\ Len(delivered) <= Len(delivered')
          /\ \A j \in 1..Len(delivered) : delivered'[j] = delivered[j]
          /\ d.ok => Delivered(n)'
      BY <1>3, <2>1, <3>3, HandedUp
    <3>5. PICK i, e : AppReply(v) = Reply(i, e) /\ (Success(Reply(i, e)) => v = "OK")
      BY DEF AppReply, Ack, Nak, NoRpl, Success, Reply
    <3>6. Success(Reply(i, e)) => Delivered(att[cur].id)'
      BY <1>0, <1>3, <3>3, <3>4, <3>5
    <3>7. Finish(cmd, Reply(i, e))
      BY <3>1, <3>5
    <3>. QED BY <1>1, <2>3, <2>4, <2>5, <3>2, <3>4, <3>6, <3>7, HandledInv
  <2>. QED BY <2>6, <2>7
<1>. QED BY <1>4, <1>5

-----------------------------------------------------------------------------
(* The theorems                                                            *)

LEMMA PdHandleInv == TransferInv /\ PdHandle => TransferInv'
  BY FileRefusedInv, FileTakenInv, MfgRefusedInv, MfgTakenInv, HandleAbortInv, HandlePollInv
  DEF PdHandle

LEMMA TransferStepInv == TransferInv /\ [TransferNext]_transferVars => TransferInv'
<1>. SUFFICES ASSUME TransferInv, [TransferNext]_transferVars PROVE TransferInv'
  OBVIOUS
<1>1. CASE TransferNext
  BY <1>1, StartInv, SendNextInv, PollInv, StrayBeginInv, StrayFragmentInv, StrayEndInv,
     StraySwitchInv, StrayResetSequenceInv, ResendInv, TakeReplyInv, LoseInv,
     PdRetransmitInv, PdGoOfflineInv, PdHandleInv, SetFileReceiverInv, SetMfgReceiverInv
  DEF TransferNext
<1>2. CASE UNCHANGED transferVars
  <2>1. UNCHANGED <<ctlVars, cmd, rpl, cacheVars, rxVars, msgs, delivered, finished, cut>>
    BY <1>2 DEF transferVars, histVars
  <2>. QED BY <2>1, DeliveryInv DEF cacheVars
<1>. QED BY <1>1, <1>2

\* The inductive invariant of long messages.
THEOREM TransferInvariant == TransferSpec => []TransferInv
  BY TransferInitInv, TransferStepInv, PTL DEF TransferSpec

\* No sequence of fragments, however they are repeated, skipped, cut short or
\* mixed up, makes osdp_mp_reasm_push or handle_filetransfer write past the
\* buffer the application gave them.
THEOREM BuffersNeverOverrun == TransferSpec => []BuffersBounded
<1>1. TransferInv => BuffersBounded
  <2>. SUFFICES ASSUME TransferInv PROVE BuffersBounded
    OBVIOUS
  <2>1. ASSUME mfg.active PROVE mfg.total <= MfgCap /\ mfg.received <= mfg.total
    <3>1. PICK n \in 1..Len(msgs) : MfgAt(n)
      BY <2>1 DEF TransferInv, MfgInv
    <3>2. msgs[n].len \in Nat
      BY MessageLength
    <3>. QED BY <3>1, <3>2 DEF MfgAt
  <2>2. ASSUME ft.active
        PROVE  ft.received <= ft.total /\ (file_mode = "reassembly" => ft.total <= FileCap)
    <3>1. PICK n \in 1..Len(msgs) : FileAt(n)
      BY <2>2 DEF TransferInv, FileInv
    <3>2. msgs[n].len \in Nat
      BY MessageLength
    <3>. QED BY <3>1, <3>2 DEF FileAt
  <2>. QED BY <2>1, <2>2 DEF TransferInv, MfgInv, FileInv, BuffersBounded
<1>. QED BY <1>1, TransferInvariant, PTL

\* What mfg_cb and file_cb are handed as complete is all of one attempt.
THEOREM MessagesWhole == TransferSpec => []WholeMessage
  BY TransferInvariant, PTL DEF TransferInv

\* An application that was told its message was taken is right.
THEOREM SenderNotMisled == TransferSpec => []FinishedIsDelivered
  BY TransferInvariant, PTL DEF TransferInv, FinishedInv

\* What was sent before an osdp_ABORT or a termination marker is not handed up
\* after it.
THEOREM AbortIsFinal == TransferSpec => AbortForgets
<1>. DEFINE Forgets == Len(delivered') > Len(delivered)
                        => LET d == delivered'[Len(delivered')]
                           IN  \A i \in 1..Len(d.data) : d.data[i].of > cut[d.kind]
<1>1. ASSUME TransferInv, NEW n \in 1..Len(msgs), NEW d, delivered' = Append(delivered, d),
             d \in Delivery, d.kind = msgs[n].kind, d.tag = msgs[n].tag,
             d.data = Body(n, msgs[n].len), cut[msgs[n].kind] < n, UNCHANGED msgs
      PROVE  Forgets
  <2>1. Len(delivered') \in Nat /\ delivered'[Len(delivered')] = d
    BY <1>1, HandedUp
  <2>2. msgs[n].len \in Nat /\ n \in Nat
    BY <1>1, MessageLength
  <2>3. \A i \in 1..Len(d.data) : d.data[i].of = n
    BY <1>1, <2>2, BodyShape, ByteFields
  <2>4. \A i \in 1..Len(d.data) : d.data[i].of > cut[d.kind]
    BY <1>1, <2>3
  <2>. QED BY <2>1, <2>4
<1>2. ASSUME TransferInv, NEW v, FileTaken(cmd, v) PROVE Forgets
  <2>1. PICK n : n = att[cur].id
    OBVIOUS
  <2>2. n \in 1..Len(msgs) /\ msgs[n].kind = "file" /\ cut["file"] < n
        /\ out.total = msgs[n].len
    BY <1>2, <2>1, FileTakenFacts
  <2>3. UNCHANGED msgs
    BY <1>2 DEF FileTaken, Finish
  <2>4. CASE FileAfter(out).received >= out.total
    <3>1. PICK d \in Delivery :
              /\ delivered' = Append(delivered, d)
              /\ d.kind = msgs[n].kind /\ d.tag = msgs[n].tag
              /\ d.data = Body(n, msgs[n].len)
      BY <1>2, <2>1, <2>4, FileHanded
    <3>. HIDE DEF Forgets
    <3>. QED BY <1>1, <1>2, <2>2, <2>3, <3>1
  <2>5. CASE ~(FileAfter(out).received >= out.total)
    <3>1. delivered' = delivered
      BY <1>2, <2>5, FreshFacts DEF FileTaken, FileAfter
    <3>. QED BY <1>2, <3>1 DEF TransferInv
  <2>. QED BY <2>4, <2>5
<1>3. ASSUME TransferInv, NEW v, MfgTaken(cmd, v) PROVE Forgets
  <2>1. PICK n : n = att[cur].id
    OBVIOUS
  <2>2. cmd = out /\ UNCHANGED msgs /\ ReasmPush(mfg, MfgCap, out).ok
    BY <1>3, FreshFacts DEF MfgTaken, Finish
  <2>3. CASE ~IsEarlyTermination(out) /\ Got(out) = out.total
    <3>1. n \in 1..Len(msgs) /\ msgs[n].kind = "mfg" /\ cut["mfg"] < n
      BY <1>3, <2>1, <2>3, MfgTakenFacts
    <3>2. PICK d \in Delivery :
              /\ delivered' = Append(delivered, d)
              /\ d.kind = msgs[n].kind /\ d.tag = msgs[n].tag
              /\ d.data = Body(n, msgs[n].len)
      BY <1>3, <2>1, <2>3, MfgHanded
    <3>. HIDE DEF Forgets
    <3>. QED BY <1>1, <1>3, <2>2, <3>1, <3>2
  <2>4. CASE IsEarlyTermination(out) \/ Got(out) # out.total
    <3>1. ReasmPush(mfg, MfgCap, out).state # "COMPLETE"
      <4>1. CASE IsEarlyTermination(out)
        BY <4>1 DEF ReasmPush
      <4>2. CASE ~IsEarlyTermination(out)
        BY <2>2, <2>4, <4>2, PushTaken
      <4>. QED BY <4>1, <4>2
    <3>2. delivered' = delivered
      BY <1>3, <2>2, <3>1 DEF MfgTaken
    <3>. QED BY <1>3, <3>2 DEF TransferInv
  <2>. QED BY <2>3, <2>4
<1>4. ASSUME TransferInv, TransferNext PROVE Forgets
  <2>1. \/ delivered' = delivered
        \/ \E v \in FileVerdicts : FileTaken(cmd, v)
        \/ \E v \in MfgVerdicts : MfgTaken(cmd, v)
    BY <1>4 DEF TransferNext, Start, SendNext, Poll, StrayBegin, StrayFragment, StrayEnd,
       StraySwitch, StrayResetSequence, Begin, Resend, TakeReply, Lose, PdRetransmit,
       PdGoOffline, PdHandle, FileRefused, MfgRefused, HandleAbort, HandlePoll,
       SetFileReceiver, SetMfgReceiver, histVars
  <2>2. CASE delivered' = delivered
    BY <1>4, <2>2 DEF TransferInv
  <2>. HIDE DEF Forgets
  <2>. QED BY <1>2, <1>3, <1>4, <2>1, <2>2
<1>5. TransferInv /\ [TransferNext]_transferVars => [Forgets]_transferVars
  <2>. HIDE DEF Forgets
  <2>. QED BY <1>4
<1>. QED BY <1>5, TransferInvariant, PTL DEF TransferSpec, AbortForgets

-----------------------------------------------------------------------------
(* A steady sender and a line that only loses frames                       *)

\* The PD has k bytes of the attempt the application is at.
PdAt(k) ==
    LET m == att[cur].msg
    IN  /\ m.kind = "mfg" => /\ mfg.active /\ mfg.total = m.len /\ mfg_vendor = m.tag
                             /\ mfg.received = k
        /\ m.kind = "file" => /\ ft.active /\ ft.total = m.len /\ ft.type = m.tag
                              /\ ft.received = k

\* A fragment of the attempt is outstanding: either the PD has not seen it and
\* is where the application is, or it has taken it and answers accordingly.
Ahead ==
    /\ rpl = NoRpl /\ ~(have_last /\ last_cmd = out)
    /\ att[cur].status = "going" => PdAt(att[cur].off)

Behind ==
    /\ have_last /\ Success(last_rpl)
    /\ last_cmd = out \/ (last_cmd = NoCmd /\ Len(out.data) > CmdCacheData)
    /\ rpl # NoRpl => Success(rpl)
    /\ out.offset + Len(out.data) < att[cur].msg.len => PdAt(out.offset + Len(out.data))

FragSteady ==
    /\ Intact(out)
    /\ \/ att[cur].status = "begun" /\ out.offset = 0
       \/ att[cur].status = "going" /\ out.offset = att[cur].off
    /\ ran \/ Ahead
    /\ ~ran \/ Behind

\* Nothing of the attempt that is still to be sent is in the cache.
CacheBehind ==
    have_last /\ last_cmd.is = "frag" /\ FragOf(last_cmd, att[cur].id, att[cur].msg)
        => last_cmd.offset < att[cur].off

Steady ==
    /\ file_mode # "none" /\ mfg_bound /\ Fits(att[cur].msg)
    /\ att[cur].status \in {"begun", "going", "done"}
    /\ waiting /\ out.is = "frag" => FragSteady
    /\ waiting /\ out.is # "frag" => out.is = "poll" /\ att[cur].status = "done"
    /\ ~waiting => /\ att[cur].status # "begun"
                   /\ att[cur].status = "going" => PdAt(att[cur].off) /\ CacheBehind

SteadyInv == clean /\ ~rerun => Steady

LEMMA StartSteady == TransferInv /\ Start => SteadyInv'
<1>. SUFFICES ASSUME TransferInv, Start, clean' PROVE Steady'
  BY DEF SteadyInv
<1>1. PICK m \in Messages[cur] : Fits(m) /\ Begin(m)
  BY DEF Start
<1>2. TransferInv' /\ Beginning(cur)' /\ att'[cur].msg = m /\ att'[cur].status = "begun"
  BY <1>1, BeginInv
<1>3. ran' = FALSE /\ cur' = cur /\ file_mode' # "none" /\ mfg_bound'
  BY <1>1 DEF Start, Begin, Transmit, rxVars
<1>4. /\ waiting' /\ out'.is = "frag" /\ out'.offset = 0 /\ rpl' = NoRpl
      /\ ~(have_last' /\ last_cmd' = out')
  BY <1>2 DEF Beginning
<1>5. FragOf(out', att'[cur].id, att'[cur].msg)
  BY <1>2, <1>3, <1>4 DEF TransferInv, FlightInv
<1>6. FragSteady'
  BY <1>2, <1>3, <1>4, <1>5 DEF FragSteady, Ahead, FragOf, Intact
<1>. QED BY <1>1, <1>2, <1>3, <1>4, <1>6 DEF Steady, Fits

LEMMA SendNextSteady == TransferInv /\ SteadyInv /\ SendNext => SteadyInv'
<1>. SUFFICES ASSUME TransferInv, Steady, SendNext PROVE Steady'
  BY DEF SteadyInv, SendNext
<1>. DEFINE a == att[cur]
            c == Build(a.msg, IterFragment(Body(a.id, a.msg.len), a.off, MaxFrag), "yes")
<1>1. /\ ~waiting /\ waiting' /\ out' = Sent(a.msg, a.id, a.off, "yes", next_seq)
      /\ UNCHANGED rpl /\ ran' = FALSE /\ a.status = "going"
      /\ UNCHANGED <<cur, att, cacheVars, rxVars>>
  BY DEF SendNext, Transmit, Current, Sent, Stamped
<1>2. /\ cur \in Apps /\ a.id \in Nat /\ a.id > 0 /\ a.off \in Nat
      /\ 0 < a.off /\ a.off < a.msg.len
  BY <1>1 DEF TransferInv, SenderInv, Attempt
<1>3. a.msg \in MessageType /\ a.msg.len \in Nat
  BY <1>2, AttemptFacts DEF TransferInv, MessageType
<1>4. /\ FragOf(out', a.id, a.msg) /\ out'.offset = a.off /\ out'.is = "frag" /\ Intact(out')
  <2>1. a.off \in 0..(a.msg.len - 1) /\ a.off # 0
    BY <1>2, <1>3
  <2>. HIDE DEF a
  <2>. QED BY <1>1, <1>3, <2>1, BuildFrag
<1>5. PdAt(a.off) /\ CacheBehind /\ rpl = NoRpl
  BY <1>1 DEF Steady, TransferInv, FlightInv
<1>6. ~(have_last' /\ last_cmd' = out')
  BY <1>1, <1>2, <1>4, <1>5 DEF CacheBehind, cacheVars
<1>7. PdAt(a.off)'
  BY <1>1, <1>5 DEF PdAt, rxVars
<1>8. FragSteady'
  <2>1. att'[cur'] = a /\ ~ran' /\ rpl' = NoRpl
    BY <1>1, <1>5
  <2>2. Intact(out)' /\ PdAt(att[cur].off)'
    BY <1>4, <1>7
  <2>3. a.status = "going" /\ out'.offset = a.off
    BY <1>1, <1>4
  <2>4. Ahead'
    BY <1>6, <2>1, <2>2 DEF Ahead
  <2>. HIDE DEF a
  <2>. QED BY <2>1, <2>2, <2>3, <2>4 DEF FragSteady
<1>. QED BY <1>1, <1>4, <1>8 DEF Steady, rxVars, Fits

LEMMA PollSteady == TransferInv /\ SteadyInv /\ Poll => SteadyInv'
<1>. SUFFICES ASSUME TransferInv, Steady, Poll PROVE Steady'
  BY DEF SteadyInv, Poll
<1>1. att[cur].status = "done" /\ UNCHANGED <<cur, att, rxVars>>
  BY DEF Poll, Steady
<1>2. waiting' /\ out'.is = "poll"
  BY DEF Poll, Transmit, Plain
<1>. QED BY <1>1, <1>2 DEF Steady, rxVars, Fits

\* Frames that are lost or sent again.
LEMMA LineSteady ==
    ASSUME SteadyInv, rpl' \in {rpl, NoRpl},
           UNCHANGED <<ctlVars, cacheVars, rxVars, msgs, clean, ran, rerun>>
    PROVE  SteadyInv'
<1>. SUFFICES ASSUME Steady PROVE Steady'
  BY DEF SteadyInv
<1>. USE DEF ctlVars, cacheVars, rxVars
<1>1. \A k : PdAt(k) => PdAt(k)'
  BY DEF PdAt
<1>2. waiting /\ out.is = "frag" => FragSteady'
  <2>1. (Ahead => Ahead') /\ (Behind => Behind')
    BY <1>1 DEF Ahead, Behind
  <2>. QED BY <2>1 DEF Steady, FragSteady
<1>3. CacheBehind => CacheBehind'
  BY DEF CacheBehind
<1>. QED BY <1>1, <1>2, <1>3 DEF Steady, Fits

LEMMA PdRetransmitSteady == TransferInv /\ SteadyInv /\ PdRetransmit => SteadyInv'
<1>. SUFFICES ASSUME TransferInv, Steady, PdRetransmit PROVE Steady'
  BY DEF SteadyInv, PdRetransmit, histVars
<1>. USE DEF ctlVars, cacheVars, rxVars, histVars
<1>1. /\ cmd # NoCmd /\ have_last /\ last_cmd = cmd /\ rpl' = last_rpl
      /\ UNCHANGED <<ctlVars, cacheVars, rxVars, ran>>
  BY DEF PdRetransmit, IsRetransmit, SendBytes
<1>2. cmd = out /\ waiting
  BY <1>1 DEF TransferInv, FlightInv
<1>3. \A k : PdAt(k) => PdAt(k)'
  BY <1>1 DEF PdAt
<1>4. out.is = "frag" => FragSteady'
  <2>1. ~Ahead /\ (Behind => Behind')
    BY <1>1, <1>2, <1>3 DEF Ahead, Behind
  <2>. QED BY <1>1, <1>2, <2>1 DEF Steady, FragSteady
<1>. QED BY <1>1, <1>2, <1>4 DEF Steady, Fits

LEMMA TakeReplySteady == TransferInv /\ SteadyInv /\ TakeReply => SteadyInv'
<1>. SUFFICES ASSUME TransferInv, Steady, TakeReply PROVE Steady'
  <2>1. TakeReply => UNCHANGED <<clean, rerun>>
    BY DEF TakeReply
  <2>. QED BY <2>1 DEF SteadyInv
<1>. USE DEF cacheVars, rxVars
<1>1. /\ rpl # NoRpl /\ rpl' = NoRpl /\ UNCHANGED <<cur, cacheVars, rxVars, ran>>
  BY DEF TakeReply
<1>2. waiting
  BY <1>1 DEF TransferInv, FlightInv
<1>3. CASE UNCHANGED <<waiting, att, out>>
  <2>1. \A k : PdAt(k) => PdAt(k)'
    BY <1>1, <1>3 DEF PdAt
  <2>2. out.is = "frag" => FragSteady'
    <3>1. ~Ahead /\ (Behind => Behind')
      BY <1>1, <1>3, <2>1 DEF Ahead, Behind
    <3>. QED BY <1>1, <1>2, <1>3, <3>1 DEF Steady, FragSteady
  <2>. QED BY <1>1, <1>2, <1>3, <2>2 DEF Steady, Fits
<1>4. CASE waiting' = FALSE /\ att' = [att EXCEPT ![cur] = Answered(att[cur], out, rpl)]
  <2>. DEFINE a == att[cur]
              r == Answered(att[cur], out, rpl)
  <2>0. /\ cur \in Apps /\ a \in Attempt /\ r.id = a.id /\ r.msg = a.msg
    BY <1>1, <1>2, AnsweredFacts DEF TransferInv, SenderInv
  <2>1. att'[cur] = r
    BY <1>4 DEF TransferInv, SenderInv
  <2>2. CASE out.is # "frag"
    <3>1. r = a /\ a.status = "done"
      BY <1>2, <2>2 DEF Answered, Steady
    <3>. QED BY <1>1, <1>4, <2>1, <3>1 DEF Steady, Fits
  <2>3. CASE out.is = "frag"
    <3>. DEFINE end == out.offset + Len(out.data)
    <3>1. Behind /\ Success(rpl) /\ Intact(out)
      <4>1. FragSteady /\ ~Ahead
        BY <1>1, <1>2, <2>3 DEF Steady, Ahead
      <4>2. Behind /\ Intact(out)
        BY <4>1 DEF FragSteady
      <4>. QED BY <1>1, <4>2 DEF Behind
    <3>2. /\ a.id > 0 /\ FragOf(out, a.id, a.msg)
      BY <1>2, <2>3 DEF TransferInv, FlightInv
    <3>3. a.msg \in MessageType /\ a.msg.len \in Nat
      BY <2>0, <3>2, AttemptFacts DEF TransferInv, MessageType
    <3>4. out.offset \in Nat /\ Len(out.data) \in Nat /\ end \in Nat /\ out.offset < end
      BY <3>1, <3>2 DEF FragOf, Intact
    <3>5. IterAtEnd(Current, end) <=> end >= a.msg.len
      BY <3>3, BodyShape DEF IterAtEnd, Current
    <3>6. r = [a EXCEPT !.off = end, !.status = IF end >= a.msg.len THEN "done" ELSE "going"]
      <4>1. ~IsEarlyTermination(out)
        BY <3>1, <3>4 DEF IsEarlyTermination, Intact
      <4>. QED BY <2>3, <3>1, <3>5, <4>1 DEF Answered, Success
    <3>7. r.off = end /\ r.status = IF end >= a.msg.len THEN "done" ELSE "going"
      <4>1. a = [id |-> a.id, msg |-> a.msg, off |-> a.off, status |-> a.status]
        BY <2>0 DEF Attempt
      <4>. HIDE DEF a, r, end
      <4>. QED BY <3>6, <4>1
    <3>. HIDE DEF r
    <3>8. end < a.msg.len => PdAt(att[cur].off)'
      <4>1. end < a.msg.len => PdAt(end)
        BY <3>1 DEF Behind
      <4>2. att'[cur'].off = end /\ att'[cur'].msg = a.msg
        BY <1>1, <2>0, <2>1, <3>7
      <4>3. SUFFICES ASSUME NEW k, k = end, PdAt(k) PROVE PdAt(k)'
        BY <4>1, <4>2, <4>3 DEF PdAt
      <4>. QED BY <1>1, <4>2, <4>3 DEF PdAt
    <3>9. CacheBehind'
      <4>1. last_cmd \in {NoCmd, out}
        BY <3>1 DEF Behind
      <4>. QED BY <1>1, <2>1, <3>4, <3>7, <4>1 DEF CacheBehind, NoCmd, Plain
    <3>. QED BY <1>1, <1>4, <2>0, <2>1, <3>3, <3>4, <3>7, <3>8, <3>9 DEF Steady, Fits
  <2>. QED BY <2>2, <2>3
<1>. QED BY <1>3, <1>4 DEF TakeReply

\* A fragment is not carried out twice unless it is marked as such.
LEMMA NotSeenYet ==
    ASSUME TransferInv, Steady, Fresh(cmd), NEW r, Finish(cmd, r), ~rerun', out.is = "frag"
    PROVE  Ahead /\ FragSteady /\ Intact(out)
<1>1. cmd = out /\ waiting
  BY FreshFacts
<1>2. FragSteady
  BY <1>1 DEF Steady
<1>3. ASSUME ran PROVE FALSE
  <2>1. Behind
    BY <1>2, <1>3 DEF FragSteady
  <2>2. out # NoCmd
    BY DEF NoCmd, Plain
  <2>3. out.sqn = 0 \/ Len(out.data) > CmdCacheData
    BY <1>1, <2>1, <2>2 DEF Behind, Fresh, IsRetransmit
  <2>4. rerun' = (rerun \/ (ran /\ (out.sqn = 0 \/ Len(out.data) > CmdCacheData)))
    BY <1>1 DEF Finish
  <2>. QED BY <1>3, <2>3, <2>4
<1>. QED BY <1>2, <1>3 DEF FragSteady

\* A fragment that was taken and answered so.
LEMMA HandledSteady ==
    ASSUME TransferInv, Steady, Fresh(cmd), NEW i, NEW d, Finish(cmd, Reply(i, d)),
           out.is = "frag", Success(Reply(i, d)), ~rerun',
           out.offset + Len(out.data) < att[cur].msg.len => PdAt(out.offset + Len(out.data))'
    PROVE  Steady'
<1>. USE DEF ctlVars
<1>1. cmd = out /\ waiting /\ FragSteady
  BY FreshFacts, NotSeenYet
<1>2. /\ UNCHANGED <<ctlVars, file_mode, mfg_bound>> /\ ran' = TRUE
  BY DEF Finish
<1>3. rpl' = [Reply(i, d) EXCEPT !.sqn = out.sqn]
  BY <1>1 DEF Finish, Success, SendBytes
<1>4. Success(rpl')
  BY <1>3 DEF Success, Reply, NoRpl
<1>5. Reply(i, d).is # "BUSY"
  BY DEF Success
<1>6. /\ have_last' = TRUE /\ last_rpl' = rpl'
      /\ last_cmd' = IF Len(out.data) > CmdCacheData THEN NoCmd ELSE out
  BY <1>1, <1>5 DEF Finish, SendBytes
<1>7. Behind'
  BY <1>2, <1>4, <1>6 DEF Behind
<1>8. FragSteady'
  BY <1>1, <1>2, <1>7 DEF FragSteady
<1>. QED BY <1>1, <1>2, <1>8 DEF Steady, Fits

LEMMA FileHandledSteady ==
    ASSUME TransferInv, Steady, ~rerun', clean',
           FileRefused(cmd) \/ \E v \in FileVerdicts : FileTaken(cmd, v)
    PROVE  Steady'
<1>. DEFINE m == att[cur].msg
<1>1. Fresh(cmd) /\ cmd.is = "frag" /\ cmd.kind = "file" /\ \E r : Finish(cmd, r)
  BY DEF FileRefused, FileTaken
<1>2. cmd = out /\ att[cur].id > 0 /\ FragOf(out, att[cur].id, m) /\ m \in MessageType
  BY <1>1, FreshFacts
<1>3. Ahead /\ FragSteady /\ Intact(out)
  BY <1>1, <1>2, NotSeenYet
<1>4. /\ out.kind = "file" /\ m.kind = "file" /\ out.tag = m.tag /\ out.total = m.len
      /\ out.offset \in Nat /\ Len(out.data) \in Nat /\ out.offset + Len(out.data) <= m.len
      /\ m.len \in Nat
  BY <1>1, <1>2 DEF FragOf, MessageType
<1>5. m.len <= FileCap
  BY <1>4 DEF Steady, Fits
<1>6. out.offset # 0 => /\ ft.active /\ ft.received = out.offset
                        /\ out.tag = ft.type /\ out.total = ft.total
  BY <1>3, <1>4 DEF FragSteady, Ahead, PdAt
<1>7. FiletransferDecodes(out)
  BY <1>3 DEF FiletransferDecodes, Intact
<1>8. FileInSequence(out)
  <2>1. out.offset + Len(out.data) <= FileCap
    BY <1>4, <1>5, TransferAssumption
  <2>. QED BY <1>4, <1>5, <1>6, <2>1 DEF FileInSequence
<1>9. ~FileRefused(cmd)
  BY <1>2, <1>7, <1>8 DEF FileRefused, Steady
<1>10. PICK v \in FileVerdicts : FileTaken(cmd, v)
  BY <1>9
<1>11. v = "OK"
  BY <1>10 DEF FileTaken, Verdict
<1>. DEFINE got == FileAfter(out).received
            complete == got >= out.total
<1>12. got = out.offset + Len(out.data) /\ FileAfter(out).total = out.total
  BY <1>4, <1>6 DEF FileAfter
<1>13. /\ Finish(cmd, Reply("FTSTAT", FileStatus(v, complete)))
       /\ ft' = [FileAfter(out) EXCEPT !.active = v = "OK" /\ ~complete]
  BY <1>2, <1>10, <1>12 DEF FileTaken
<1>14. Success(Reply("FTSTAT", FileStatus(v, complete)))
  BY <1>11 DEF Success, Reply, NoRpl, FileStatus
<1>15. ft' = [active |-> ~complete, type |-> out.tag, total |-> out.total, received |-> got]
  BY <1>11, <1>13 DEF FileAfter
<1>. HIDE DEF got, complete
<1>16. ASSUME out.offset + Len(out.data) < m.len PROVE PdAt(out.offset + Len(out.data))'
  <2>1. ~complete
    BY <1>4, <1>12, <1>16 DEF complete
  <2>2. ft'.active /\ ft'.type = m.tag /\ ft'.total = m.len /\ ft'.received = got
    BY <1>4, <1>15, <2>1
  <2>3. UNCHANGED <<att, cur, out>>
    BY <1>13 DEF Finish, ctlVars
  <2>. QED BY <1>4, <1>12, <2>2, <2>3 DEF PdAt
<1>. QED BY <1>1, <1>2, <1>13, <1>14, <1>16, HandledSteady

LEMMA MfgHandledSteady ==
    ASSUME TransferInv, Steady, ~rerun', clean',
           MfgRefused(cmd) \/ \E v \in MfgVerdicts : MfgTaken(cmd, v)
    PROVE  Steady'
<1>. DEFINE m == att[cur].msg
            push == ReasmPush(mfg, MfgCap, out)
<1>1. Fresh(cmd) /\ cmd.is = "frag" /\ cmd.kind = "mfg" /\ \E r : Finish(cmd, r)
  BY DEF MfgRefused, MfgTaken
<1>2. cmd = out /\ att[cur].id > 0 /\ FragOf(out, att[cur].id, m) /\ m \in MessageType
  BY <1>1, FreshFacts
<1>3. Ahead /\ FragSteady /\ Intact(out)
  BY <1>1, <1>2, NotSeenYet
<1>4. /\ out.kind = "mfg" /\ m.kind = "mfg" /\ out.tag = m.tag /\ out.total = m.len
      /\ out.offset \in Nat /\ Len(out.data) \in Nat /\ out.offset + Len(out.data) <= m.len
      /\ m.len \in Nat \ {0}
  BY <1>1, <1>2 DEF FragOf, MessageType
<1>5. m.len <= MfgCap
  BY <1>4 DEF Steady, Fits
<1>6. out.offset # 0 => /\ mfg.active /\ mfg.received = out.offset
                        /\ out.tag = mfg_vendor /\ out.total = mfg.total
  BY <1>3, <1>4 DEF FragSteady, Ahead, PdAt
<1>7. ~IsEarlyTermination(out) /\ FragmentDecodes(out) /\ out.whole # "header"
  BY <1>3, <1>4 DEF FragmentDecodes, Intact, IsEarlyTermination
<1>8. VendorMatches(out)
  BY <1>6 DEF VendorMatches
<1>9. push.ok
  <2>1. ~PushRefused(mfg, MfgCap, out)
    BY <1>4, <1>5, <1>6, TransferAssumption DEF PushRefused
  <2>. QED BY <1>7, <2>1 DEF ReasmPush
<1>10. ~MfgRefused(cmd)
  BY <1>2, <1>7, <1>8, <1>9 DEF MfgRefused, Steady
<1>11. PICK v \in MfgVerdicts : MfgTaken(cmd, v)
  BY <1>10
<1>12. Got(out) = out.offset + Len(out.data)
  BY <1>4, <1>6 DEF Got, Had
<1>13. /\ push.state = IF Got(out) = out.total THEN "COMPLETE" ELSE "IN_PROGRESS"
       /\ push.r.total = out.total /\ push.r.received = Got(out) /\ push.r.active
  BY <1>7, <1>9, PushTaken
<1>14. Success(Reply("ACK", "none"))
  BY DEF Success, Reply, NoRpl
<1>15. CASE Got(out) = out.total
  <2>1. Verdict(v) /\ Finish(cmd, AppReply(v))
    BY <1>2, <1>11, <1>13, <1>15 DEF MfgTaken
  <2>2. v = "OK"
    BY <2>1 DEF Verdict
  <2>3. Finish(cmd, Reply("ACK", "none"))
    BY <2>1, <2>2 DEF AppReply, Ack
  <2>4. ~(out.offset + Len(out.data) < m.len)
    BY <1>4, <1>12, <1>15
  <2>. QED BY <1>1, <1>2, <1>14, <2>3, <2>4, HandledSteady
<1>16. CASE Got(out) # out.total
  <2>1. mfg' = push.r /\ mfg_vendor' = out.tag /\ Finish(cmd, Reply("ACK", "none"))
    BY <1>2, <1>11, <1>13, <1>16 DEF MfgTaken, Ack
  <2>2. mfg'.active /\ mfg'.total = m.len /\ mfg'.received = Got(out)
    BY <1>4, <1>13, <2>1
  <2>3. UNCHANGED <<att, cur, out>>
    BY <2>1 DEF Finish, ctlVars
  <2>4. PdAt(out.offset + Len(out.data))'
    BY <1>4, <1>12, <2>1, <2>2, <2>3 DEF PdAt
  <2>. QED BY <1>1, <1>2, <1>14, <2>1, <2>4, HandledSteady
<1>. QED BY <1>15, <1>16

LEMMA PdHandleSteady == TransferInv /\ SteadyInv /\ PdHandle => SteadyInv'
<1>. SUFFICES ASSUME TransferInv, SteadyInv, PdHandle, clean', ~rerun' PROVE Steady'
  BY DEF SteadyInv
<1>1. Fresh(cmd) /\ \E r : Finish(cmd, r)
  BY DEF PdHandle, FileRefused, FileTaken, MfgRefused, MfgTaken, HandleAbort, HandlePoll
<1>2. ~rerun
  BY <1>1 DEF Finish
<1>3. clean
  BY DEF PdHandle, FileRefused, FileTaken, MfgRefused, MfgTaken, HandleAbort, HandlePoll,
         Verdict
<1>4. Steady
  BY <1>2, <1>3 DEF SteadyInv
<1>5. ASSUME NEW v, HandleAbort(cmd, v) PROVE Steady'
  BY <1>1, <1>4, <1>5, FreshFacts DEF HandleAbort, Steady
<1>6. CASE HandlePoll(cmd)
  <2>1. cmd = out /\ waiting /\ out.is = "poll"
    BY <1>1, <1>6, FreshFacts DEF HandlePoll
  <2>2. UNCHANGED <<ctlVars, file_mode, mfg_bound>>
    BY <1>6 DEF HandlePoll, Finish
  <2>. QED BY <1>4, <2>1, <2>2 DEF Steady, Fits, ctlVars
<1>. QED BY <1>4, <1>5, <1>6, FileHandledSteady, MfgHandledSteady DEF PdHandle

LEMMA SteadyStepInv ==
    TransferInv /\ SteadyInv /\ [TransferNext]_transferVars => SteadyInv'
<1>. SUFFICES ASSUME TransferInv, SteadyInv, [TransferNext]_transferVars PROVE SteadyInv'
  OBVIOUS
<1>. USE DEF ctlVars, cacheVars, rxVars, histVars
<1>1. CASE Stray \/ PdGoOffline
  BY <1>1 DEF Stray, PdGoOffline, SteadyInv
<1>2. CASE StrayBegin \/ StrayFragment \/ StrayEnd \/ StraySwitch \/ StrayResetSequence
  BY <1>1, <1>2 DEF StrayBegin, StrayFragment, StrayEnd, StraySwitch, StrayResetSequence
<1>3. CASE \/ \E mode \in {"none", "reassembly", "streaming"} : SetFileReceiver(mode)
           \/ \E bound \in BOOLEAN : SetMfgReceiver(bound)
  BY <1>1, <1>3 DEF SetFileReceiver, SetMfgReceiver
<1>4. CASE Resend
  BY <1>4, LineSteady DEF Resend
<1>5. CASE Lose
  BY <1>5, LineSteady DEF Lose
<1>6. CASE UNCHANGED transferVars
  BY <1>6, LineSteady DEF transferVars
<1>. QED BY <1>1, <1>2, <1>3, <1>4, <1>5, <1>6, StartSteady, SendNextSteady, PollSteady,
            TakeReplySteady, PdRetransmitSteady, PdHandleSteady DEF TransferNext

\* Lost commands and lost answers alone never make the PD refuse a message: the
\* retransmit cache keeps a repeated fragment away from handlers that would
\* take it for one out of sequence.
THEOREM LossIsHarmless == TransferSpec => []LossHarmless
<1>1. TransferInit => SteadyInv
  BY DEF TransferInit, SteadyInv
<1>2. SteadyInv => LossHarmless
  BY DEF SteadyInv, Steady, LossHarmless
<1>. QED BY <1>1, <1>2, TransferInvariant, SteadyStepInv, PTL DEF TransferSpec
=============================================================================
