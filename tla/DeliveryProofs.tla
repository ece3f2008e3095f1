--------------------------- MODULE DeliveryProofs ---------------------------
(***************************************************************************)
(* What becomes of a command and its retries, for every value of the       *)
(* constants of Link: it is carried out at most once, a PD that moves says *)
(* so at the address it leaves, a command has one answer, without a Secure *)
(* Channel the two ends implement the abstract command service Rpc, and a  *)
(* command is displaced only after a challenge was given up.               *)
(***************************************************************************)
EXTENDS LinkProofs

-----------------------------------------------------------------------------
(* At most once.                                                           *)

\* The frames of one command instance are the same bytes, and stay together on
\* the line: once another frame was sent, an instance is not repeated.
SameInstance(line, t) ==
    /\ \A i, j \in 1..Len(line) :
          line[i].id = line[j].id /\ line[i].id # 0 => SameButBad(line[i], line[j])
    /\ \A j \in 1..Len(line) : line[j].id = t.id /\ t.id # 0 => SameButBad(line[j], t)

Together(line, t) ==
    /\ \A i, j, k \in 1..Len(line) :
          i < j /\ j < k /\ line[i].id = line[k].id /\ line[i].id # 0
              => line[j].id = line[i].id
    /\ \A i, j \in 1..Len(line) :
          i < j /\ line[i].id = t.id /\ t.id # 0 => line[j].id = t.id

\* c holds the command that f is a copy of.
Recognises(c, f) == c # NoCache /\ c.cmd.sqn # 0 /\ SameButBad(f, c.cmd)

\* The cache will recognise every copy of instance n that is on the line or
\* still to be sent, because nothing else reaches the PD before it.
Protected(n, line, t, c) ==
    /\ \A j \in 1..Len(line) :
          line[j].id = n => /\ Recognises(c, line[j])
                            /\ \A k \in 1..Len(line) : k < j => line[k].id = n
    /\ t.id = n => Recognises(c, t) /\ \A k \in 1..Len(line) : line[k].id = n

CachedCmd(c) == c # NoCache => IsFrame(c.cmd) /\ c.cmd.bad = FALSE

OnceInv ==
    /\ runs \in [1..MaxIds -> Nat]
    /\ \A i \in 1..MaxIds : runs[i] > 0 => i <= Len(log)
    /\ SameInstance(toPd, tx) /\ Together(toPd, tx)
    /\ \A i \in 1..MaxIds : runs[i] > 0 /\ i \notin excused => Protected(i, toPd, tx, cache)
    /\ CachedCmd(cache)
    /\ AtMostOnce

\* How a fresh command f changes what was run, what is excused and the cache.
Carries(f) ==
    /\ f.scs \in {"NONE", "SCS_CMD"}
    /\ excused' = excused \/ excused' = excused \cup {f.id}
    /\ runs' = runs \/ runs' = [runs EXCEPT ![f.id] = runs[f.id] + 1]
    /\ runs' # runs => \/ f.id \in excused'
                       \/ f.sqn # 0 /\ cache' # NoCache

PdCarries(f) ==
    /\ ~f.bad /\ ~IsRetransmit(f) /\ Ours(f)
    /\ cache' # NoCache => cache'.cmd = f
    /\ UNCHANGED <<runs, excused>> \/ Carries(f)

LEMMA RefuseCarries ==
    ASSUME NEW f, NEW reply, NEW fits, NEW wr, Refuse(f, reply, fits, wr)
    PROVE  cache'.cmd = f /\ UNCHANGED <<runs, excused>>
BY DEF Refuse, Answer, CacheReply, runVars

\* The handler that says "busy" has not run.
LEMMA BusyIsNoRun ==
    ASSUME NEW f, NEW v \in Verdicts, NEW eff, f.code # "COMSET", Dispatch(f, v, eff).kind = "BUSY"
    PROVE  v = "BUSY"
<1>1. v \in {"OK", "NOT_SUPPORTED", "BAD_PAYLOAD", "INVALID_ARG", "BUSY", "OTHER"}
  BY VerdictsAssumption
<1>2. Outcome(v).kind = "BUSY" => v = "BUSY"
  BY <1>1 DEF Outcome
<1> QED
  BY <1>2 DEF Dispatch

LEMMA DispatchedCarries ==
    ASSUME NEW f, NEW v \in Verdicts, NEW eff, NEW reply, NEW fits, NEW wr,
           f.scs \in {"NONE", "SCS_CMD"}, Dispatched(f, v, eff, reply, fits, wr)
    PROVE  Carries(f) /\ (cache' # NoCache => cache'.cmd = f)
<1>1. /\ excused' = IF f.sqn = 0 \/ f.code = "COMSET" THEN excused \cup {f.id} ELSE excused
      /\ runs' = runs \/ (v # "BUSY" /\ runs' = [runs EXCEPT ![f.id] = runs[f.id] + 1])
  BY DEF Dispatched, RecordRun
<1>2. cache' # NoCache => cache'.cmd = f
  BY DEF Dispatched, CacheReply
<1>3. CASE f.code = "COMSET"
  BY <1>1, <1>2, <1>3 DEF Carries
<1>4. CASE f.code # "COMSET" /\ v = "BUSY"
  BY <1>1, <1>2, <1>4 DEF Carries
<1>5. CASE f.code # "COMSET" /\ v # "BUSY"
  <2>1. Dispatch(f, v, eff).kind # "BUSY"
    BY <1>5, BusyIsNoRun
  <2>2. CacheReply(f, reply, fits)
    BY <1>5, <2>1 DEF Dispatched
  <2>3. cache' # NoCache
    BY <2>2 DEF CacheReply, NoCache
  <2> QED
    BY <1>1, <1>2, <1>5, <2>3 DEF Carries
<1> QED
  BY <1>3, <1>4, <1>5, <1>2

LEMMA PdFreshCarries ==
    ASSUME NEW v \in Verdicts, NEW fits, NEW wr, PdFresh(v, fits, wr)
    PROVE  PdCarries(Head(toPd))
<1> DEFINE f == Head(toPd)
<1>0. ~f.bad /\ ~IsRetransmit(f) /\ Ours(f)
  BY DEF PdFresh
<1>1. \/ \E reply : Refuse(f, reply, fits, wr)
      \/ \E eff : f.scs = "NONE" /\ HandleClear(f, v, eff, fits, wr)
      \/ HandleChlng(f, fits, wr)
      \/ HandleScrypt(f, fits, wr)
      \/ \E eff : f.scs = "SCS_CMD" /\ HandleOperational(f, v, eff, fits, wr)
  BY DEF PdFresh
<1>2. \A reply : Refuse(f, reply, fits, wr) => PdCarries(f)
  BY <1>0, RefuseCarries DEF PdCarries
<1>3. ASSUME f.scs \in {"NONE", "SCS_CMD"}
      PROVE  \A eff, reply :
                Dispatched(f, v, eff, reply, fits, wr) => PdCarries(f)
  BY <1>0, <1>3, DispatchedCarries DEF PdCarries
<1>4. ASSUME NEW eff, f.scs = "NONE", HandleClear(f, v, eff, fits, wr)
      PROVE  PdCarries(f)
  <2> DEFINE out == Dispatch(f, v, eff)
             r   == CASE out.kind = "SEND" -> BuildReply(f, out.code, out.data)
                      [] out.kind = "BUSY" -> BuildBusy(f)
                      [] out.kind = "DROP" -> NoReply
  <2>1. Refuse(f, BuildNak(f, NakEncryption), fits, wr) \/ Dispatched(f, v, eff, r, fits, wr)
    BY <1>4, Zenon DEF HandleClear
  <2>2. f.scs \in {"NONE", "SCS_CMD"}
    BY <1>4
  <2> HIDE DEF r, f
  <2> QED
    BY <2>1, <2>2, <1>2, <1>3
<1>5. CASE HandleChlng(f, fits, wr) \/ HandleScrypt(f, fits, wr)
  <2>1. \E reply : Refuse(f, reply, fits, wr)
    BY <1>5 DEF HandleChlng, HandleScrypt
  <2> QED
    BY <2>1, <1>2
<1>6. ASSUME NEW eff, f.scs = "SCS_CMD", HandleOperational(f, v, eff, fits, wr)
      PROVE  PdCarries(f)
  <2> DEFINE inner == AfterUnwrap(pd_session, f)
             out   == Dispatch(f, v, eff)
             plain == Frame(f.addr, f.sqn, "SCS_REPLY", 0, out.code, out.data, f.id)
  <2>1. Dispatch(f, v, eff).kind \in {"SEND", "BUSY", "DROP"}
    BY DispatchKind
  <2>2. \/ Refuse(f, BuildNak(f, NakScb), fits, wr) \/ Refuse(f, NoReply, fits, wr)
        \/ Dispatched(f, v, eff, Wrap(inner, plain), fits, wr)
        \/ Dispatched(f, v, eff, BuildBusy(f), fits, wr)
        \/ Dispatched(f, v, eff, NoReply, fits, wr)
    BY <1>6, <2>1 DEF HandleOperational
  <2>3. f.scs \in {"NONE", "SCS_CMD"}
    BY <1>6
  <2> HIDE DEF inner, plain, f
  <2> QED
    BY <2>2, <2>3, <1>2, <1>3
<1> QED
  BY <1>1, <1>2, <1>4, <1>5, <1>6

-----------------------------------------------------------------------------
(* What a step may do to the line without touching the instances on it.    *)

\* Frames leave the line at its head, or are corrupted on it.
Follows(new, old) ==
    \E d \in {0, 1} : \A j \in 1..Len(new) :
        j + d \in 1..Len(old) /\ SameButBad(new[j], old[j + d])

LEMMA FollowsCases ==
    ASSUME NEW s, IsSeq(s), \A j \in 1..Len(s) : IsFrame(s[j])
    PROVE  /\ Follows(s, s)
           /\ s # <<>> => Follows(Tail(s), s)
           /\ s # <<>> => Follows(<<[Head(s) EXCEPT !.bad = TRUE]>> \o Tail(s), s)
<1>0. Len(s) \in Nat
  BY DEF IsSeq
<1>1. Follows(s, s)
  <2>1. \A j \in 1..Len(s) : j + 0 \in 1..Len(s) /\ SameButBad(s[j], s[j + 0])
    BY <1>0 DEF SameButBad
  <2> QED
    BY <2>1 DEF Follows
<1>2. ASSUME s # <<>> PROVE Follows(Tail(s), s)
  <2>1. \A j \in 1..Len(Tail(s)) : j + 1 \in 1..Len(s) /\ SameButBad(Tail(s)[j], s[j + 1])
    BY <1>2, Taken DEF SameButBad
  <2> QED
    BY <2>1 DEF Follows
<1>3. ASSUME s # <<>> PROVE Follows(<<[Head(s) EXCEPT !.bad = TRUE]>> \o Tail(s), s)
  <2> DEFINE x == [Head(s) EXCEPT !.bad = TRUE]
             t == <<x>> \o Tail(s)
  <2>1. Head(s) = s[1] /\ 1 \in 1..Len(s)
    BY <1>3, Taken
  <2>2. SameButBad(x, s[1])
    BY <2>1, Corrupted DEF SameButBad
  <2> HIDE DEF x
  <2>3. Len(t) = Len(s) /\ t[1] = x /\ \A j \in 2..Len(s) : t[j] = s[j]
    BY <1>3, Replaced
  <2> HIDE DEF t
  <2>4. ASSUME NEW j \in 1..Len(t) PROVE j + 0 \in 1..Len(s) /\ SameButBad(t[j], s[j + 0])
    <3>1. j + 0 = j /\ j \in 1..Len(s)
      BY <2>3, <1>0
    <3>2. CASE j = 1
      BY <3>1, <3>2, <2>2, <2>3
    <3>3. CASE j # 1
      BY <3>1, <3>3, <2>3, <1>0 DEF SameButBad
    <3> QED
      BY <3>2, <3>3
  <2> QED
    BY <2>4 DEF Follows, t, x
<1> QED
  BY <1>1, <1>2, <1>3

LEMMA WireFollows ==
    ASSUME LineInv, WireNext
    PROVE  Follows(toPd', toPd) /\ Follows(toAcu', toAcu)
<1>1. /\ toPd' = toPd \/ (toPd # <<>> /\ toPd' = Tail(toPd))
         \/ (toPd # <<>> /\ toPd' = <<[Head(toPd) EXCEPT !.bad = TRUE]>> \o Tail(toPd))
      /\ toAcu' = toAcu \/ (toAcu # <<>> /\ toAcu' = Tail(toAcu))
         \/ (toAcu # <<>> /\ toAcu' = <<[Head(toAcu) EXCEPT !.bad = TRUE]>> \o Tail(toAcu))
  BY DEF WireNext, Lose, Corrupt
<1>2. IsSeq(toPd) /\ \A j \in 1..Len(toPd) : IsFrame(toPd[j])
  BY DEF LineInv
<1>3. IsSeq(toAcu) /\ \A j \in 1..Len(toAcu) : IsFrame(toAcu[j])
  BY DEF LineInv
<1>4. Follows(toPd', toPd)
  BY <1>1, <1>2, FollowsCases, Zenon
<1>5. Follows(toAcu', toAcu)
  BY <1>1, <1>3, FollowsCases, Zenon
<1> QED
  BY <1>4, <1>5

LEMMA InstancesFollow ==
    ASSUME NEW line, NEW new, NEW t, Follows(new, line), SameInstance(line, t), Together(line, t)
    PROVE  /\ SameInstance(new, t) /\ Together(new, t)
           /\ \A n, c : Protected(n, line, t, c) => Protected(n, new, t, c)
<1> PICK d \in {0, 1} : \A j \in 1..Len(new) :
            j + d \in 1..Len(line) /\ SameButBad(new[j], line[j + d])
  BY DEF Follows
<1>1. \A j \in 1..Len(new) : new[j].id = line[j + d].id
  BY DEF SameButBad
<1>2. \A i, j \in 1..Len(new) : i < j => i + d < j + d
  OBVIOUS
<1>3. \A x, y, z, w : SameButBad(x, y) /\ SameButBad(z, w) /\ SameButBad(y, w) => SameButBad(x, z)
  BY DEF SameButBad
<1>4. \A x, y, z : SameButBad(x, y) /\ SameButBad(y, z) => SameButBad(x, z)
  BY DEF SameButBad
<1>5. SameInstance(new, t)
  <2>1. ASSUME NEW i \in 1..Len(new), NEW j \in 1..Len(new), new[i].id = new[j].id, new[i].id # 0
        PROVE  SameButBad(new[i], new[j])
    <3>1. SameButBad(line[i + d], line[j + d])
      BY <2>1, <1>1 DEF SameInstance
    <3> QED
      BY <3>1, <1>3
  <2>2. ASSUME NEW j \in 1..Len(new), new[j].id = t.id, t.id # 0
        PROVE  SameButBad(new[j], t)
    <3>1. SameButBad(line[j + d], t)
      BY <2>2, <1>1 DEF SameInstance
    <3> QED
      BY <3>1, <1>4
  <2> QED
    BY <2>1, <2>2 DEF SameInstance
<1>6. Together(new, t)
  <2>1. ASSUME NEW i \in 1..Len(new), NEW j \in 1..Len(new), NEW k \in 1..Len(new),
               i < j, j < k, new[i].id = new[k].id, new[i].id # 0
        PROVE  new[j].id = new[i].id
    <3>1. i + d < j + d /\ j + d < k + d
      BY <2>1, <1>2
    <3>2. line[j + d].id = line[i + d].id
      BY <2>1, <3>1, <1>1 DEF Together
    <3> QED
      BY <3>2, <1>1
  <2>2. ASSUME NEW i \in 1..Len(new), NEW j \in 1..Len(new), i < j, new[i].id = t.id, t.id # 0
        PROVE  new[j].id = t.id
    <3>1. i + d < j + d
      BY <2>2, <1>2
    <3>2. line[j + d].id = t.id
      BY <2>2, <3>1, <1>1 DEF Together
    <3> QED
      BY <3>2, <1>1
  <2> QED
    BY <2>1, <2>2 DEF Together
<1>7. ASSUME NEW n, NEW c, Protected(n, line, t, c)
      PROVE  Protected(n, new, t, c)
  <2>1. ASSUME NEW j \in 1..Len(new), new[j].id = n
        PROVE  Recognises(c, new[j]) /\ \A k \in 1..Len(new) : k < j => new[k].id = n
    <3>1. /\ Recognises(c, line[j + d])
          /\ \A k \in 1..Len(line) : k < j + d => line[k].id = n
      BY <2>1, <1>1, <1>7 DEF Protected
    <3>2. Recognises(c, new[j])
      BY <3>1, <1>4 DEF Recognises
    <3>3. ASSUME NEW k \in 1..Len(new), k < j PROVE new[k].id = n
      BY <3>1, <3>3, <1>1, <1>2
    <3> QED
      BY <3>2, <3>3
  <2>2. ASSUME t.id = n
        PROVE  Recognises(c, t) /\ \A k \in 1..Len(new) : new[k].id = n
    BY <2>2, <1>1, <1>7 DEF Protected
  <2> QED
    BY <2>1, <2>2 DEF Protected
<1> QED
  BY <1>5, <1>6, <1>7

\* The instance sent last is sent again.
LEMMA InstancesRepeated ==
    ASSUME NEW line, NEW t, NEW f, IsSeq(line), SameInstance(line, t), Together(line, t),
           SameButBad(f, t)
    PROVE  /\ SameInstance(Append(line, f), f) /\ Together(Append(line, f), f)
           /\ \A n, c : Protected(n, line, t, c) => Protected(n, Append(line, f), f, c)
<1> DEFINE new == Append(line, f)
<1>0. /\ Len(line) \in Nat /\ Len(new) = Len(line) + 1 /\ new[Len(line) + 1] = f
      /\ \A j \in 1..Len(line) : new[j] = line[j]
  BY Appended
<1> HIDE DEF new
<1>1. \A j \in 1..Len(new) : \/ j \in 1..Len(line) /\ new[j] = line[j]
                             \/ j = Len(line) + 1 /\ new[j] = f
  BY <1>0
<1>2. f.id = t.id /\ SameButBad(t, f) /\ SameButBad(f, f)
  BY DEF SameButBad
<1>3. \A x, y, z : SameButBad(x, y) /\ SameButBad(y, z) => SameButBad(x, z) /\ SameButBad(z, x)
  BY DEF SameButBad
<1>4. \A j \in 1..Len(new) : new[j].id = f.id /\ f.id # 0 => SameButBad(new[j], f)
  BY <1>1, <1>2, <1>3 DEF SameInstance
<1>5. SameInstance(new, f)
  <2>1. ASSUME NEW i \in 1..Len(new), NEW j \in 1..Len(new), new[i].id = new[j].id, new[i].id # 0
        PROVE  SameButBad(new[i], new[j])
    <3>1. CASE new[i].id = f.id
      BY <2>1, <3>1, <1>4 DEF SameButBad
    <3>2. CASE new[i].id # f.id
      BY <2>1, <3>2, <1>1 DEF SameInstance
    <3> QED
      BY <3>1, <3>2
  <2> QED
    BY <2>1, <1>4 DEF SameInstance
<1>6. \A i, j \in 1..Len(new) : i < j /\ new[i].id = f.id /\ f.id # 0 => new[j].id = f.id
  <2> SUFFICES ASSUME NEW i \in 1..Len(new), NEW j \in 1..Len(new), i < j, new[i].id = f.id, f.id # 0
               PROVE  new[j].id = f.id
    OBVIOUS
  <2>1. CASE j = Len(line) + 1
    BY <2>1, <1>0
  <2>2. CASE j # Len(line) + 1
    <3>1. i \in 1..Len(line) /\ j \in 1..Len(line) /\ new[i] = line[i] /\ new[j] = line[j]
      BY <2>2, <1>0
    <3> QED
      BY <3>1, <1>2 DEF Together
  <2> QED
    BY <2>1, <2>2
<1>7. Together(new, f)
  <2>1. ASSUME NEW i \in 1..Len(new), NEW j \in 1..Len(new), NEW k \in 1..Len(new),
               i < j, j < k, new[i].id = new[k].id, new[i].id # 0
        PROVE  new[j].id = new[i].id
    <3>1. CASE new[i].id = f.id
      BY <2>1, <3>1, <1>6
    <3>2. CASE new[i].id # f.id
      <4>1. k # Len(line) + 1
        BY <2>1, <3>2, <1>0
      <4>2. /\ i \in 1..Len(line) /\ j \in 1..Len(line) /\ k \in 1..Len(line)
            /\ new[i] = line[i] /\ new[j] = line[j] /\ new[k] = line[k]
        BY <2>1, <4>1, <1>0
      <4> QED
        BY <2>1, <4>2 DEF Together
    <3> QED
      BY <3>1, <3>2
  <2> QED
    BY <2>1, <1>6 DEF Together
<1>8. ASSUME NEW n, NEW c, Protected(n, line, t, c)
      PROVE  Protected(n, new, f, c)
  <2>0. f.id = n => Recognises(c, f) /\ \A k \in 1..Len(new) : new[k].id = n
    BY <1>1, <1>2, <1>3, <1>8 DEF Protected, Recognises
  <2>1. ASSUME NEW j \in 1..Len(new), new[j].id = n
        PROVE  Recognises(c, new[j]) /\ \A k \in 1..Len(new) : k < j => new[k].id = n
    <3>1. CASE j = Len(line) + 1
      BY <2>0, <2>1, <3>1, <1>0
    <3>2. CASE j # Len(line) + 1
      <4>1. j \in 1..Len(line) /\ new[j] = line[j]
        BY <3>2, <1>0
      <4>2. Recognises(c, new[j]) /\ \A k \in 1..Len(line) : k < j => line[k].id = n
        BY <2>1, <4>1, <1>8 DEF Protected
      <4>3. ASSUME NEW k \in 1..Len(new), k < j PROVE new[k].id = n
        <5>1. k \in 1..Len(line) /\ new[k] = line[k]
          BY <4>1, <4>3, <1>0
        <5> QED
          BY <5>1, <4>2, <4>3
      <4> QED
        BY <4>2, <4>3
    <3> QED
      BY <3>1, <3>2
  <2> QED
    BY <2>0, <2>1 DEF Protected
<1> QED
  BY <1>5, <1>7, <1>8 DEF new

\* Another frame is sent: a new instance, or a step of the handshake.
LEMMA InstancesNew ==
    ASSUME NEW line, NEW t, NEW f, IsSeq(line), SameInstance(line, t), Together(line, t),
           f.id # 0 => \A j \in 1..Len(line) : line[j].id # f.id
    PROVE  /\ SameInstance(Append(line, f), f) /\ Together(Append(line, f), f)
           /\ \A n, c : n # f.id /\ Protected(n, line, t, c) => Protected(n, Append(line, f), f, c)
<1> DEFINE new == Append(line, f)
<1>0. /\ Len(line) \in Nat /\ Len(new) = Len(line) + 1 /\ new[Len(line) + 1] = f
      /\ \A j \in 1..Len(line) : new[j] = line[j]
  BY Appended
<1> HIDE DEF new
<1>1. \A j \in 1..Len(new) : \/ j \in 1..Len(line) /\ new[j] = line[j]
                             \/ j = Len(line) + 1 /\ new[j] = f
  BY <1>0
<1>2. SameButBad(f, f)
  BY DEF SameButBad
<1>3. \A j \in 1..Len(new) : new[j].id = f.id /\ f.id # 0 => j = Len(line) + 1 /\ new[j] = f
  BY <1>1
<1>4. SameInstance(new, f)
  <2>1. ASSUME NEW i \in 1..Len(new), NEW j \in 1..Len(new), new[i].id = new[j].id, new[i].id # 0
        PROVE  SameButBad(new[i], new[j])
    <3>1. CASE new[i].id = f.id
      <4>1. new[i] = f /\ new[j] = f
        BY <2>1, <3>1, <1>3
      <4> QED
        BY <4>1, <1>2
    <3>2. CASE new[i].id # f.id
      BY <2>1, <3>2, <1>1 DEF SameInstance
    <3> QED
      BY <3>1, <3>2
  <2> QED
    BY <2>1, <1>2, <1>3 DEF SameInstance
<1>5. Together(new, f)
  <2>1. ASSUME NEW i \in 1..Len(new), NEW j \in 1..Len(new), NEW k \in 1..Len(new),
               i < j, j < k, new[i].id = new[k].id, new[i].id # 0
        PROVE  new[j].id = new[i].id
    <3>1. k # Len(line) + 1
      BY <2>1, <1>0, <1>3
    <3>2. /\ i \in 1..Len(line) /\ j \in 1..Len(line) /\ k \in 1..Len(line)
          /\ new[i] = line[i] /\ new[j] = line[j] /\ new[k] = line[k]
      BY <2>1, <3>1, <1>0
    <3> QED
      BY <2>1, <3>2 DEF Together
  <2>2. ASSUME NEW i \in 1..Len(new), NEW j \in 1..Len(new), i < j, new[i].id = f.id, f.id # 0
        PROVE  new[j].id = f.id
    <3>1. i = Len(line) + 1
      BY <2>2, <1>3
    <3> QED
      BY <3>1, <2>2, <1>0
  <2> QED
    BY <2>1, <2>2 DEF Together
<1>6. ASSUME NEW n, NEW c, n # f.id, Protected(n, line, t, c)
      PROVE  Protected(n, new, f, c)
  <2>1. ASSUME NEW j \in 1..Len(new), new[j].id = n
        PROVE  Recognises(c, new[j]) /\ \A k \in 1..Len(new) : k < j => new[k].id = n
    <3>1. j \in 1..Len(line) /\ new[j] = line[j]
      BY <2>1, <1>1, <1>6
    <3>2. Recognises(c, new[j]) /\ \A k \in 1..Len(line) : k < j => line[k].id = n
      BY <2>1, <3>1, <1>6 DEF Protected
    <3>3. ASSUME NEW k \in 1..Len(new), k < j PROVE new[k].id = n
      <4>1. k \in 1..Len(line) /\ new[k] = line[k]
        BY <3>1, <3>3, <1>0
      <4> QED
        BY <4>1, <3>2, <3>3
    <3> QED
      BY <3>2, <3>3
  <2> QED
    BY <2>1, <1>6 DEF Protected
<1> QED
  BY <1>4, <1>5, <1>6 DEF new

\* The PD takes a frame of another instance: no copy of n is behind it, so n
\* stays protected whatever becomes of the cache.
LEMMA OtherInstance ==
    ASSUME NEW n, NEW line, NEW t, NEW c, NEW c2, IsSeq(line), line # <<>>,
           Protected(n, line, t, c), Head(line).id # n
    PROVE  Protected(n, Tail(line), t, c2)
<1>0. /\ Len(line) \in Nat /\ Len(line) > 0 /\ Head(line) = line[1] /\ 1 \in 1..Len(line)
      /\ \A j \in 1..Len(Tail(line)) : /\ j + 1 \in 1..Len(line) /\ 1 < j + 1
                                       /\ Tail(line)[j] = line[j + 1]
  BY Taken
<1>1. \A j \in 1..Len(Tail(line)) : Tail(line)[j].id # n
  BY <1>0 DEF Protected
<1>2. t.id # n
  BY <1>0 DEF Protected
<1> QED
  BY <1>1, <1>2 DEF Protected

\* The PD carries an instance out: its copies follow at once, and the cache has
\* what they are copies of.
LEMMA FirstRun ==
    ASSUME NEW line, NEW t, NEW c, IsSeq(line), line # <<>>, SameInstance(line, t),
           Together(line, t), Head(line).id # 0, c # NoCache, c.cmd = Head(line),
           Head(line).sqn # 0
    PROVE  Protected(Head(line).id, Tail(line), t, c)
<1> DEFINE n   == Head(line).id
           new == Tail(line)
<1>0. /\ Len(line) \in Nat /\ Len(line) > 0 /\ Head(line) = line[1] /\ 1 \in 1..Len(line)
      /\ \A j \in 1..Len(new) : j + 1 \in 1..Len(line) /\ 1 < j + 1 /\ new[j] = line[j + 1]
  BY Taken
<1>1. \A x, y : SameButBad(x, y) => SameButBad(y, x)
  BY DEF SameButBad
<1> HIDE DEF new
<1>2. ASSUME NEW j \in 1..Len(new), new[j].id = n
      PROVE  Recognises(c, new[j]) /\ \A k \in 1..Len(new) : k < j => new[k].id = n
  <2>1. line[j + 1].id = line[1].id
    BY <1>0, <1>2
  <2>2. SameButBad(line[j + 1], line[1])
    BY <2>1, <1>0 DEF SameInstance
  <2>3. Recognises(c, new[j])
    BY <2>2, <1>0 DEF Recognises
  <2>4. ASSUME NEW k \in 1..Len(new), k < j PROVE new[k].id = n
    <3>1. k + 1 < j + 1 /\ 1 < k + 1 /\ k + 1 \in 1..Len(line) /\ new[k] = line[k + 1]
      BY <2>4, <1>0
    <3> QED
      BY <3>1, <2>1, <1>0 DEF Together
  <2> QED
    BY <2>3, <2>4
<1>3. ASSUME t.id = n
      PROVE  Recognises(c, t) /\ \A k \in 1..Len(new) : new[k].id = n
  <2>1. SameButBad(line[1], t)
    BY <1>0, <1>3 DEF SameInstance
  <2>2. Recognises(c, t)
    BY <2>1, <1>0, <1>1 DEF Recognises
  <2> QED
    BY <2>2, <1>0, <1>3 DEF Together
<1> QED
  BY <1>2, <1>3 DEF Protected, new

\* What the cache recognises, the PD takes for a retransmit.
LEMMA RecognisedIsRetransmit ==
    ASSUME NEW f, IsFrame(f), ~f.bad, CachedCmd(cache), Recognises(cache, f)
    PROVE  IsRetransmit(f)
<1> DEFINE g == cache.cmd
<1>1. /\ IsFrame(g) /\ g.bad = FALSE /\ f.bad = FALSE /\ SameButBad(f, g) /\ f.sqn # 0
      /\ cache # NoCache
  BY DEF CachedCmd, Recognises, SameButBad, IsFrame
<1> HIDE DEF g
<1>2. Bytes(g) = Bytes(f)
  BY <1>1 DEF Bytes, IsFrame, SameButBad
<1> QED
  BY <1>1, <1>2 DEF IsRetransmit, g

-----------------------------------------------------------------------------
(* The steps.                                                              *)

\* A fresh command: what was run and is not excused is another instance, and
\* this one runs for the first time or is excused.
LEMMA FreshKeepsOnce ==
    ASSUME KeysInv, LogInv, OnceInv, toPd # <<>>, toPd' = Tail(toPd), PdCarries(Head(toPd)),
           UNCHANGED <<log, tx>>
    PROVE  OnceInv'
<1> DEFINE f == Head(toPd)
<1>0. /\ IsSeq(toPd) /\ SameInstance(toPd, tx) /\ Together(toPd, tx) /\ CachedCmd(cache)
      /\ runs \in [1..MaxIds -> Nat]
  BY DEF KeysInv, LineInv, OnceInv
<1>1. f = toPd[1] /\ 1 \in 1..Len(toPd)
  BY <1>0, Taken
<1>2. IsFrame(f) /\ CmdLogged(f, log)
  BY <1>1 DEF KeysInv, LineInv, LogInv
<1>3. SameInstance(toPd', tx) /\ Together(toPd', tx)
  <2>1. Follows(toPd', toPd)
    BY <1>0, FollowsCases DEF KeysInv, LineInv
  <2> QED
    BY <2>1, <1>0, InstancesFollow
<1>4. CachedCmd(cache')
  BY <1>2 DEF PdCarries, CachedCmd, IsFrame
<1>5. excused \subseteq excused'
  BY DEF PdCarries, Carries
<1>6. \A i \in 1..MaxIds : runs[i] > 0 /\ i \notin excused => f.id # i /\ Protected(i, toPd', tx, cache')
  <2> SUFFICES ASSUME NEW i \in 1..MaxIds, runs[i] > 0, i \notin excused
               PROVE  f.id # i /\ Protected(i, toPd', tx, cache')
    OBVIOUS
  <2>1. Protected(i, toPd, tx, cache)
    BY DEF OnceInv
  <2>2. f.id # i
    <3> SUFFICES ASSUME f.id = i PROVE FALSE
      OBVIOUS
    <3>1. Recognises(cache, f)
      BY <2>1, <1>1 DEF Protected
    <3> QED
      BY <3>1, <1>0, <1>2, RecognisedIsRetransmit DEF PdCarries
  <2>3. Protected(i, Tail(toPd), tx, cache')
    BY <2>1, <2>2, <1>0, OtherInstance
  <2> QED
    BY <2>2, <2>3
<1>7. CASE runs' = runs
  <2>1. /\ \A i \in 1..MaxIds : runs'[i] > 0 => i <= Len(log)
        /\ AtMostOnce'
    BY <1>5, <1>7 DEF OnceInv, AtMostOnce
  <2>2. \A i \in 1..MaxIds : runs'[i] > 0 /\ i \notin excused' => Protected(i, toPd', tx, cache')
    BY <1>5, <1>6, <1>7
  <2> QED
    BY <2>1, <2>2, <1>0, <1>3, <1>4, <1>7 DEF OnceInv
<1>8. CASE runs' # runs
  <2>1. /\ f.scs \in {"NONE", "SCS_CMD"}
        /\ runs' = [runs EXCEPT ![f.id] = runs[f.id] + 1]
        /\ f.id \in excused' \/ (f.sqn # 0 /\ cache' # NoCache)
        /\ cache' # NoCache => cache'.cmd = f
    BY <1>8 DEF PdCarries, Carries
  <2>2. f.id # 0 /\ f.id <= Len(log)
    <3>1. f.id # 0 /\ f.id \in 1..Len(log)
      BY <2>1, <1>2 DEF CmdLogged
    <3>2. Len(log) \in Nat
      BY DEF LogInv, IsSeq
    <3> QED
      BY <3>1, <3>2
  <2>3. /\ runs' \in [1..MaxIds -> Nat]
        /\ \A i \in 1..MaxIds : i # f.id => runs'[i] = runs[i]
        /\ \A i \in 1..MaxIds : i = f.id => runs'[i] = runs[i] + 1
    <3> DEFINE n == f.id
    <3>1. runs' = [runs EXCEPT ![n] = runs[n] + 1]
      BY <2>1
    <3> HIDE DEF n
    <3>2. CASE n \in 1..MaxIds
      <4>1. runs[n] + 1 \in Nat
        BY <3>2, <1>0
      <4> QED
        BY <3>1, <3>2, <4>1, <1>0 DEF n
    <3>3. CASE n \notin 1..MaxIds
      BY <3>1, <3>3, <1>0 DEF n
    <3> QED
      BY <3>2, <3>3
  <2>4. \A i \in 1..MaxIds : runs'[i] > 0 => i <= Len(log)
    BY <2>2, <2>3 DEF OnceInv
  <2>5. ASSUME NEW i \in 1..MaxIds, runs'[i] > 1 PROVE i \in excused'
    <3>1. CASE i # f.id
      BY <2>3, <2>5, <3>1, <1>5 DEF OnceInv, AtMostOnce
    <3>2. CASE i = f.id
      <4>1. runs[i] > 0
        BY <2>3, <2>5, <3>2, <1>0
      <4> QED
        BY <4>1, <3>2, <1>5, <1>6
    <3> QED
      BY <3>1, <3>2
  <2>6. ASSUME NEW i \in 1..MaxIds, runs'[i] > 0, i \notin excused'
        PROVE  Protected(i, toPd', tx, cache')
    <3>1. CASE i # f.id
      BY <2>3, <2>6, <3>1, <1>5, <1>6
    <3>2. CASE i = f.id
      <4>1. f.sqn # 0 /\ cache' # NoCache /\ cache'.cmd = f
        BY <2>1, <2>6, <3>2
      <4> QED
        BY <4>1, <2>2, <3>2, <1>0, FirstRun
    <3> QED
      BY <3>1, <3>2
  <2> QED
    BY <2>3, <2>4, <2>5, <2>6, <1>3, <1>4 DEF OnceInv, AtMostOnce
<1> QED
  BY <1>7, <1>8

\* Frames leave the line or are corrupted on it, and the PD runs nothing.
LEMMA LineKeepsOnce ==
    ASSUME OnceInv, Follows(toPd', toPd), UNCHANGED <<log, tx, runs, excused, cache>>
    PROVE  OnceInv'
<1>1. /\ SameInstance(toPd', tx) /\ Together(toPd', tx)
      /\ \A i : Protected(i, toPd, tx, cache) => Protected(i, toPd', tx, cache)
  BY InstancesFollow DEF OnceInv
<1> QED
  BY <1>1 DEF OnceInv, AtMostOnce

\* The PD forgets its cache, and excuses what was in it.
LEMMA ForgettingKeepsOnce ==
    ASSUME KeysInv, LogInv, OnceInv, ForgetCache, UNCHANGED <<log, tx, runs, toPd>>
    PROVE  OnceInv'
<1>1. /\ cache' = NoCache /\ excused \subseteq excused'
      /\ cache # NoCache => cache.cmd.id \in excused'
  BY DEF ForgetCache
<1>2. ASSUME NEW i \in 1..MaxIds, runs[i] > 0, i \notin excused'
      PROVE  Protected(i, toPd, tx, cache')
  <2>1. Protected(i, toPd, tx, cache)
    BY <1>1, <1>2 DEF OnceInv
  <2>2. \A x : Recognises(cache, x) => x.id # i
    BY <1>1, <1>2 DEF Recognises, SameButBad
  <2> QED
    BY <2>1, <2>2 DEF Protected
<1> QED
  BY <1>1, <1>2 DEF OnceInv, AtMostOnce, CachedCmd

\* The slot sends, repeats or listens.
LEMMA SlotKeepsOnce ==
    ASSUME KeysInv, LogInv, OnceInv, SlotLogs, UNCHANGED <<runs, excused, cache>>
    PROVE  OnceInv'
<1>0. /\ IsSeq(toPd) /\ SameInstance(toPd, tx) /\ Together(toPd, tx)
      /\ IsSeq(log) /\ Len(log) \in Nat
      /\ \A j \in 1..Len(toPd) : CmdLogged(toPd[j], log)
  BY DEF KeysInv, LineInv, OnceInv, LogInv, IsSeq
<1>1. CASE SlotListens
  BY <1>1 DEF SlotListens, OnceInv, AtMostOnce
<1>2. ASSUME NEW f, SlotHandshakes(f) PROVE OnceInv'
  <2>1. f.id = 0 /\ toPd' = Append(toPd, f) /\ tx' = f /\ log' = log
    BY <1>2 DEF SlotHandshakes
  <2>2. /\ SameInstance(Append(toPd, f), f) /\ Together(Append(toPd, f), f)
        /\ \A n, c : n # f.id /\ Protected(n, toPd, tx, c) => Protected(n, Append(toPd, f), f, c)
    BY <2>1, <1>0, InstancesNew
  <2>3. \A i \in 1..MaxIds : i # f.id
    BY <2>1
  <2> QED
    BY <2>1, <2>2, <2>3 DEF OnceInv, AtMostOnce
<1>3. ASSUME NEW f, SlotIssues(f), log' = log, SameButBad(f, tx) PROVE OnceInv'
  <2>1. toPd' = Append(toPd, f) /\ tx' = f
    BY <1>3 DEF SlotIssues
  <2>2. /\ SameInstance(Append(toPd, f), f) /\ Together(Append(toPd, f), f)
        /\ \A n, c : Protected(n, toPd, tx, c) => Protected(n, Append(toPd, f), f, c)
    BY <1>3, <1>0, InstancesRepeated
  <2> QED
    BY <2>1, <2>2, <1>3 DEF OnceInv, AtMostOnce
<1>4. ASSUME NEW f, SlotIssues(f), log' = Append(log, f.mac), f.id = Len(log) + 1 PROVE OnceInv'
  <2>1. toPd' = Append(toPd, f) /\ tx' = f
    BY <1>4 DEF SlotIssues
  <2>2. \A j \in 1..Len(toPd) : toPd[j].id # f.id
    BY <1>0, <1>4 DEF CmdLogged
  <2>3. /\ SameInstance(Append(toPd, f), f) /\ Together(Append(toPd, f), f)
        /\ \A n, c : n # f.id /\ Protected(n, toPd, tx, c) => Protected(n, Append(toPd, f), f, c)
    BY <2>2, <1>0, InstancesNew
  <2>4. \A i \in 1..MaxIds : runs[i] > 0 => i # f.id /\ i <= Len(log')
    <3>1. Len(log') = Len(log) + 1
      BY <1>0, <1>4, Appended
    <3> QED
      BY <3>1, <1>0, <1>4 DEF OnceInv
  <2> QED
    BY <2>1, <2>3, <2>4 DEF OnceInv, AtMostOnce
<1> QED
  BY <1>1, <1>2, <1>3, <1>4 DEF SlotLogs, SlotIssues

LEMMA OnceStep ==
    ASSUME KeysInv, LogInv, OnceInv, [Next]_vars
    PROVE  OnceInv'
<1>0. TypeOK /\ IsFrame(tx) /\ IsSeq(toPd) /\ \A j \in 1..Len(toPd) : IsFrame(toPd[j])
  BY DEF KeysInv, LineInv, LogInv, TxLogged
<1>1. CASE AcuNext /\ UNCHANGED pdVars
  <2>1. UNCHANGED <<runs, excused, cache>>
    BY <1>1 DEF pdVars, runVars
  <2>2. SlotLogs
    BY <1>0, <1>1, AcuNextLogs
  <2> QED
    BY <2>1, <2>2, SlotKeepsOnce
<1>2. CASE PdNext /\ UNCHANGED acuVars
  <2>0. UNCHANGED <<log, tx>>
    BY <1>2 DEF acuVars, countVars
  <2>1. CASE \E v \in Verdicts, fits \in ReplyFits, wr \in WriteOutcomes : PdFresh(v, fits, wr)
    <3>1. toPd # <<>> /\ toPd' = Tail(toPd)
      BY <2>1 DEF PdFresh, PdTakes
    <3>2. PdCarries(Head(toPd))
      BY <2>1, PdFreshCarries
    <3> QED
      BY <2>0, <3>1, <3>2, FreshKeepsOnce
  <2>2. CASE \E wr \in WriteOutcomes : PdBadCheck(wr) \/ PdNotOurs \/ PdRetransmit(wr)
    <3>1. toPd # <<>> /\ toPd' = Tail(toPd) /\ UNCHANGED <<cache, runs, excused>>
      BY <2>2, AnswerSent
    <3>2. Follows(toPd', toPd)
      BY <3>1, <1>0, FollowsCases
    <3> QED
      BY <2>0, <3>1, <3>2, LineKeepsOnce
  <2>3. CASE PdGoOffline \/ PdRestart
    <3>1. ForgetCache /\ UNCHANGED <<toPd, runs>>
      BY <2>3 DEF PdGoOffline, PdRestart, wireVars
    <3> QED
      BY <2>0, <3>1, ForgettingKeepsOnce
  <2>4. CASE PdNotOurs
    BY <2>2, <2>4 DEF WriteOutcomes
  <2> QED
    BY <1>2, <2>1, <2>2, <2>3, <2>4 DEF PdNext
<1>3. CASE WireNext /\ UNCHANGED <<acuVars, pdVars>>
  <2>1. UNCHANGED <<log, tx, runs, excused, cache>>
    BY <1>3 DEF acuVars, pdVars, countVars, runVars
  <2>2. Follows(toPd', toPd)
    BY <1>3, WireFollows DEF KeysInv
  <2> QED
    BY <2>1, <2>2, LineKeepsOnce
<1>4. CASE Tick \/ UNCHANGED vars
  <2>1. UNCHANGED <<log, tx, runs, excused, cache, toPd>>
    BY <1>4 DEF Tick, vars, pdVars, acuVars, countVars, runVars, wireVars
  <2> QED
    BY <2>1 DEF OnceInv, AtMostOnce
<1> QED
  BY <1>1, <1>2, <1>3, <1>4 DEF Next

LEMMA OnceInit == Init => OnceInv
<1> SUFFICES ASSUME Init PROVE OnceInv
  OBVIOUS
<1>1. /\ toPd = <<>> /\ log = <<>> /\ cache = NoCache /\ tx = NoFrame
      /\ runs = [i \in 1..MaxIds |-> 0]
  BY DEF Init, WireInit, AcuInit, PdInit
<1>2. Len(<<>>) = 0
  OBVIOUS
<1>3. SameInstance(toPd, tx) /\ Together(toPd, tx)
  BY <1>1, <1>2 DEF SameInstance, Together
<1>4. \A i \in 1..MaxIds : runs[i] = 0
  BY <1>1
<1> QED
  BY <1>1, <1>3, <1>4 DEF OnceInv, CachedCmd, AtMostOnce

\* The invariant behind at-most-once holds in every state.
THEOREM OnceInvariant == Spec => []OnceInv
<1>1. KeysInv /\ LogInv /\ OnceInv /\ [Next]_vars => OnceInv'
  BY OnceStep
<1> QED
  BY <1>1, OnceInit, KeysAlwaysKnown, LogAgrees, PTL DEF Spec

\* The application handler of the PD carries a command and its retries out at
\* most once, for any commands, timeouts, faults and bounds, inside and outside
\* a session, with SQN 0, COMSET and dropped caches as the only exceptions: an
\* instance that ran stays in the retransmit cache for as long as a copy of it
\* is on the line or may still be sent.
THEOREM CommandsRunOnce == Spec => []AtMostOnce
<1>1. OnceInv => AtMostOnce
  BY DEF OnceInv
<1> QED
  BY <1>1, OnceInvariant, PTL

-----------------------------------------------------------------------------
(* A PD that moves.                                                        *)

\* The slot writes to the addresses it may be registered for.
AddressedInv == \A j \in 1..Len(toPd) : toPd[j].addr \in Addresses

LEMMA AddressedStep ==
    ASSUME KeysInv, LogInv, AddressedInv, [Next]_vars
    PROVE  AddressedInv'
<1>0. TypeOK /\ IsFrame(tx) /\ LineInv /\ IsSeq(toPd) /\ \A j \in 1..Len(toPd) : IsFrame(toPd[j])
  BY DEF KeysInv, LineInv, LogInv, TxLogged
<1>1. ASSUME Follows(toPd', toPd) PROVE AddressedInv'
  BY <1>1 DEF Follows, SameButBad, AddressedInv
<1>2. ASSUME NEW f, toPd' = Append(toPd, f), f.addr = address PROVE AddressedInv'
  <2>1. /\ Len(toPd) \in Nat /\ Len(toPd') = Len(toPd) + 1 /\ toPd'[Len(toPd) + 1] = f
        /\ \A j \in 1..Len(toPd) : toPd'[j] = toPd[j]
    BY <1>0, <1>2, Appended
  <2>2. \A j \in 1..Len(toPd') : j \in 1..Len(toPd) \/ j = Len(toPd) + 1
    BY <2>1
  <2>3. f.addr \in Addresses
    BY <1>0, <1>2 DEF TypeOK, SlotTypeOK
  <2> QED
    BY <2>1, <2>2, <2>3 DEF AddressedInv
<1>3. Follows(toPd, toPd) /\ (toPd # <<>> => Follows(Tail(toPd), toPd))
  BY <1>0, FollowsCases
<1>4. CASE AcuNext /\ UNCHANGED pdVars
  <2>1. SlotLogs
    BY <1>0, <1>4, AcuNextLogs
  <2>2. toPd' = toPd \/ \E f : toPd' = Append(toPd, f) /\ f.addr = address
    BY <2>1 DEF SlotLogs, SlotIssues, SlotHandshakes, SlotListens
  <2> QED
    BY <2>2, <1>1, <1>2, <1>3
<1>5. CASE PdNext /\ UNCHANGED acuVars
  <2>1. toPd' = toPd \/ (toPd # <<>> /\ toPd' = Tail(toPd))
    BY <1>5 DEF PdNext, PdBadCheck, PdNotOurs, PdRetransmit, PdFresh, PdTakes, PdGoOffline,
       PdRestart, wireVars
  <2> QED
    BY <2>1, <1>1, <1>3
<1>6. CASE WireNext /\ UNCHANGED <<acuVars, pdVars>>
  BY <1>0, <1>6, <1>1, WireFollows
<1>7. CASE Tick \/ UNCHANGED vars
  <2>1. toPd' = toPd
    BY <1>7 DEF Tick, vars, wireVars
  <2> QED
    BY <2>1, <1>1, <1>3
<1> QED
  BY <1>4, <1>5, <1>6, <1>7 DEF Next

\* A dispatched COMSET whose reply can be written is announced.
LEMMA DispatchedMoves ==
    ASSUME NEW f, NEW v, NEW eff, NEW reply, NEW fits,
           Dispatched(f, v, eff, reply, fits, TRUE), pd_address' # pd_address
    PROVE  f.code = "COMSET" /\ (reply # NoReply => toAcu' = Append(toAcu, reply))
BY DEF Dispatched, SendBytes

LEMMA FreshMoves ==
    ASSUME NEW v \in Verdicts, NEW fits, PdFresh(v, fits, TRUE), pd_address' # pd_address
    PROVE  \E com : /\ toAcu' = Append(toAcu, com) /\ com.code = "COM"
                    /\ com.addr = Head(toPd).addr
<1> DEFINE f == Head(toPd)
<1>1. \/ \E reply : Refuse(f, reply, fits, TRUE)
      \/ \E eff : HandleClear(f, v, eff, fits, TRUE)
      \/ HandleChlng(f, fits, TRUE)
      \/ HandleScrypt(f, fits, TRUE)
      \/ \E eff : HandleOperational(f, v, eff, fits, TRUE)
  BY DEF PdFresh
<1>2. \A reply : ~Refuse(f, reply, fits, TRUE)
  BY DEF Refuse, Answer
<1>3. ~HandleChlng(f, fits, TRUE) /\ ~HandleScrypt(f, fits, TRUE)
  BY <1>2 DEF HandleChlng, HandleScrypt
<1>4. \A eff : /\ f.code = "COMSET" => Dispatch(f, v, eff).code = "COM"
               /\ f.code = "COMSET" => Dispatch(f, v, eff).kind = "SEND"
               /\ Dispatch(f, v, eff).kind \in {"SEND", "BUSY", "DROP"}
  BY DispatchKind DEF Dispatch
<1>5. ASSUME NEW eff, NEW reply, Dispatched(f, v, eff, reply, fits, TRUE),
             reply # NoReply, reply.code = Dispatch(f, v, eff).code, reply.addr = f.addr
      PROVE  toAcu' = Append(toAcu, reply) /\ reply.code = "COM" /\ reply.addr = f.addr
  BY <1>4, <1>5, DispatchedMoves
<1>6. ASSUME NEW eff, HandleClear(f, v, eff, fits, TRUE)
      PROVE  \E com : toAcu' = Append(toAcu, com) /\ com.code = "COM" /\ com.addr = f.addr
  <2> DEFINE out == Dispatch(f, v, eff)
             r   == BuildReply(f, out.code, out.data)
  <2>1. \/ Dispatched(f, v, eff, r, fits, TRUE)
        \/ /\ out.kind # "SEND"
           /\ \/ Dispatched(f, v, eff, BuildBusy(f), fits, TRUE)
              \/ Dispatched(f, v, eff, NoReply, fits, TRUE)
    BY <1>2, <1>4, <1>6 DEF HandleClear
  <2>2. Dispatched(f, v, eff, r, fits, TRUE)
    BY <2>1, <1>4, DispatchedMoves
  <2> HIDE DEF out
  <2>3. r # NoReply /\ r.code = out.code /\ r.addr = f.addr
    BY DEF BuildReply, Frame, NoReply
  <2> HIDE DEF r
  <2> QED
    BY <2>2, <2>3, <1>5 DEF out
<1>7. ASSUME NEW eff, HandleOperational(f, v, eff, fits, TRUE)
      PROVE  \E com : toAcu' = Append(toAcu, com) /\ com.code = "COM" /\ com.addr = f.addr
  <2> DEFINE inner == AfterUnwrap(pd_session, f)
             out   == Dispatch(f, v, eff)
             plain == Frame(f.addr, f.sqn, "SCS_REPLY", 0, out.code, out.data, f.id)
             r     == Wrap(inner, plain)
  <2>1. \/ Dispatched(f, v, eff, r, fits, TRUE)
        \/ /\ out.kind # "SEND"
           /\ \/ Dispatched(f, v, eff, BuildBusy(f), fits, TRUE)
              \/ Dispatched(f, v, eff, NoReply, fits, TRUE)
    BY <1>2, <1>4, <1>7 DEF HandleOperational
  <2>2. Dispatched(f, v, eff, r, fits, TRUE)
    BY <2>1, <1>4, DispatchedMoves
  <2> HIDE DEF out, inner
  <2>3. r # NoReply /\ r.code = out.code /\ r.addr = f.addr
    <3>1. IsFrame(plain) /\ plain.code = out.code /\ plain.addr = f.addr
      BY DEF Frame, IsFrame
    <3> HIDE DEF plain
    <3> DEFINE mac == ComputeMac(inner.keys, inner.last_inbound_mac, plain)
    <3>2. r = [plain EXCEPT !.mac = mac]
      BY DEF Wrap
    <3> HIDE DEF mac, r
    <3> QED
      BY <3>1, <3>2 DEF IsFrame, NoReply
  <2> HIDE DEF r
  <2> QED
    BY <2>2, <2>3, <1>5 DEF out
<1> QED
  BY <1>1, <1>2, <1>3, <1>6, <1>7

LEMMA MoveStep ==
    ASSUME "short" \notin Faults, Broadcast \notin Addresses,
           KeysInv, AddressedInv, [Next]_vars, pd_address' # pd_address
    PROVE  /\ toAcu' # <<>>
           /\ LET com == toAcu'[Len(toAcu')]
              IN  com.code = "COM" /\ com.addr = pd_address
<1>0. WriteOutcomes = {TRUE} /\ IsSeq(toPd) /\ IsSeq(toAcu)
  BY DEF WriteOutcomes, KeysInv, LineInv
<1>1. PdNext
  BY DEF Next, Tick, vars, pdVars
<1>2. \E v \in Verdicts, fits \in ReplyFits : PdFresh(v, fits, TRUE)
  BY <1>0, <1>1 DEF PdNext, PdBadCheck, PdNotOurs, PdRetransmit, PdGoOffline, PdRestart
<1>3. PICK com : toAcu' = Append(toAcu, com) /\ com.code = "COM" /\ com.addr = Head(toPd).addr
  BY <1>2, FreshMoves
<1>4. toPd # <<>> /\ Ours(Head(toPd))
  BY <1>2 DEF PdFresh, PdTakes
<1>5. Head(toPd) = toPd[1] /\ 1 \in 1..Len(toPd)
  BY <1>0, <1>4, Taken
<1>6. Head(toPd).addr = pd_address
  BY <1>4, <1>5 DEF Ours, AddressedInv
<1>7. Len(toAcu') = Len(toAcu) + 1 /\ toAcu'[Len(toAcu) + 1] = com /\ Len(toAcu) \in Nat
  BY <1>0, <1>3, Appended
<1>8. toAcu' # <<>>
  BY <1>7
<1> QED
  BY <1>3, <1>6, <1>7, <1>8

\* A PD that changes its address with a COMSET has announced it: the last frame
\* it wrote is the COM, at the address it leaves.  The hypotheses are the two
\* cases in which the code does move unannounced, or answers elsewhere: a write
\* that fails, whose result send_bytes drops, and a COMSET to the broadcast
\* address, whose reply mirrors that address.
THEOREM MovesAreAnnounced ==
    ASSUME "short" \notin Faults, Broadcast \notin Addresses
    PROVE  Spec => AddressAnnounced
<1>1. Init => AddressedInv
  BY DEF Init, WireInit, AddressedInv
<1>2. KeysInv /\ LogInv /\ AddressedInv /\ [Next]_vars => AddressedInv'
  BY AddressedStep
<1>3. KeysInv /\ AddressedInv /\ [Next]_vars
        => [pd_address' # pd_address
              => /\ toAcu' # <<>>
                 /\ LET com == toAcu'[Len(toAcu')]
                    IN  com.code = "COM" /\ com.addr = pd_address]_vars
  BY MoveStep
<1> QED
  BY <1>1, <1>2, <1>3, KeysAlwaysKnown, LogAgrees, PTL DEF Spec, AddressAnnounced

-----------------------------------------------------------------------------
(* One answer.                                                             *)

\* Conclusive, Final and Agrees, with e for excused, l for log, cmds for toPd, t for
\* tx and c for cache: the command of a conclusive reply was issued and its copies
\* are protected, and two conclusive replies to one command are the same bytes.
Concludes(g, e) ==
    /\ g.id # 0 /\ g.sqn # 0 /\ g.id \notin e
    /\ ~(g.code = "NAK" /\ g.data = <<NakBadCheck>>)

Final(g, l, cmds, t, c, e) == Concludes(g, e) => g.id \in 1..Len(l) /\ Protected(g.id, cmds, t, c)

Agrees(g, h, e) == Concludes(g, e) /\ Concludes(h, e) /\ g.id = h.id => SameButBad(g, h)

HasReply(c) == c # NoCache /\ c.reply # NoReply

Answered(rpls, l, cmds, t, c, e) ==
    /\ \A j \in 1..Len(rpls) : Final(rpls[j], l, cmds, t, c, e)
    /\ \A i, j \in 1..Len(rpls) : Agrees(rpls[i], rpls[j], e)
    /\ HasReply(c) =>
          /\ c.reply.id = c.cmd.id /\ Final(c.reply, l, cmds, t, c, e)
          /\ \A j \in 1..Len(rpls) :
                Concludes(rpls[j], e) /\ rpls[j].id = c.cmd.id => SameButBad(c.reply, rpls[j])

AnswerInv == Answered(toAcu, log, toPd, tx, cache, excused)

LEMMA SameReplyIsSame ==
    ASSUME NEW g, NEW h, IsFrame(g), IsFrame(h), SameButBad(g, h)
    PROVE  SameReply(g, h)
BY DEF IsFrame, SameButBad, SameReply

\* What the PD makes of a fresh command f: its reply r has the number of f, and
\* the cache recognises f again, unless r is osdp_BUSY or f is excused.
Settles(f, r) ==
    /\ Replied(f, r)
    /\ r # NoReply => /\ r.id = f.id
                      /\ r.sqn # 0 => f.sqn # 0 /\ (cache' # NoCache \/ f.id \in excused')

LEMMA RefuseSettles ==
    ASSUME NEW f, NEW r, NEW fits, NEW wr, Refuse(f, r, fits, wr),
           r = NoReply \/ (r.id = f.id /\ r.sqn = f.sqn)
    PROVE  Settles(f, r)
<1>1. Replied(f, r)
  BY RefuseReplied
<1>2. cache' # NoCache
  BY DEF Refuse, Answer, CacheReply, NoCache
<1> QED
  BY <1>1, <1>2 DEF Settles

LEMMA DispatchedSettles ==
    ASSUME NEW f, NEW v, NEW eff, NEW r, NEW fits, NEW wr, Dispatched(f, v, eff, r, fits, wr),
           r # NoReply => /\ r.id = f.id
                          /\ r.sqn = 0 \/ (r.sqn = f.sqn /\ Dispatch(f, v, eff).kind # "BUSY")
    PROVE  Settles(f, r)
<1>1. Replied(f, r)
  BY DispatchedReplied
<1>2. f.code = "COMSET" => f.id \in excused'
  BY DEF Dispatched, RecordRun
<1>3. f.code # "COMSET" /\ Dispatch(f, v, eff).kind # "BUSY" => cache' # NoCache
  BY DEF Dispatched, CacheReply, NoCache
<1> QED
  BY <1>1, <1>2, <1>3 DEF Settles

LEMMA FreshSettles ==
    ASSUME NEW v \in Verdicts, NEW fits, NEW wr, PdFresh(v, fits, wr)
    PROVE  \E r : Settles(Head(toPd), r)
<1> DEFINE f == Head(toPd)
           nak(err) == BuildNak(f, err)
           Done == \E r : Settles(f, r)
<1> SUFFICES Done
  OBVIOUS
<1>0. \A r : Settles(f, r) => Done
  OBVIOUS
<1>1. /\ \A err : nak(err).id = f.id /\ nak(err).sqn = f.sqn
      /\ \A code, data : /\ BuildReply(f, code, data).id = f.id
                         /\ BuildReply(f, code, data).sqn = f.sqn
      /\ BuildBusy(f).id = f.id /\ BuildBusy(f).sqn = 0
      /\ \A scs, scb, code, data :
            /\ BuildHandshakeReply(f, scs, scb, code, data).id = f.id
            /\ BuildHandshakeReply(f, scs, scb, code, data).sqn = f.sqn
  BY DEF BuildNak, BuildReply, BuildBusy, BuildHandshakeReply, Frame
<1>2. CASE \E eff : HandleClear(f, v, eff, fits, wr)
  <2> PICK eff : HandleClear(f, v, eff, fits, wr)
    BY <1>2
  <2> DEFINE out == Dispatch(f, v, eff)
             r   == BuildReply(f, out.code, out.data)
  <2>1. \/ Refuse(f, nak(NakEncryption), fits, wr)
        \/ out.kind = "SEND" /\ Dispatched(f, v, eff, r, fits, wr)
        \/ Dispatched(f, v, eff, BuildBusy(f), fits, wr)
        \/ Dispatched(f, v, eff, NoReply, fits, wr)
    BY DispatchKind DEF HandleClear
  <2>2. r.id = f.id /\ r.sqn = f.sqn
    BY <1>1
  <2>a. nak(NakEncryption).id = f.id /\ nak(NakEncryption).sqn = f.sqn
    BY <1>1
  <2> HIDE DEF Done, r, nak
  <2>3. CASE Refuse(f, nak(NakEncryption), fits, wr)
    BY <2>3, <2>a, <1>0, RefuseSettles
  <2>4. CASE out.kind = "SEND" /\ Dispatched(f, v, eff, r, fits, wr)
    BY <2>2, <2>4, <1>0, DispatchedSettles
  <2>5. CASE Dispatched(f, v, eff, BuildBusy(f), fits, wr)
    BY <2>5, <1>0, <1>1, DispatchedSettles
  <2>6. CASE Dispatched(f, v, eff, NoReply, fits, wr)
    BY <2>6, <1>0, DispatchedSettles
  <2> QED
    BY <2>1, <2>3, <2>4, <2>5, <2>6
<1>3. CASE HandleChlng(f, fits, wr) \/ HandleScrypt(f, fits, wr)
  <2> DEFINE Plain(r) == r.id = f.id /\ r.sqn = f.sqn
  <2>1. \E r : Refuse(f, r, fits, wr) /\ Plain(r)
    <3>1. CASE HandleChlng(f, fits, wr)
      <4> DEFINE key  == SelectHandshakeKey(f.scb)
                 rndB == pd_nonces + 1
                 keys == DeriveSessionKeys(key, f.data[1])
                 d    == <<rndB, ClientCryptogram(keys, f.data[1], rndB)>>
                 r    == BuildHandshakeReply(f, "SCS_12", f.scb, "CCRYPT", d)
      <4>1. Refuse(f, nak(NakScb), fits, wr) \/ Refuse(f, r, fits, wr)
        BY <3>1 DEF HandleChlng
      <4>2. Plain(nak(NakScb)) /\ Plain(r)
        BY <1>1
      <4> HIDE DEF Plain, r, nak
      <4> QED
        BY <4>1, <4>2
    <3>2. CASE HandleScrypt(f, fits, wr)
      <4> DEFINE no  == BuildHandshakeReply(f, "SCS_14", 255, "RMAC_I", <<>>)
                 yes == BuildHandshakeReply(f, "SCS_14", 1, "RMAC_I",
                                            InitialRmac(pd_session.keys, f.data))
      <4>1. \/ Refuse(f, nak(NakScb), fits, wr)
            \/ Refuse(f, no, fits, wr) \/ Refuse(f, yes, fits, wr)
        BY <3>2 DEF HandleScrypt
      <4>2. Plain(nak(NakScb)) /\ Plain(no) /\ Plain(yes)
        BY <1>1
      <4> HIDE DEF Plain, no, yes, nak
      <4> QED
        BY <4>1, <4>2
    <3> QED
      BY <1>3, <3>1, <3>2
  <2> QED
    BY <2>1, RefuseSettles
<1>4. CASE \E eff : HandleOperational(f, v, eff, fits, wr)
  <2> PICK eff : HandleOperational(f, v, eff, fits, wr)
    BY <1>4
  <2> DEFINE out   == Dispatch(f, v, eff)
             inner == AfterUnwrap(pd_session, f)
             plain == Frame(f.addr, f.sqn, "SCS_REPLY", 0, out.code, out.data, f.id)
             r     == Wrap(inner, plain)
  <2>1. \/ Refuse(f, nak(NakScb), fits, wr)
        \/ Refuse(f, NoReply, fits, wr)
        \/ out.kind = "SEND" /\ Dispatched(f, v, eff, r, fits, wr)
        \/ Dispatched(f, v, eff, BuildBusy(f), fits, wr)
        \/ Dispatched(f, v, eff, NoReply, fits, wr)
    <3>1. out.kind \in {"SEND", "BUSY", "DROP"}
      BY DispatchKind
    <3> HIDE DEF out
    <3>2. CASE out.kind = "SEND"
      BY <3>2, Zenon DEF HandleOperational, out
    <3>3. CASE out.kind = "BUSY"
      BY <3>3 DEF HandleOperational, out
    <3>4. CASE out.kind = "DROP"
      BY <3>4 DEF HandleOperational, out
    <3> QED
      BY <3>1, <3>2, <3>3, <3>4
  <2>2. r.id = f.id /\ r.sqn = f.sqn
    <3> HIDE DEF inner
    <3>1. plain.id = f.id /\ plain.sqn = f.sqn /\ "sqn" \in DOMAIN plain /\ "id" \in DOMAIN plain
      BY DEF Frame
    <3> HIDE DEF plain
    <3> QED
      BY <3>1 DEF Wrap
  <2>a. nak(NakScb).id = f.id /\ nak(NakScb).sqn = f.sqn
    BY <1>1
  <2> HIDE DEF Done, r, nak
  <2>3. CASE Refuse(f, nak(NakScb), fits, wr)
    BY <2>3, <2>a, <1>0, RefuseSettles
  <2>4. CASE out.kind = "SEND" /\ Dispatched(f, v, eff, r, fits, wr)
    BY <2>2, <2>4, <1>0, DispatchedSettles
  <2>5. CASE Dispatched(f, v, eff, BuildBusy(f), fits, wr)
    BY <2>5, <1>0, <1>1, DispatchedSettles
  <2>6. CASE Dispatched(f, v, eff, NoReply, fits, wr) \/ Refuse(f, NoReply, fits, wr)
    BY <2>6, <1>0, DispatchedSettles, RefuseSettles
  <2> QED
    BY <2>1, <2>3, <2>4, <2>5, <2>6
<1>5. CASE Refuse(f, nak(NakScb), fits, wr)
  <2>1. nak(NakScb).id = f.id /\ nak(NakScb).sqn = f.sqn
    BY <1>1
  <2> HIDE DEF nak
  <2> QED
    BY <1>5, <2>1, RefuseSettles
<1>6. \/ Refuse(f, nak(NakScb), fits, wr)
      \/ \E eff : HandleClear(f, v, eff, fits, wr)
      \/ HandleChlng(f, fits, wr) \/ HandleScrypt(f, fits, wr)
      \/ \E eff : HandleOperational(f, v, eff, fits, wr)
  BY DEF PdFresh
<1> QED
  BY <1>2, <1>3, <1>4, <1>5, <1>6

\* What was protected stays so, unless it is excused.
KeepsProtected ==
    \A n \in 1..Len(log) :
        n \notin excused' /\ Protected(n, toPd, tx, cache)
            => n \in 1..Len(log') /\ Protected(n, toPd', tx', cache')

\* Replies leave the line or are corrupted on it, and what was protected stays so.
LEMMA LineKeepsAnswers ==
    ASSUME AnswerInv, FromLine(toAcu', toAcu), excused \subseteq excused',
           cache' = cache \/ cache' = NoCache, KeepsProtected
    PROVE  AnswerInv'
<1> DEFINE Fin(g)  == Final(g, log, toPd, tx, cache, excused)
           Fin2(g) == Final(g, log', toPd', tx', cache', excused')
<1>1. \A g, h : SameButBad(g, h) /\ Concludes(g, excused') => Concludes(h, excused) /\ h.id = g.id
  BY DEF Concludes, SameButBad
<1>2. \A g, h : SameButBad(g, h) /\ Fin(h) => Fin2(g)
  <2> SUFFICES ASSUME NEW g, NEW h, SameButBad(g, h), Fin(h), Concludes(g, excused')
               PROVE  g.id \in 1..Len(log') /\ Protected(g.id, toPd', tx', cache')
    BY DEF Final
  <2>1. Concludes(h, excused) /\ h.id = g.id
    BY <1>1
  <2>2. g.id \notin excused'
    BY DEF Concludes
  <2>3. g.id \in 1..Len(log) /\ Protected(g.id, toPd, tx, cache)
    BY <2>1 DEF Final
  <2> QED
    BY <2>2, <2>3 DEF KeepsProtected
<1>a. /\ \A j \in 1..Len(toAcu) : Fin(toAcu[j])
      /\ \A i, j \in 1..Len(toAcu) : Agrees(toAcu[i], toAcu[j], excused)
      /\ HasReply(cache) =>
            /\ cache.reply.id = cache.cmd.id /\ Fin(cache.reply)
            /\ \A j \in 1..Len(toAcu) :
                  Concludes(toAcu[j], excused) /\ toAcu[j].id = cache.cmd.id
                      => SameButBad(cache.reply, toAcu[j])
  BY DEF AnswerInv, Answered
<1> HIDE DEF Fin, Fin2
<1>3. ASSUME NEW j \in 1..Len(toAcu') PROVE Fin2(toAcu'[j])
  <2> PICK i \in 1..Len(toAcu) : SameButBad(toAcu'[j], toAcu[i])
    BY DEF FromLine
  <2> QED
    BY <1>2, <1>a
<1>4. ASSUME NEW i \in 1..Len(toAcu'), NEW j \in 1..Len(toAcu')
      PROVE  Agrees(toAcu'[i], toAcu'[j], excused')
  <2>1. PICK m \in 1..Len(toAcu) : SameButBad(toAcu'[i], toAcu[m])
    BY DEF FromLine
  <2>2. PICK n \in 1..Len(toAcu) : SameButBad(toAcu'[j], toAcu[n])
    BY DEF FromLine
  <2>3. Agrees(toAcu[m], toAcu[n], excused)
    BY <1>a
  <2> SUFFICES ASSUME Concludes(toAcu'[i], excused'), Concludes(toAcu'[j], excused'),
                      toAcu'[i].id = toAcu'[j].id
               PROVE  SameButBad(toAcu'[i], toAcu'[j])
    BY DEF Agrees
  <2>4. SameButBad(toAcu[m], toAcu[n])
    BY <2>1, <2>2, <2>3, <1>1 DEF Agrees
  <2> QED
    BY <2>1, <2>2, <2>4 DEF SameButBad
<1>5. ASSUME HasReply(cache')
      PROVE  /\ cache'.reply.id = cache'.cmd.id /\ Fin2(cache'.reply)
             /\ \A j \in 1..Len(toAcu') :
                   Concludes(toAcu'[j], excused') /\ toAcu'[j].id = cache'.cmd.id
                       => SameButBad(cache'.reply, toAcu'[j])
  <2>1. cache' = cache /\ HasReply(cache)
    BY <1>5 DEF HasReply
  <2>2. cache.reply.id = cache.cmd.id /\ Fin2(cache.reply)
    <3>1. SameButBad(cache.reply, cache.reply)
      BY DEF SameButBad
    <3> QED
      BY <2>1, <3>1, <1>2, <1>a
  <2>3. ASSUME NEW j \in 1..Len(toAcu'), Concludes(toAcu'[j], excused'), toAcu'[j].id = cache.cmd.id
        PROVE  SameButBad(cache.reply, toAcu'[j])
    <3>1. PICK i \in 1..Len(toAcu) : SameButBad(toAcu'[j], toAcu[i])
      BY DEF FromLine
    <3>2. SameButBad(cache.reply, toAcu[i])
      BY <2>1, <2>3, <3>1, <1>1, <1>a
    <3> QED
      BY <3>1, <3>2 DEF SameButBad
  <2> QED
    BY <2>1, <2>2, <2>3
<1> QED
  BY <1>3, <1>4, <1>5 DEF AnswerInv, Answered, Fin2

\* A retransmit, or a frame that arrived broken: the cached reply, or a reply that
\* concludes nothing, joins the replies on the line.
LEMMA AnswerAgain ==
    ASSUME KeysInv, OnceInv, AnswerInv, NEW g, toAcu' = Append(toAcu, g),
           ~Concludes(g, excused) \/ (HasReply(cache) /\ g = cache.reply),
           Follows(toPd', toPd), UNCHANGED <<log, tx, cache, excused>>
    PROVE  AnswerInv'
<1> DEFINE Fin(h)  == Final(h, log, toPd, tx, cache, excused)
           Fin2(h) == Final(h, log, toPd', tx, cache, excused)
           Con(h)  == Concludes(h, excused)
<1>0. /\ Len(toAcu) \in Nat /\ Len(toAcu') = Len(toAcu) + 1 /\ toAcu'[Len(toAcu) + 1] = g
      /\ \A j \in 1..Len(toAcu) : toAcu'[j] = toAcu[j]
  BY Appended DEF KeysInv, LineInv
<1>1. \A j \in 1..Len(toAcu') : \/ j \in 1..Len(toAcu) /\ toAcu'[j] = toAcu[j]
                                \/ toAcu'[j] = g
  BY <1>0
<1>2. \A n : Protected(n, toPd, tx, cache) => Protected(n, toPd', tx, cache)
  BY InstancesFollow DEF OnceInv
<1>3. \A h : Fin(h) => Fin2(h)
  BY <1>2 DEF Final
<1>a. /\ \A j \in 1..Len(toAcu) : Fin(toAcu[j])
      /\ \A i, j \in 1..Len(toAcu) : Agrees(toAcu[i], toAcu[j], excused)
      /\ HasReply(cache) =>
            /\ cache.reply.id = cache.cmd.id /\ Fin(cache.reply)
            /\ \A j \in 1..Len(toAcu) :
                  Con(toAcu[j]) /\ toAcu[j].id = cache.cmd.id => SameButBad(cache.reply, toAcu[j])
  BY DEF AnswerInv, Answered
<1>4. /\ Fin(g)
      /\ \A j \in 1..Len(toAcu) : Agrees(g, toAcu[j], excused) /\ Agrees(toAcu[j], g, excused)
      /\ Agrees(g, g, excused)
  <2>1. CASE ~Concludes(g, excused)
    BY <2>1 DEF Final, Agrees
  <2>2. CASE HasReply(cache) /\ g = cache.reply
    <3>1. Fin(g)
      BY <2>2, <1>a
    <3>2. \A j \in 1..Len(toAcu) : Con(toAcu[j]) /\ toAcu[j].id = g.id => SameButBad(g, toAcu[j])
      BY <2>2, <1>a
    <3> QED
      BY <3>1, <3>2 DEF Agrees, SameButBad
  <2> QED
    BY <2>1, <2>2
<1> HIDE DEF Fin, Fin2, Con
<1>5. \A j \in 1..Len(toAcu') : Fin2(toAcu'[j])
  BY <1>1, <1>3, <1>4, <1>a
<1>6. \A i, j \in 1..Len(toAcu') : Agrees(toAcu'[i], toAcu'[j], excused)
  BY <1>1, <1>4, <1>a
<1>7. ASSUME HasReply(cache)
      PROVE  /\ cache.reply.id = cache.cmd.id /\ Fin2(cache.reply)
             /\ \A j \in 1..Len(toAcu') :
                   Con(toAcu'[j]) /\ toAcu'[j].id = cache.cmd.id => SameButBad(cache.reply, toAcu'[j])
  <2>1. SameButBad(cache.reply, cache.reply)
    BY DEF SameButBad
  <2>2. Con(g) => g = cache.reply
    BY DEF Con
  <2> QED
    BY <1>1, <1>3, <1>7, <1>a, <2>1, <2>2
<1> QED
  BY <1>5, <1>6, <1>7 DEF AnswerInv, Answered, Fin2, Con

\* A fresh command: what was answered is another instance, and this one is
\* answered for the first time.
LEMMA FreshKeepsAnswers ==
    ASSUME KeysInv, LogInv, OnceInv, AnswerInv, toPd # <<>>, toPd' = Tail(toPd),
           PdCarries(Head(toPd)), NEW r, Settles(Head(toPd), r), UNCHANGED <<log, tx>>
    PROVE  AnswerInv'
<1> DEFINE f == Head(toPd)
           Fin(g)  == Final(g, log, toPd, tx, cache, excused)
           Fin2(g) == Final(g, log, toPd', tx, cache', excused')
           Con2(g) == Concludes(g, excused')
<1>0. /\ IsSeq(toPd) /\ SameInstance(toPd, tx) /\ Together(toPd, tx) /\ CachedCmd(cache)
      /\ f = toPd[1] /\ 1 \in 1..Len(toPd) /\ IsFrame(f) /\ CmdLogged(f, log)
      /\ Len(log) \in Nat /\ excused \subseteq excused'
  <2>1. IsSeq(toPd) /\ IsSeq(log)
    BY DEF KeysInv, LineInv, LogInv
  <2>2. f = toPd[1] /\ 1 \in 1..Len(toPd)
    BY <2>1, Taken
  <2> QED
    BY <2>1, <2>2 DEF KeysInv, LineInv, OnceInv, LogInv, PdCarries, Carries, IsSeq
<1>1. \A g : Con2(g) => Concludes(g, excused)
  BY <1>0 DEF Concludes
<1>2. ASSUME NEW g, Fin(g), Con2(g) PROVE g.id # f.id /\ Fin2(g)
  <2>1. Protected(g.id, toPd, tx, cache) /\ g.id \in 1..Len(log)
    BY <1>1, <1>2 DEF Final
  <2>2. f.id # g.id
    <3> SUFFICES ASSUME f.id = g.id PROVE FALSE
      OBVIOUS
    <3>1. Recognises(cache, f)
      BY <2>1, <1>0 DEF Protected
    <3> QED
      BY <3>1, <1>0, RecognisedIsRetransmit DEF PdCarries
  <2>3. Protected(g.id, Tail(toPd), tx, cache')
    BY <2>1, <2>2, <1>0, OtherInstance
  <2> QED
    BY <2>1, <2>2, <2>3 DEF Final
<1>3. r # NoReply => r.id = f.id /\ Fin2(r)
  <2> SUFFICES ASSUME r # NoReply, Con2(r)
               PROVE  r.id \in 1..Len(log) /\ Protected(r.id, toPd', tx, cache')
    BY DEF Final, Settles
  <2>1. r.id = f.id /\ f.id # 0 /\ f.sqn # 0 /\ cache' # NoCache
    BY DEF Concludes, Settles
  <2>2. cache'.cmd = f
    BY <2>1 DEF PdCarries
  <2>3. Protected(f.id, Tail(toPd), tx, cache')
    BY <2>1, <2>2, <1>0, FirstRun
  <2>4. f.id \in 1..Len(log)
    BY <2>1, <1>0 DEF CmdLogged
  <2> QED
    BY <2>1, <2>3, <2>4
<1>a. /\ \A j \in 1..Len(toAcu) : Fin(toAcu[j])
      /\ \A i, j \in 1..Len(toAcu) : Agrees(toAcu[i], toAcu[j], excused)
  BY DEF AnswerInv, Answered
<1>b. \A g : ~Con2(g) => Fin2(g)
  BY DEF Final
<1> HIDE DEF f, Fin, Fin2
<1>4. \A j \in 1..Len(toAcu') : \/ j \in 1..Len(toAcu) /\ toAcu'[j] = toAcu[j]
                                \/ r # NoReply /\ toAcu'[j] = r
  <2>1. CASE toAcu' = toAcu
    BY <2>1
  <2>2. CASE r # NoReply /\ toAcu' = Append(toAcu, r)
    <3>1. /\ Len(toAcu) \in Nat /\ Len(toAcu') = Len(toAcu) + 1 /\ toAcu'[Len(toAcu) + 1] = r
          /\ \A j \in 1..Len(toAcu) : toAcu'[j] = toAcu[j]
      BY <2>2, Appended DEF KeysInv, LineInv
    <3> QED
      BY <2>2, <3>1
  <2> QED
    BY <2>1, <2>2 DEF Settles, Replied
<1>5. ASSUME NEW j \in 1..Len(toAcu'), Con2(toAcu'[j])
      PROVE  \/ j \in 1..Len(toAcu) /\ toAcu'[j] = toAcu[j] /\ toAcu'[j].id # f.id
             \/ r # NoReply /\ toAcu'[j] = r /\ toAcu'[j].id = f.id
  BY <1>2, <1>3, <1>4, <1>5, <1>a
<1>6. \A j \in 1..Len(toAcu') : Fin2(toAcu'[j])
  BY <1>2, <1>3, <1>5, <1>a, <1>b
<1>7. ASSUME NEW i \in 1..Len(toAcu'), NEW j \in 1..Len(toAcu')
      PROVE  Agrees(toAcu'[i], toAcu'[j], excused')
  <2> SUFFICES ASSUME Con2(toAcu'[i]), Con2(toAcu'[j]), toAcu'[i].id = toAcu'[j].id
               PROVE  SameButBad(toAcu'[i], toAcu'[j])
    BY DEF Agrees
  <2> HIDE DEF Con2
  <2>1. CASE toAcu'[i].id = f.id
    BY <2>1, <1>5 DEF SameButBad
  <2>2. CASE toAcu'[i].id # f.id
    <3>1. /\ i \in 1..Len(toAcu) /\ toAcu'[i] = toAcu[i] /\ j \in 1..Len(toAcu) /\ toAcu'[j] = toAcu[j]
      BY <2>2, <1>5
    <3>2. /\ Concludes(toAcu[i], excused) /\ Concludes(toAcu[j], excused)
          /\ Agrees(toAcu[i], toAcu[j], excused)
      BY <3>1, <1>1, <1>a
    <3> QED
      BY <3>1, <3>2 DEF Agrees
  <2> QED
    BY <2>1, <2>2
<1>8. ASSUME HasReply(cache')
      PROVE  /\ cache'.reply.id = cache'.cmd.id /\ Fin2(cache'.reply)
             /\ \A j \in 1..Len(toAcu') :
                   Con2(toAcu'[j]) /\ toAcu'[j].id = cache'.cmd.id
                       => SameButBad(cache'.reply, toAcu'[j])
  <2>1. cache'.cmd = f /\ cache'.reply = r /\ r # NoReply
    BY <1>8 DEF HasReply, Settles, Replied, f
  <2>2. ASSUME NEW j \in 1..Len(toAcu'), Con2(toAcu'[j]), toAcu'[j].id = f.id
        PROVE  SameButBad(r, toAcu'[j])
    BY <1>5, <2>2 DEF SameButBad
  <2> QED
    BY <2>1, <2>2, <1>3
<1> QED
  BY <1>6, <1>7, <1>8 DEF AnswerInv, Answered, Fin2

\* A step of the slot keeps what is protected: a new command has a new number.
LEMMA SlotKeepsProtected ==
    ASSUME KeysInv, LogInv, OnceInv, SlotLogs, NEW n \in 1..Len(log), NEW c,
           Protected(n, toPd, tx, c)
    PROVE  Protected(n, toPd', tx', c)
<1>0. /\ IsSeq(toPd) /\ SameInstance(toPd, tx) /\ Together(toPd, tx) /\ Len(log) \in Nat
      /\ \A j \in 1..Len(toPd) : CmdLogged(toPd[j], log)
  BY DEF KeysInv, LineInv, OnceInv, LogInv, IsSeq
<1>1. CASE SlotListens
  BY <1>1 DEF SlotListens
<1>2. ASSUME NEW f, SlotHandshakes(f) PROVE Protected(n, toPd', tx', c)
  BY <1>0, <1>2, InstancesNew DEF SlotHandshakes
<1>3. ASSUME NEW f, SlotIssues(f), SameButBad(f, tx) PROVE Protected(n, toPd', tx', c)
  BY <1>0, <1>3, InstancesRepeated DEF SlotIssues
<1>4. ASSUME NEW f, SlotIssues(f), f.id = Len(log) + 1 PROVE Protected(n, toPd', tx', c)
  <2>1. n # f.id /\ \A j \in 1..Len(toPd) : toPd[j].id # f.id
    BY <1>0, <1>4 DEF CmdLogged
  <2> QED
    BY <1>0, <1>4, <2>1, InstancesNew DEF SlotIssues
<1> QED
  BY <1>1, <1>2, <1>3, <1>4 DEF SlotLogs, SlotIssues

LEMMA AnswerStep ==
    ASSUME KeysInv, LogInv, OnceInv, AnswerInv, [Next]_vars
    PROVE  AnswerInv'
<1>0. /\ TypeOK /\ LineInv /\ IsFrame(tx) /\ IsSeq(toPd) /\ IsSeq(toAcu) /\ IsSeq(log)
      /\ \A j \in 1..Len(toPd) : IsFrame(toPd[j])
      /\ \A j \in 1..Len(toAcu) : IsFrame(toAcu[j])
      /\ Len(log) \in Nat
  BY DEF KeysInv, LineInv, LogInv, TxLogged, IsSeq
<1>1. CASE AcuNext /\ UNCHANGED pdVars
  <2>1. UNCHANGED <<excused, cache>>
    BY <1>1 DEF pdVars, runVars
  <2>2. SlotLogs /\ SlotTakes
    BY <1>0, <1>1, AcuNextLogs, AcuNextEffect DEF SlotEffect
  <2>3. FromLine(toAcu', toAcu)
    BY <2>2, <1>0, FromLineCases DEF SlotTakes
  <2>4. log' = log \/ Len(log') = Len(log) + 1
    <3>1. log' = log \/ \E m : log' = Append(log, m)
      BY <2>2 DEF SlotLogs, SlotIssues, SlotHandshakes, SlotListens
    <3>2. \A m : Len(Append(log, m)) = Len(log) + 1
      BY <1>0, Appended
    <3> QED
      BY <3>1, <3>2
  <2>5. ASSUME NEW n \in 1..Len(log), Protected(n, toPd, tx, cache)
        PROVE  n \in 1..Len(log') /\ Protected(n, toPd', tx', cache')
    <3>1. Protected(n, toPd', tx', cache')
      BY <2>1, <2>2, <2>5, SlotKeepsProtected
    <3>2. n \in 1..Len(log')
      BY <2>4, <2>5, <1>0
    <3> QED
      BY <3>1, <3>2
  <2>6. KeepsProtected
    BY <2>5 DEF KeepsProtected
  <2> QED
    BY <2>1, <2>3, <2>6, LineKeepsAnswers
<1>2. CASE PdNext /\ UNCHANGED acuVars
  <2>0. UNCHANGED <<log, tx>>
    BY <1>2 DEF acuVars, countVars
  <2>1. CASE \E v \in Verdicts, fits \in ReplyFits, wr \in WriteOutcomes : PdFresh(v, fits, wr)
    <3>1. toPd # <<>> /\ toPd' = Tail(toPd)
      BY <2>1 DEF PdFresh, PdTakes
    <3>2. PdCarries(Head(toPd)) /\ \E r : Settles(Head(toPd), r)
      BY <2>1, PdFreshCarries, FreshSettles
    <3> QED
      BY <2>0, <3>1, <3>2, FreshKeepsAnswers
  <2>2. CASE \E wr \in WriteOutcomes : PdBadCheck(wr) \/ PdNotOurs \/ PdRetransmit(wr)
    <3> DEFINE nak == BuildNak(Head(toPd), NakBadCheck)
    <3>1. /\ toPd # <<>> /\ toPd' = Tail(toPd) /\ UNCHANGED <<cache, excused>>
          /\ \/ toAcu' = toAcu \/ toAcu' = Append(toAcu, nak)
             \/ HasReply(cache) /\ toAcu' = Append(toAcu, cache.reply)
      BY <2>2, AnswerSent DEF HasReply
    <3>2. Follows(toPd', toPd)
      BY <3>1, <1>0, FollowsCases
    <3>3. ~Concludes(nak, excused)
      <4>1. nak.code = "NAK" /\ nak.data = <<NakBadCheck>>
        BY DEF BuildNak, BuildReply, Frame
      <4> QED
        BY <4>1 DEF Concludes
    <3> HIDE DEF nak
    <3>4. CASE toAcu' = toAcu
      <4>1. FromLine(toAcu', toAcu)
        BY <3>4, <1>0, FromLineCases
      <4>2. \A n : Protected(n, toPd, tx, cache) => Protected(n, toPd', tx', cache')
        BY <2>0, <3>1, <3>2, InstancesFollow DEF OnceInv
      <4>3. KeepsProtected
        BY <2>0, <4>2 DEF KeepsProtected
      <4> QED
        BY <3>1, <4>1, <4>3, LineKeepsAnswers
    <3> QED
      BY <2>0, <3>1, <3>2, <3>3, <3>4, AnswerAgain
  <2>3. CASE PdGoOffline \/ PdRestart
    <3>1. ForgetCache /\ UNCHANGED <<toPd, toAcu>>
      BY <2>3 DEF PdGoOffline, PdRestart, wireVars
    <3>2. /\ cache' = NoCache /\ excused \subseteq excused'
          /\ cache # NoCache => cache.cmd.id \in excused'
      BY <3>1 DEF ForgetCache
    <3>3. ASSUME NEW n, n \notin excused', Protected(n, toPd, tx, cache)
          PROVE  Protected(n, toPd', tx', cache')
      <4>1. \A x : Recognises(cache, x) => x.id # n
        BY <3>2, <3>3 DEF Recognises, SameButBad
      <4> QED
        BY <2>0, <3>1, <3>3, <4>1 DEF Protected
    <3>4. FromLine(toAcu', toAcu)
      BY <3>1, <1>0, FromLineCases
    <3>5. KeepsProtected
      BY <2>0, <3>3 DEF KeepsProtected
    <3> QED
      BY <3>2, <3>4, <3>5, LineKeepsAnswers
  <2>4. CASE PdNotOurs
    BY <2>2, <2>4 DEF WriteOutcomes
  <2> QED
    BY <1>2, <2>1, <2>2, <2>3, <2>4 DEF PdNext
<1>3. CASE WireNext /\ UNCHANGED <<acuVars, pdVars>>
  <2>1. UNCHANGED <<log, tx, excused, cache>>
    BY <1>3 DEF acuVars, pdVars, countVars, runVars
  <2>2. Follows(toPd', toPd) /\ FromLine(toAcu', toAcu)
    BY <1>0, <1>3, WireFollows, WireFromLine
  <2>3. \A n : Protected(n, toPd, tx, cache) => Protected(n, toPd', tx', cache')
    BY <2>1, <2>2, InstancesFollow DEF OnceInv
  <2>4. KeepsProtected
    BY <2>1, <2>3 DEF KeepsProtected
  <2> QED
    BY <2>1, <2>2, <2>4, LineKeepsAnswers
<1>4. CASE Tick \/ UNCHANGED vars
  <2>1. UNCHANGED <<log, tx, excused, cache, toPd, toAcu>>
    BY <1>4 DEF Tick, vars, pdVars, acuVars, countVars, runVars, wireVars
  <2> QED
    BY <2>1 DEF AnswerInv
<1> QED
  BY <1>1, <1>2, <1>3, <1>4 DEF Next

LEMMA AnswerInit == Init => AnswerInv
<1> SUFFICES ASSUME Init PROVE AnswerInv
  OBVIOUS
<1>1. toAcu = <<>> /\ cache = NoCache
  BY DEF Init, WireInit, PdInit
<1> QED
  BY <1>1 DEF AnswerInv, Answered, HasReply

\* However often a command is repeated, and whatever is lost, corrupted, cut
\* short or restarted, it has one answer: the conclusive replies to it on the
\* line, and the reply process_frame keeps for the next repeat, are the same
\* bytes.  No assumption is made about the application, its verdicts or the size
\* of its replies: a repeat may be swallowed, but is never answered differently,
\* because a command that was answered stays in the cache for as long as a copy
\* of it is on the line or may still be sent.
THEOREM OneAnswerEach == Spec => []OneAnswer
<1>1. KeysInv /\ LogInv /\ OnceInv /\ AnswerInv /\ [Next]_vars => AnswerInv'
  BY AnswerStep
<1>2. KeysInv /\ AnswerInv => OneAnswer
  <2> SUFFICES ASSUME KeysInv, AnswerInv, NEW i \in 1..Len(toAcu), Conclusive(toAcu[i])
               PROVE  /\ \A j \in 1..Len(toAcu) :
                            Conclusive(toAcu[j]) /\ toAcu[j].id = toAcu[i].id
                                => SameReply(toAcu[j], toAcu[i])
                      /\ cache # NoCache /\ cache.cmd.id = toAcu[i].id /\ cache.reply # NoReply
                                => SameReply(cache.reply, toAcu[i])
    BY DEF OneAnswer
  <2>1. \A j \in 1..Len(toAcu) : IsFrame(toAcu[j])
    BY DEF KeysInv, LineInv
  <2>2. HasReply(cache) => IsFrame(cache.reply)
    BY DEF KeysInv, PdKeysInv, HasReply
  <2>3. \A j \in 1..Len(toAcu) :
            Conclusive(toAcu[j]) /\ toAcu[j].id = toAcu[i].id => SameButBad(toAcu[j], toAcu[i])
    BY DEF AnswerInv, Answered, Agrees, Conclusive, Concludes
  <2>4. HasReply(cache) /\ cache.cmd.id = toAcu[i].id => SameButBad(cache.reply, toAcu[i])
    BY DEF AnswerInv, Answered, Conclusive, Concludes
  <2> QED
    BY <2>1, <2>2, <2>3, <2>4, SameReplyIsSame DEF HasReply
<1> QED
  BY <1>1, <1>2, AnswerInit, KeysAlwaysKnown, LogAgrees, OnceInvariant, PTL DEF Spec

-----------------------------------------------------------------------------
(* Without a Secure Channel the sequence number alone tells replies apart. *)
(* For an application that repeats a command until it is answered, on a    *)
(* line that may lose frames but does not corrupt them, that is enough:    *)
(* every reply is the reply to the command it is reported with, and the    *)
(* two ends implement the abstract command service Rpc.                    *)


\* An application that never gives a command up, a slot that is registered once,
\* no Secure Channel, and noise that swallows whole frames only.
Persistent ==
    /\ GivesUp = FALSE /\ MaxRegisters = 0 /\ Selectors = {}
    /\ "corrupt" \notin Faults

-----------------------------------------------------------------------------
(* With n commands issued and q the sequence number of the last one, what  *)
(* is on the line belongs to command n or to the one before it.            *)

CmdInWindow(f, n, q) ==
    /\ f.id \in Nat \ {0}
    /\ (f.id = n /\ f.sqn = q) \/ (f.id + 1 = n /\ f.sqn # q)

RplInWindow(g, n, q) ==
    /\ g.id \in Nat \ {0}
    /\ (g.id = n /\ (g.sqn = q \/ g.sqn = 0)) \/ (g.id + 1 = n /\ g.sqn # q)

\* A line is in the order in which the commands were issued.
InOrder(line) == \A i, j \in 1..Len(line) : i < j => line[i].id <= line[j].id

\* Nothing of an earlier command is left anywhere.
OnlyIds(line, n) == \A j \in 1..Len(line) : line[j].id = n
Settled(cmds, rpls, c, n) ==
    OnlyIds(cmds, n) /\ OnlyIds(rpls, n) /\ (c # NoCache => c.cmd.id = n)

\* The line in each direction.
LineSteady(cmds, rpls, n, q) ==
    /\ \A j \in 1..Len(cmds) : CmdInWindow(cmds[j], n, q)
    /\ \A j \in 1..Len(rpls) : RplInWindow(rpls[j], n, q)
    /\ InOrder(cmds) /\ InOrder(rpls)
    /\ \A i \in 1..Len(rpls), j \in 1..Len(cmds) : rpls[i].id <= cmds[j].id

\* The retransmit cache stands between the replies and the commands.
CacheSteady(cmds, rpls, c, n, q) ==
    c # NoCache =>
        /\ CmdInWindow(c.cmd, n, q)
        /\ \A i \in 1..Len(rpls) : rpls[i].id <= c.cmd.id
        /\ \A j \in 1..Len(cmds) : c.cmd.id <= cmds[j].id
        /\ c.reply # NoReply => RplInWindow(c.reply, n, q) /\ c.reply.id = c.cmd.id

Steady(cmds, rpls, c, n, q) ==
    LineSteady(cmds, rpls, n, q) /\ CacheSteady(cmds, rpls, c, n, q)

\* The slot and the frame it sent last.
LastSent(f, n, q) ==
    /\ IsFrame(f) /\ f.id = n /\ f.sqn = q /\ f.addr = address
    /\ f.scs = "NONE" /\ f.scb = 0 /\ f.mac = NoMac /\ f.bad = FALSE

SlotSteady ==
    /\ sc_phase = "IDLE" /\ registers = 0
    /\ Len(log) <= MaxIds
    /\ Len(log) = 0 => ~waiting /\ ~timed_out /\ next_seq = 0
    /\ Len(log) > 0 => LastSent(tx, Len(log), pending_seq)
    /\ Len(log) > 1 => pending_seq # 0
    /\ timed_out => ~waiting /\ next_seq = pending_seq
    /\ ~waiting /\ ~timed_out => Settled(toPd, toAcu, cache, Len(log))
    /\ ~waiting /\ ~timed_out /\ Len(log) > 0 => next_seq = AdvanceSqn(pending_seq)

\* What is on the line to the PD is in the clear and not corrupted.
PlainLine == \A j \in 1..Len(toPd) : toPd[j].scs = "NONE" /\ ~toPd[j].bad

\* An ACK is the ACK of a command that was carried out.
Earned(g, r) == g.code = "ACK" => r[g.id] > 0
AcksEarned ==
    /\ \A j \in 1..Len(toAcu) : Earned(toAcu[j], runs)
    /\ cache # NoCache /\ cache.reply # NoReply => Earned(cache.reply, runs)

RpcInv ==
    /\ SlotSteady /\ PlainLine
    /\ Steady(toPd, toAcu, cache, Len(log), pending_seq)
    /\ AcksEarned
    /\ ReplyAnswers

-----------------------------------------------------------------------------
(* What a step may do to a steady line.                                    *)

\* Frames leave a line at its head.
Behead(new, old) ==
    \E d \in {0, 1} : \A j \in 1..Len(new) : j + d \in 1..Len(old) /\ new[j] = old[j + d]

LEMMA BeheadCases ==
    ASSUME NEW s, IsSeq(s)
    PROVE  Behead(s, s) /\ (s # <<>> => Behead(Tail(s), s))
<1>0. Len(s) \in Nat
  BY DEF IsSeq
<1>1. \A j \in 1..Len(s) : j + 0 \in 1..Len(s) /\ s[j] = s[j + 0]
  BY <1>0
<1>2. s # <<>> => \A j \in 1..Len(Tail(s)) : j + 1 \in 1..Len(s) /\ Tail(s)[j] = s[j + 1]
  BY Taken
<1> QED
  BY <1>1, <1>2 DEF Behead

LEMMA SteadyBeheaded ==
    ASSUME NEW cmds, NEW rpls, NEW c, NEW n, NEW q, NEW cmds2, NEW rpls2,
           Behead(cmds2, cmds), Behead(rpls2, rpls), Steady(cmds, rpls, c, n, q)
    PROVE  /\ Steady(cmds2, rpls2, c, n, q) /\ Steady(cmds2, rpls2, NoCache, n, q)
           /\ \A m : Settled(cmds, rpls, c, m) =>
                 Settled(cmds2, rpls2, c, m) /\ Settled(cmds2, rpls2, NoCache, m)
<1> PICK d \in {0, 1} : \A j \in 1..Len(cmds2) : j + d \in 1..Len(cmds) /\ cmds2[j] = cmds[j + d]
  BY DEF Behead
<1> PICK e \in {0, 1} : \A j \in 1..Len(rpls2) : j + e \in 1..Len(rpls) /\ rpls2[j] = rpls[j + e]
  BY DEF Behead
<1>1. /\ \A i, j \in 1..Len(cmds2) : i < j => i + d < j + d
      /\ \A i, j \in 1..Len(rpls2) : i < j => i + e < j + e
  OBVIOUS
<1>2. InOrder(cmds2) /\ InOrder(rpls2)
  BY <1>1 DEF Steady, LineSteady, InOrder
<1>3. LineSteady(cmds2, rpls2, n, q)
  BY <1>2 DEF Steady, LineSteady
<1>4. CacheSteady(cmds2, rpls2, c, n, q) /\ CacheSteady(cmds2, rpls2, NoCache, n, q)
  BY DEF Steady, CacheSteady
<1>5. \A m : Settled(cmds, rpls, c, m) =>
                 Settled(cmds2, rpls2, c, m) /\ Settled(cmds2, rpls2, NoCache, m)
  BY DEF Settled, OnlyIds
<1> QED
  BY <1>3, <1>4, <1>5 DEF Steady

\* A copy of the last command is sent.
LEMMA SteadySent ==
    ASSUME NEW cmds, NEW rpls, NEW c, NEW n \in Nat \ {0}, NEW q, NEW f, IsSeq(cmds),
           f.id = n, f.sqn = q, Steady(cmds, rpls, c, n, q)
    PROVE  Steady(Append(cmds, f), rpls, c, n, q)
<1> DEFINE new == Append(cmds, f)
<1>0. /\ Len(cmds) \in Nat /\ Len(new) = Len(cmds) + 1 /\ new[Len(cmds) + 1] = f
      /\ \A j \in 1..Len(cmds) : new[j] = cmds[j]
  BY Appended
<1> HIDE DEF new
<1>1. \A j \in 1..Len(new) : \/ j \in 1..Len(cmds) /\ new[j] = cmds[j]
                             \/ j = Len(cmds) + 1 /\ new[j] = f
  BY <1>0
<1>2. \A g : CmdInWindow(g, n, q) \/ RplInWindow(g, n, q) => g.id \in Nat /\ g.id <= n
  BY DEF CmdInWindow, RplInWindow
<1>3. CmdInWindow(f, n, q)
  BY DEF CmdInWindow
<1>4. \A j \in 1..Len(new) : CmdInWindow(new[j], n, q)
  BY <1>1, <1>3 DEF Steady, LineSteady
<1>5. InOrder(new)
  <2> SUFFICES ASSUME NEW i \in 1..Len(new), NEW j \in 1..Len(new), i < j
               PROVE  new[i].id <= new[j].id
    BY DEF InOrder
  <2>1. CASE j = Len(cmds) + 1
    <3>1. new[j].id = n /\ new[i].id \in Nat /\ new[i].id <= n
      BY <2>1, <1>0, <1>2, <1>4
    <3> QED
      BY <3>1
  <2>2. CASE j # Len(cmds) + 1
    <3>1. i \in 1..Len(cmds) /\ j \in 1..Len(cmds) /\ new[i] = cmds[i] /\ new[j] = cmds[j]
      BY <2>2, <1>0
    <3> QED
      BY <3>1 DEF Steady, LineSteady, InOrder
  <2> QED
    BY <2>1, <2>2
<1>6. LineSteady(new, rpls, n, q)
  BY <1>1, <1>2, <1>4, <1>5 DEF Steady, LineSteady
<1>7. CacheSteady(new, rpls, c, n, q)
  BY <1>1, <1>2 DEF Steady, CacheSteady
<1> QED
  BY <1>6, <1>7 DEF Steady, new

\* When everything is settled the next command may be issued, at another number.
LEMMA SteadyShifts ==
    ASSUME NEW cmds, NEW rpls, NEW c, NEW n \in Nat, NEW q, NEW p,
           n # 0 => p # q /\ p # 0,
           Settled(cmds, rpls, c, n), Steady(cmds, rpls, c, n, q)
    PROVE  Steady(cmds, rpls, c, n + 1, p)
<1>1. \A g : CmdInWindow(g, n, q) /\ g.id = n => CmdInWindow(g, n + 1, p)
  BY DEF CmdInWindow
<1>2. \A g : RplInWindow(g, n, q) /\ g.id = n => RplInWindow(g, n + 1, p)
  BY DEF RplInWindow
<1>3. LineSteady(cmds, rpls, n + 1, p)
  BY <1>1, <1>2 DEF Steady, LineSteady, Settled, OnlyIds
<1>4. CacheSteady(cmds, rpls, c, n + 1, p)
  BY <1>1, <1>2 DEF Steady, CacheSteady, Settled
<1> QED
  BY <1>3, <1>4 DEF Steady

\* The slot accepts a reply: it is the reply to the last command, and settles it.
LEMMA SteadyDelivered ==
    ASSUME NEW cmds, NEW rpls, NEW c, NEW n \in Nat, NEW q, IsSeq(rpls), rpls # <<>>,
           Head(rpls).sqn = q, Steady(cmds, rpls, c, n, q)
    PROVE  Head(rpls).id = n /\ n # 0 /\ Settled(cmds, rpls, c, n)
<1>0. Head(rpls) = rpls[1] /\ Len(rpls) \in Nat /\ 1 \in 1..Len(rpls)
  BY Taken
<1>1. Head(rpls).id = n /\ n # 0
  BY <1>0 DEF Steady, LineSteady, RplInWindow
<1>2. \A g : CmdInWindow(g, n, q) \/ RplInWindow(g, n, q) => g.id \in Nat /\ g.id <= n
  BY DEF CmdInWindow, RplInWindow
<1>3. OnlyIds(cmds, n)
  <2>1. \A j \in 1..Len(cmds) : cmds[j].id \in Nat /\ cmds[j].id <= n /\ n <= cmds[j].id
    BY <1>0, <1>1, <1>2 DEF Steady, LineSteady
  <2> QED
    BY <2>1 DEF OnlyIds
<1>4. OnlyIds(rpls, n)
  <2>1. ASSUME NEW j \in 1..Len(rpls) PROVE rpls[j].id = n
    <3>1. rpls[j].id \in Nat /\ rpls[j].id <= n
      BY <1>2 DEF Steady, LineSteady
    <3>2. CASE j = 1
      BY <3>2, <1>0, <1>1
    <3>3. CASE j # 1
      <4>1. 1 < j
        BY <3>3
      <4>2. n <= rpls[j].id
        BY <4>1, <1>0, <1>1 DEF Steady, LineSteady, InOrder
      <4> QED
        BY <3>1, <4>2
    <3> QED
      BY <3>2, <3>3
  <2> QED
    BY <2>1 DEF OnlyIds
<1>5. c # NoCache => c.cmd.id = n
  <2>1. c # NoCache => c.cmd.id \in Nat /\ c.cmd.id <= n /\ n <= c.cmd.id
    BY <1>0, <1>1, <1>2 DEF Steady, CacheSteady
  <2> QED
    BY <2>1
<1> QED
  BY <1>1, <1>3, <1>4, <1>5 DEF Settled

\* The PD takes the command f at the head of its line and answers, or not; the
\* cache holds f or nothing, or was f already.
LEMMA SteadyAnswered ==
    ASSUME NEW cmds, NEW rpls, NEW c, NEW n, NEW q, NEW c2, NEW rpls2, NEW g,
           IsSeq(cmds), cmds # <<>>, IsSeq(rpls), Steady(cmds, rpls, c, n, q),
           rpls2 = rpls \/ (rpls2 = Append(rpls, g) /\ RplInWindow(g, n, q) /\ g.id = Head(cmds).id),
           c2 # NoCache => /\ CmdInWindow(c2.cmd, n, q) /\ c2.cmd.id = Head(cmds).id
                           /\ c2.reply # NoReply =>
                                 RplInWindow(c2.reply, n, q) /\ c2.reply.id = c2.cmd.id
    PROVE  /\ Steady(Tail(cmds), rpls2, c2, n, q)
           /\ \A m : Settled(cmds, rpls, c, m) => Settled(Tail(cmds), rpls2, c2, m)
<1> DEFINE f   == Head(cmds)
           new == Tail(cmds)
<1>0. /\ f = cmds[1] /\ Len(cmds) \in Nat /\ 1 \in 1..Len(cmds)
      /\ \A j \in 1..Len(new) : j + 1 \in 1..Len(cmds) /\ 1 < j + 1 /\ new[j] = cmds[j + 1]
  BY Taken
<1>1. LineSteady(new, rpls, n, q)
  <2>1. Behead(new, cmds) /\ Behead(rpls, rpls)
    BY BeheadCases
  <2> HIDE DEF new
  <2>2. Steady(new, rpls, c, n, q)
    BY <2>1, SteadyBeheaded
  <2> QED
    BY <2>2 DEF Steady
<1> HIDE DEF new, f
<1>2. \A j \in 1..Len(new) : f.id <= new[j].id
  BY <1>0 DEF Steady, LineSteady, InOrder
<1>3. \A i \in 1..Len(rpls) : rpls[i].id <= f.id
  BY <1>0 DEF Steady, LineSteady
<1>4. f.id \in Nat
  BY <1>0 DEF Steady, LineSteady, CmdInWindow
<1>5. \A i \in 1..Len(rpls2) : RplInWindow(rpls2[i], n, q) /\ rpls2[i].id <= f.id
  <2>1. CASE rpls2 = rpls
    BY <2>1, <1>1, <1>3 DEF LineSteady
  <2>2. CASE rpls2 = Append(rpls, g) /\ RplInWindow(g, n, q) /\ g.id = f.id
    <3>1. /\ Len(rpls) \in Nat /\ Len(rpls2) = Len(rpls) + 1 /\ rpls2[Len(rpls) + 1] = g
          /\ \A j \in 1..Len(rpls) : rpls2[j] = rpls[j]
      BY <2>2, Appended
    <3>2. \A i \in 1..Len(rpls2) : i \in 1..Len(rpls) \/ i = Len(rpls) + 1
      BY <3>1
    <3> QED
      BY <2>2, <3>1, <3>2, <1>1, <1>3, <1>4 DEF LineSteady
  <2> QED
    BY <2>1, <2>2 DEF f
<1>6. InOrder(rpls2)
  <2>1. CASE rpls2 = rpls
    BY <2>1, <1>1 DEF LineSteady
  <2>2. CASE rpls2 = Append(rpls, g) /\ g.id = f.id
    <3>1. /\ Len(rpls) \in Nat /\ Len(rpls2) = Len(rpls) + 1 /\ rpls2[Len(rpls) + 1] = g
          /\ \A j \in 1..Len(rpls) : rpls2[j] = rpls[j]
      BY <2>2, Appended
    <3>2. ASSUME NEW i \in 1..Len(rpls2), NEW j \in 1..Len(rpls2), i < j
          PROVE  rpls2[i].id <= rpls2[j].id
      <4>1. CASE j = Len(rpls) + 1
        BY <4>1, <3>1, <2>2, <1>5
      <4>2. CASE j # Len(rpls) + 1
        <5>1. i \in 1..Len(rpls) /\ j \in 1..Len(rpls) /\ rpls2[i] = rpls[i] /\ rpls2[j] = rpls[j]
          BY <3>1, <3>2, <4>2
        <5> QED
          BY <5>1, <3>2, <1>1 DEF LineSteady, InOrder
      <4> QED
        BY <4>1, <4>2
    <3> QED
      BY <3>2 DEF InOrder
  <2> QED
    BY <2>1, <2>2 DEF f
<1>7. LineSteady(new, rpls2, n, q)
  <2>1. \A i \in 1..Len(rpls2), j \in 1..Len(new) : rpls2[i].id <= new[j].id
    <3> SUFFICES ASSUME NEW i \in 1..Len(rpls2), NEW j \in 1..Len(new)
                 PROVE  rpls2[i].id <= new[j].id
      OBVIOUS
    <3>1. rpls2[i].id \in Nat /\ rpls2[i].id <= f.id
      BY <1>5 DEF RplInWindow
    <3>2. new[j].id \in Nat /\ f.id <= new[j].id
      BY <1>1, <1>2 DEF LineSteady, CmdInWindow
    <3> QED
      BY <3>1, <3>2, <1>4
  <2> QED
    BY <2>1, <1>1, <1>5, <1>6 DEF LineSteady
<1>8. CacheSteady(new, rpls2, c2, n, q)
  BY <1>2, <1>5 DEF CacheSteady, f
<1>9. ASSUME NEW m, Settled(cmds, rpls, c, m) PROVE Settled(new, rpls2, c2, m)
  <2>1. f.id = m /\ OnlyIds(new, m) /\ OnlyIds(rpls, m)
    BY <1>0, <1>9 DEF Settled, OnlyIds
  <2>2. OnlyIds(rpls2, m)
    <3>1. CASE rpls2 = rpls
      BY <2>1, <3>1
    <3>2. CASE rpls2 = Append(rpls, g) /\ g.id = f.id
      <4>1. /\ Len(rpls) \in Nat /\ Len(rpls2) = Len(rpls) + 1 /\ rpls2[Len(rpls) + 1] = g
            /\ \A j \in 1..Len(rpls) : rpls2[j] = rpls[j]
        BY <3>2, Appended
      <4>2. \A i \in 1..Len(rpls2) : i \in 1..Len(rpls) \/ i = Len(rpls) + 1
        BY <4>1
      <4> QED
        BY <2>1, <3>2, <4>1, <4>2 DEF OnlyIds
    <3> QED
      BY <3>1, <3>2 DEF f
  <2> QED
    BY <2>1, <2>2 DEF Settled, f
<1> QED
  BY <1>7, <1>8, <1>9 DEF Steady, new

-----------------------------------------------------------------------------
(* The slot, without a Secure Channel.                                     *)

\* It sends the last command again, or the next one.
SlotWrites(f) ==
    /\ toPd' = Append(toPd, f) /\ tx' = f /\ toAcu' = toAcu
    /\ IsFrame(f) /\ f.sqn = next_seq /\ f.addr = address
    /\ f.scs = "NONE" /\ f.scb = 0 /\ f.mac = NoMac /\ f.bad = FALSE
    /\ ~waiting /\ waiting' = TRUE /\ timed_out' = FALSE /\ pending_seq' = f.sqn
    /\ delivered' = delivered
SlotRepeats(f)  == SlotWrites(f) /\ timed_out /\ log' = log /\ f.id = tx.id
SlotProceeds(f) == /\ SlotWrites(f) /\ ~timed_out /\ log' = Append(log, f.mac)
                   /\ f.id = Len(log) + 1 /\ Len(log) < MaxIds

SlotTimesOut ==
    /\ UNCHANGED <<toPd, toAcu, tx, log, pending_seq, delivered>>
    /\ waiting /\ waiting' = FALSE /\ timed_out' = TRUE /\ next_seq' = pending_seq

SlotAccepts ==
    /\ toAcu # <<>> /\ toAcu' = Tail(toAcu) /\ UNCHANGED <<toPd, tx, log, pending_seq>>
    /\ waiting /\ Head(toAcu).sqn = pending_seq
    /\ waiting' = FALSE /\ timed_out' = FALSE /\ next_seq' = AdvanceSqn(pending_seq)
    /\ delivered'.id = Head(toAcu).id /\ delivered'.cmd = tx.id
    /\ delivered'.code = Head(toAcu).code

SlotSkips ==
    /\ SlotTakes
    /\ UNCHANGED <<toPd, tx, log, next_seq, pending_seq, waiting, timed_out, delivered>>

SlotPlain ==
    \/ \E f : SlotRepeats(f) \/ SlotProceeds(f)
    \/ SlotTimesOut \/ SlotAccepts \/ SlotSkips

LEMMA SendPlain ==
    ASSUME Persistent, SlotSteady, IsSeq(log), NEW c, NEW wr \in BOOLEAN, SendCommand(c, wr)
    PROVE  SlotPlain
<1> DEFINE f == Frame(address, next_seq, "NONE", 0, c.code, c.data, 0)
           retry == timed_out /\ f = Bytes(tx)
           i == IF retry THEN tx.id ELSE ids + 1
           g == [f EXCEPT !.id = i]
<1>0. sc_phase # "ESTABLISHED" /\ GivesUp = FALSE
  BY DEF SlotSteady, Persistent
<1>1. CASE ~wr
  <2>1. UNCHANGED <<toPd, toAcu, tx, log, next_seq, pending_seq, waiting, timed_out, delivered>>
    BY <1>1 DEF SendCommand
  <2> QED
    BY <2>1 DEF SlotPlain, SlotSkips, SlotTakes
<1>2. CASE wr
  <2>1. /\ toPd' = Append(toPd, g) /\ tx' = g /\ waiting' = TRUE /\ pending_seq' = g.sqn
        /\ timed_out' = FALSE /\ ~waiting /\ delivered' = delivered /\ toAcu' = toAcu
        /\ log' = IF retry THEN log ELSE Append(log, f.mac)
        /\ retry \/ ids < MaxIds
        /\ ~timed_out \/ (tx.code = c.code /\ tx.data = c.data)
    BY <1>0, <1>2 DEF SendCommand, Transmitted, MayTransmit, MayMoveOn
  <2>2. /\ IsFrame(f) /\ f.sqn = next_seq /\ f.addr = address /\ f.scs = "NONE" /\ f.scb = 0
        /\ f.mac = NoMac /\ f.bad = FALSE /\ f.code = c.code /\ f.data = c.data /\ f.id = 0
    BY DEF Frame, IsFrame
  <2>3. timed_out => retry
    <3> SUFFICES ASSUME timed_out PROVE f = Bytes(tx)
      OBVIOUS
    <3>1. Len(log) \in Nat
      BY DEF IsSeq
    <3>2. LastSent(tx, Len(log), pending_seq) /\ next_seq = pending_seq
      BY <3>1 DEF SlotSteady
    <3>3. f = [f EXCEPT !.id = 0]
      BY <2>2 DEF Frame
    <3>4. tx.code = f.code /\ tx.data = f.data
      BY <2>1, <2>2
    <3> HIDE DEF f
    <3>5. [f EXCEPT !.id = 0] = [tx EXCEPT !.id = 0]
      BY <2>2, <3>2, <3>4 DEF LastSent, IsFrame
    <3> QED
      BY <3>3, <3>5 DEF Bytes
  <2> HIDE DEF f
  <2>4. /\ IsFrame(g) /\ g.sqn = next_seq /\ g.addr = address /\ g.scs = "NONE" /\ g.scb = 0
        /\ g.mac = NoMac /\ g.bad = FALSE /\ g.id = i /\ f.mac = g.mac
    <3> HIDE DEF i
    <3> QED
      BY <2>2 DEF IsFrame
  <2> HIDE DEF g
  <2>5. SlotWrites(g)
    BY <2>1, <2>4 DEF SlotWrites
  <2>6. CASE timed_out
    <3>1. SlotRepeats(g)
      BY <2>1, <2>3, <2>4, <2>5, <2>6 DEF SlotRepeats
    <3> QED
      BY <3>1 DEF SlotPlain
  <2>7. CASE ~timed_out
    <3>1. SlotProceeds(g)
      BY <2>1, <2>4, <2>5, <2>7 DEF SlotProceeds, ids
    <3> QED
      BY <3>1 DEF SlotPlain
  <2> QED
    BY <2>6, <2>7
<1> QED
  BY <1>1, <1>2

LEMMA SlotIsPlain ==
    ASSUME Persistent, SlotSteady, IsSeq(log), AcuNext
    PROVE  SlotPlain /\ UNCHANGED <<sc_phase, address, registers>>
<1>0. /\ WriteOutcomes \subseteq BOOLEAN /\ sc_phase = "IDLE" /\ registers = 0
      /\ Selectors = {} /\ MaxRegisters = 0
  BY DEF WriteOutcomes, SlotSteady, Persistent
<1>1. CASE \E c \in Cmds, wr \in WriteOutcomes : SendCommand(c, wr)
  <2>1. UNCHANGED <<sc_phase, address, registers>>
    BY <1>1 DEF SendCommand, cfgVars
  <2> QED
    BY <2>1, <1>0, <1>1, SendPlain
<1>2. CASE (\E k \in Keys : SetPdScbk(k)) \/ SetPdScbkD
  <2>1. /\ UNCHANGED <<toPd, toAcu, tx, log, next_seq, pending_seq, waiting, timed_out, delivered>>
        /\ UNCHANGED <<sc_phase, address, registers>>
    BY <1>2 DEF SetPdScbk, SetPdScbkD, countVars, wireVars, scVars, seqVars
  <2> QED
    BY <2>1 DEF SlotPlain, SlotSkips, SlotTakes
<1>3. CASE ReplyTimesOut
  <2>1. SlotTimesOut /\ UNCHANGED <<sc_phase, address, registers>>
    BY <1>3 DEF ReplyTimesOut, ReplyDue, SlotTimesOut, countVars, wireVars, scVars, cfgVars
  <2> QED
    BY <2>1 DEF SlotPlain
<1>4. CASE GoOffline
  <2>1. /\ UNCHANGED <<toPd, toAcu, tx, log, next_seq, pending_seq, waiting, timed_out, delivered>>
        /\ UNCHANGED <<sc_phase, address, registers>>
    BY <1>0, <1>4 DEF GoOffline, countVars, wireVars, scVars, seqVars, cfgVars
  <2> QED
    BY <2>1 DEF SlotPlain, SlotSkips, SlotTakes
<1>5. CASE \E wr \in WriteOutcomes : AcuReceive(wr)
  <2> DEFINE f == Head(toAcu)
  <2>1. toAcu # <<>> /\ toAcu' = Tail(toAcu) /\ UNCHANGED <<log, address, registers>>
    BY <1>5 DEF AcuReceive, countVars, cfgVars
  <2>2. Ignored \/ ProcessReply(f)
    BY <1>0, <1>5, Zenon DEF AcuReceive
  <2>3. \/ Ignored
        \/ /\ waiting /\ f.sqn = pending_seq
           /\ DeliverReply(f) /\ UNCHANGED <<toPd, sent_age, scVars, tx>>
    BY <1>0, <2>2 DEF ProcessReply
  <2>4. CASE Ignored
    BY <2>1, <2>4 DEF Ignored, SlotPlain, SlotSkips, SlotTakes, seqVars, scVars
  <2>5. CASE /\ waiting /\ f.sqn = pending_seq
             /\ DeliverReply(f) /\ UNCHANGED <<toPd, sent_age, scVars, tx>>
    <3>1. /\ delivered'.id = f.id /\ delivered'.cmd = tx.id /\ delivered'.code = f.code
          /\ waiting' = FALSE /\ timed_out' = FALSE /\ next_seq' = AdvanceSqn(pending_seq)
          /\ pending_seq' = pending_seq
      BY <2>5 DEF DeliverReply
    <3>2. SlotAccepts
      BY <2>1, <2>5, <3>1 DEF SlotAccepts
    <3> QED
      BY <2>1, <2>5, <3>2 DEF SlotPlain, scVars
  <2> QED
    BY <2>3, <2>4, <2>5
<1> QED
  BY <1>0, <1>1, <1>2, <1>3, <1>4, <1>5 DEF AcuNext, RegisterPd, StartScHandshake

-----------------------------------------------------------------------------
(* The PD, without a Secure Channel.                                       *)

\* How it answers the fresh command f.
PdAnswers(f, reply) ==
    /\ Replied(f, reply)
    /\ reply # NoReply => /\ reply.id = f.id /\ (reply.sqn = f.sqn \/ reply.sqn = 0)
                          /\ Earned(reply, runs')

LEMMA AckIsOk ==
    ASSUME NEW f, NEW v \in Verdicts, NEW eff, Dispatch(f, v, eff).code = "ACK"
    PROVE  v # "BUSY"
<1>1. v \in {"OK", "NOT_SUPPORTED", "BAD_PAYLOAD", "INVALID_ARG", "BUSY", "OTHER"}
  BY VerdictsAssumption
<1>2. Outcome("BUSY").code # "ACK"
  BY DEF Outcome
<1> QED
  BY <1>1, <1>2 DEF Dispatch

LEMMA FreshAnswers ==
    ASSUME NEW v \in Verdicts, NEW fits, NEW wr, PdFresh(v, fits, wr), Head(toPd).scs = "NONE",
           runs \in [1..MaxIds -> Nat], Head(toPd).id \in 1..MaxIds
    PROVE  \E reply : PdAnswers(Head(toPd), reply)
<1> DEFINE f == Head(toPd)
<1>1. PICK eff : HandleClear(f, v, eff, fits, wr)
  BY DEF PdFresh
<1> DEFINE out == Dispatch(f, v, eff)
           r   == BuildReply(f, out.code, out.data)
           nak == BuildNak(f, NakEncryption)
           busy == BuildBusy(f)
<1>2. \/ Refuse(f, nak, fits, wr)
      \/ Dispatched(f, v, eff, r, fits, wr)
      \/ Dispatched(f, v, eff, busy, fits, wr)
      \/ Dispatched(f, v, eff, NoReply, fits, wr)
  <2>1. out.kind \in {"SEND", "BUSY", "DROP"}
    BY DispatchKind
  <2> QED
    BY <1>1, <2>1 DEF HandleClear
<1>3. /\ nak.id = f.id /\ nak.sqn = f.sqn /\ nak.code = "NAK"
      /\ busy.id = f.id /\ busy.sqn = 0 /\ busy.code = "BUSY"
  BY DEF BuildNak, BuildReply, BuildBusy, Frame
<1>4. CASE Refuse(f, nak, fits, wr)
  <2>1. Replied(f, nak)
    BY <1>4, RefuseReplied
  <2> HIDE DEF nak
  <2> QED
    BY <2>1, <1>3 DEF PdAnswers, Earned
<1>5. CASE Dispatched(f, v, eff, busy, fits, wr)
  <2>1. Replied(f, busy)
    BY <1>5, DispatchedReplied
  <2> HIDE DEF busy
  <2> QED
    BY <2>1, <1>3 DEF PdAnswers, Earned
<1>6. CASE Dispatched(f, v, eff, NoReply, fits, wr)
  <2>1. Replied(f, NoReply)
    BY <1>6, DispatchedReplied
  <2> QED
    BY <2>1 DEF PdAnswers
<1>7. CASE Dispatched(f, v, eff, r, fits, wr)
  <2>1. Replied(f, r)
    BY <1>7, DispatchedReplied
  <2>2. out.code = "ACK" => runs'[f.id] > 0
    <3> SUFFICES ASSUME out.code = "ACK" PROVE runs'[f.id] > 0
      OBVIOUS
    <3>1. v # "BUSY"
      BY AckIsOk
    <3>2. runs' = IF v # "BUSY" /\ runs[f.id] < MaxRuns
                  THEN [runs EXCEPT ![f.id] = @ + 1] ELSE runs
      BY <1>7 DEF Dispatched, RecordRun
    <3> DEFINE n == f.id
    <3> HIDE DEF n
    <3>3. runs' = IF runs[n] < MaxRuns THEN [runs EXCEPT ![n] = runs[n] + 1] ELSE runs
      BY <3>1, <3>2 DEF n
    <3>4. n \in 1..MaxIds /\ runs[n] \in Nat
      BY DEF n
    <3>5. runs'[n] > 0
      BY <3>3, <3>4 DEF MaxRuns
    <3> QED
      BY <3>5 DEF n
  <2> HIDE DEF out
  <2>3. r.id = f.id /\ r.sqn = f.sqn /\ r.code = out.code
    BY DEF BuildReply, Frame
  <2> HIDE DEF r
  <2> QED
    BY <2>1, <2>2, <2>3 DEF PdAnswers, Earned
<1> QED
  BY <1>2, <1>4, <1>5, <1>6, <1>7

-----------------------------------------------------------------------------
(* The steps.                                                              *)

LEMMA NextNumber ==
    ASSUME NEW q \in 0..3
    PROVE  AdvanceSqn(q) # q /\ AdvanceSqn(q) # 0
BY DEF AdvanceSqn

\* What the slot writes without a Secure Channel.
LEMMA WriteKeepsPlain ==
    ASSUME IsSeq(toPd), PlainLine, NEW f, SlotWrites(f)
    PROVE  PlainLine'
<1>1. /\ Len(toPd) \in Nat /\ Len(toPd') = Len(toPd) + 1 /\ toPd'[Len(toPd) + 1] = f
      /\ \A j \in 1..Len(toPd) : toPd'[j] = toPd[j]
  BY Appended DEF SlotWrites
<1>2. \A j \in 1..Len(toPd') : j \in 1..Len(toPd) \/ j = Len(toPd) + 1
  BY <1>1
<1> QED
  BY <1>1, <1>2 DEF PlainLine, SlotWrites

LEMMA SlotKeepsRpc ==
    ASSUME KeysInv, LogInv, RpcInv, SlotPlain, UNCHANGED <<sc_phase, address, registers>>,
           UNCHANGED <<cache, runs>>
    PROVE  RpcInv'
<1> DEFINE n == Len(log)
           q == pending_seq
<1>0. /\ IsSeq(toPd) /\ IsSeq(toAcu) /\ IsSeq(log) /\ n \in Nat /\ q \in 0..3
      /\ Steady(toPd, toAcu, cache, n, q)
      /\ sc_phase' = "IDLE" /\ registers' = 0 /\ n <= MaxIds /\ MaxIds \in Nat
  BY WireBoundsAssumption DEF KeysInv, LineInv, LogInv, IsSeq, TypeOK, SlotTypeOK, RpcInv, SlotSteady
<1>1. ASSUME toAcu' = toAcu PROVE AcksEarned'
  BY <1>1 DEF RpcInv, AcksEarned
<1>2. ASSUME delivered' = delivered PROVE ReplyAnswers'
  BY <1>2 DEF RpcInv, ReplyAnswers
<1>3. ASSUME NEW f, SlotRepeats(f) PROVE RpcInv'
  <2>1. SlotWrites(f) /\ timed_out /\ log' = log /\ f.id = tx.id
    BY <1>3 DEF SlotRepeats
  <2>2. n > 0 /\ LastSent(tx, n, q) /\ next_seq = q
    BY <2>1, <1>0 DEF RpcInv, SlotSteady
  <2>3. f.id = n /\ f.sqn = q
    BY <2>1, <2>2 DEF LastSent, SlotWrites
  <2>4. Steady(Append(toPd, f), toAcu, cache, n, q)
    <3>1. n \in Nat \ {0}
      BY <2>2, <1>0
    <3> HIDE DEF n, q
    <3> QED
      BY <2>3, <3>1, <1>0, SteadySent
  <2>5. /\ toPd' = Append(toPd, f) /\ toAcu' = toAcu /\ pending_seq' = q /\ tx' = f
        /\ waiting' = TRUE /\ timed_out' = FALSE /\ delivered' = delivered
    BY <2>1, <2>3 DEF SlotWrites
  <2>6. LastSent(f, n, q)'
    BY <2>1, <2>3 DEF SlotWrites, LastSent
  <2>7. SlotSteady'
    BY <2>1, <2>2, <2>5, <2>6, <1>0 DEF RpcInv, SlotSteady
  <2>8. PlainLine'
    BY <2>1, <1>0, WriteKeepsPlain DEF RpcInv
  <2> QED
    BY <2>1, <2>4, <2>5, <2>7, <2>8, <1>1, <1>2 DEF RpcInv
<1>4. ASSUME NEW f, SlotProceeds(f) PROVE RpcInv'
  <2>1. SlotWrites(f) /\ ~timed_out /\ log' = Append(log, f.mac) /\ f.id = n + 1 /\ n < MaxIds
    BY <1>4 DEF SlotProceeds
  <2>2. ~waiting /\ f.sqn = next_seq
    BY <2>1 DEF SlotWrites
  <2>3. Settled(toPd, toAcu, cache, n) /\ (n # 0 => f.sqn = AdvanceSqn(q)) /\ (n = 0 => f.sqn = 0)
    BY <2>1, <2>2, <1>0 DEF RpcInv, SlotSteady
  <2>4. n # 0 => f.sqn # q /\ f.sqn # 0
    BY <2>3, <1>0, NextNumber
  <2>5. Len(log') = n + 1
    BY <2>1, <1>0, Appended
  <2> HIDE DEF n, q
  <2>6. Steady(toPd, toAcu, cache, n + 1, f.sqn)
    BY <2>3, <2>4, <1>0, SteadyShifts
  <2>7. Steady(Append(toPd, f), toAcu, cache, n + 1, f.sqn)
    <3>1. n + 1 \in Nat \ {0}
      BY <1>0
    <3> QED
      BY <2>1, <2>6, <3>1, <1>0, SteadySent
  <2>8. /\ toPd' = Append(toPd, f) /\ toAcu' = toAcu /\ pending_seq' = f.sqn /\ tx' = f
        /\ waiting' = TRUE /\ timed_out' = FALSE /\ delivered' = delivered
    BY <2>1 DEF SlotWrites
  <2>9. LastSent(tx, Len(log), pending_seq)'
    BY <2>1, <2>5, <2>8 DEF SlotWrites, LastSent
  <2>10. SlotSteady'
    BY <2>1, <2>4, <2>5, <2>8, <2>9, <1>0 DEF SlotSteady
  <2>11. PlainLine'
    BY <2>1, <1>0, WriteKeepsPlain DEF RpcInv
  <2> QED
    BY <2>5, <2>7, <2>8, <2>10, <2>11, <1>1, <1>2 DEF RpcInv
<1>5. CASE SlotTimesOut
  <2>1. /\ UNCHANGED <<toPd, toAcu, tx, log, pending_seq, delivered>> /\ waiting
        /\ waiting' = FALSE /\ timed_out' = TRUE /\ next_seq' = pending_seq
    BY <1>5 DEF SlotTimesOut
  <2>2. SlotSteady'
    BY <2>1, <1>0 DEF RpcInv, SlotSteady, LastSent
  <2> QED
    BY <2>1, <2>2, <1>1, <1>2 DEF RpcInv, PlainLine
<1>6. ASSUME toAcu # <<>>, toAcu' = Tail(toAcu), UNCHANGED <<toPd, log, pending_seq>>
      PROVE  /\ Steady(toPd', toAcu', cache', Len(log'), pending_seq') /\ PlainLine' /\ AcksEarned'
             /\ Settled(toPd, toAcu, cache, n) => Settled(toPd', toAcu', cache', Len(log'))
  <2>1. Behead(toPd, toPd) /\ Behead(toAcu', toAcu)
    BY <1>0, <1>6, BeheadCases
  <2>2. /\ Steady(toPd, toAcu', cache, n, q)
        /\ \A m : Settled(toPd, toAcu, cache, m) => Settled(toPd, toAcu', cache, m)
    BY <2>1, <1>0, SteadyBeheaded
  <2>3. AcksEarned'
    BY <2>1 DEF Behead, RpcInv, AcksEarned
  <2> QED
    BY <2>2, <2>3, <1>6 DEF RpcInv, PlainLine
<1>7. CASE SlotAccepts
  <2>1. /\ toAcu # <<>> /\ toAcu' = Tail(toAcu) /\ UNCHANGED <<toPd, tx, log, pending_seq>>
        /\ waiting /\ Head(toAcu).sqn = q /\ waiting' = FALSE /\ timed_out' = FALSE
        /\ next_seq' = AdvanceSqn(pending_seq)
        /\ delivered'.id = Head(toAcu).id /\ delivered'.cmd = tx.id
    BY <1>7 DEF SlotAccepts
  <2>2. Head(toAcu).id = n /\ n # 0 /\ Settled(toPd, toAcu, cache, n)
    BY <2>1, <1>0, SteadyDelivered
  <2>3. LastSent(tx, n, q)
    BY <2>2, <1>0 DEF RpcInv, SlotSteady
  <2>4. ReplyAnswers'
    BY <2>1, <2>2, <2>3 DEF LastSent, ReplyAnswers
  <2>5. SlotSteady'
    BY <2>1, <2>2, <2>3, <1>0, <1>6 DEF RpcInv, SlotSteady, LastSent
  <2> QED
    BY <2>1, <2>4, <2>5, <1>6 DEF RpcInv
<1>8. CASE SlotSkips
  <2>1. /\ UNCHANGED <<toPd, tx, log, next_seq, pending_seq, waiting, timed_out, delivered>>
        /\ toAcu' = toAcu \/ (toAcu # <<>> /\ toAcu' = Tail(toAcu))
    BY <1>8 DEF SlotSkips, SlotTakes
  <2>2. CASE toAcu' = toAcu
    BY <2>1, <2>2, <1>0 DEF RpcInv, SlotSteady, LastSent, PlainLine, AcksEarned, ReplyAnswers
  <2>3. CASE toAcu # <<>> /\ toAcu' = Tail(toAcu)
    <3>1. SlotSteady'
      BY <2>1, <2>3, <1>0, <1>6 DEF RpcInv, SlotSteady, LastSent
    <3> QED
      BY <2>1, <2>3, <3>1, <1>2, <1>6 DEF RpcInv
  <2> QED
    BY <2>1, <2>2, <2>3
<1> QED
  BY <1>3, <1>4, <1>5, <1>7, <1>8 DEF SlotPlain

\* Steps of the PD and of the line leave the slot alone.
slotVars == <<log, tx, next_seq, pending_seq, waiting, timed_out, delivered,
              sc_phase, address, registers>>

LEMMA LineKeepsRpc ==
    ASSUME RpcInv, UNCHANGED slotVars, PlainLine', AcksEarned',
           Steady(toPd', toAcu', cache', Len(log), pending_seq),
           \A m : Settled(toPd, toAcu, cache, m) => Settled(toPd', toAcu', cache', m)
    PROVE  RpcInv'
<1>0. UNCHANGED <<log, tx, next_seq, pending_seq, waiting, timed_out, delivered,
                  sc_phase, address, registers>>
  BY DEF slotVars
<1>1. SlotSteady'
  BY <1>0 DEF RpcInv, SlotSteady, LastSent
<1>2. ReplyAnswers'
  BY <1>0 DEF RpcInv, ReplyAnswers
<1> QED
  BY <1>0, <1>1, <1>2 DEF RpcInv

\* Frames are swallowed, and the PD may lose its cache.
LEMMA LossKeepsRpc ==
    ASSUME RpcInv, UNCHANGED slotVars, runs' = runs, cache' = cache \/ cache' = NoCache,
           Behead(toPd', toPd), Behead(toAcu', toAcu)
    PROVE  RpcInv'
<1>1. /\ Steady(toPd', toAcu', cache, Len(log), pending_seq)
      /\ Steady(toPd', toAcu', NoCache, Len(log), pending_seq)
      /\ \A m : Settled(toPd, toAcu, cache, m) =>
             Settled(toPd', toAcu', cache, m) /\ Settled(toPd', toAcu', NoCache, m)
  BY SteadyBeheaded DEF RpcInv
<1>2. PlainLine'
  BY DEF RpcInv, PlainLine, Behead
<1>3. AcksEarned'
  BY DEF RpcInv, AcksEarned, Behead
<1> QED
  BY <1>1, <1>2, <1>3, LineKeepsRpc

\* The PD takes a command and answers it, or not.
LEMMA AnswerKeepsRpc ==
    ASSUME RpcInv, UNCHANGED slotVars, IsSeq(toPd), IsSeq(toAcu), toPd # <<>>, toPd' = Tail(toPd),
           NEW g, \A i : runs[i] > 0 => runs'[i] > 0,
           \/ toAcu' = toAcu
           \/ /\ toAcu' = Append(toAcu, g) /\ g.id = Head(toPd).id /\ Earned(g, runs')
              /\ RplInWindow(g, Len(log), pending_seq),
           cache' # NoCache =>
              /\ CmdInWindow(cache'.cmd, Len(log), pending_seq) /\ cache'.cmd.id = Head(toPd).id
              /\ cache'.reply # NoReply =>
                    /\ RplInWindow(cache'.reply, Len(log), pending_seq)
                    /\ cache'.reply.id = cache'.cmd.id /\ Earned(cache'.reply, runs')
    PROVE  RpcInv'
<1>1. /\ Steady(Tail(toPd), toAcu', cache', Len(log), pending_seq)
      /\ \A m : Settled(toPd, toAcu, cache, m) => Settled(Tail(toPd), toAcu', cache', m)
  <2> DEFINE n == Len(log)
             q == pending_seq
  <2>0. Steady(toPd, toAcu, cache, n, q)
    BY DEF RpcInv
  <2>1. toAcu' = toAcu \/ (toAcu' = Append(toAcu, g) /\ RplInWindow(g, n, q) /\ g.id = Head(toPd).id)
    OBVIOUS
  <2>2. cache' # NoCache => /\ CmdInWindow(cache'.cmd, n, q) /\ cache'.cmd.id = Head(toPd).id
                            /\ cache'.reply # NoReply =>
                                  RplInWindow(cache'.reply, n, q) /\ cache'.reply.id = cache'.cmd.id
    OBVIOUS
  <2> HIDE DEF n, q
  <2>3. \A rpls2, c2 :
           /\ rpls2 = toAcu \/ (rpls2 = Append(toAcu, g) /\ RplInWindow(g, n, q) /\ g.id = Head(toPd).id)
           /\ c2 # NoCache => /\ CmdInWindow(c2.cmd, n, q) /\ c2.cmd.id = Head(toPd).id
                              /\ c2.reply # NoReply =>
                                    RplInWindow(c2.reply, n, q) /\ c2.reply.id = c2.cmd.id
           => /\ Steady(Tail(toPd), rpls2, c2, n, q)
              /\ \A m : Settled(toPd, toAcu, cache, m) => Settled(Tail(toPd), rpls2, c2, m)
    BY <2>0, SteadyAnswered
  <2> QED
    BY <2>1, <2>2, <2>3 DEF n, q
<1>2. PlainLine'
  <2>1. Behead(toPd', toPd)
    BY BeheadCases
  <2> QED
    BY <2>1 DEF RpcInv, PlainLine, Behead
<1>3. AcksEarned'
  <2>0. \A h : Earned(h, runs) => Earned(h, runs')
    BY DEF Earned
  <2>1. \A j \in 1..Len(toAcu) : Earned(toAcu[j], runs')
    BY <2>0 DEF RpcInv, AcksEarned
  <2>2. \A j \in 1..Len(toAcu') : Earned(toAcu'[j], runs')
    <3>1. CASE toAcu' = toAcu
      BY <2>1, <3>1
    <3>2. CASE toAcu' = Append(toAcu, g) /\ Earned(g, runs')
      <4>1. /\ Len(toAcu) \in Nat /\ Len(toAcu') = Len(toAcu) + 1 /\ toAcu'[Len(toAcu) + 1] = g
            /\ \A j \in 1..Len(toAcu) : toAcu'[j] = toAcu[j]
        BY <3>2, Appended
      <4>2. \A j \in 1..Len(toAcu') : j \in 1..Len(toAcu) \/ j = Len(toAcu) + 1
        BY <4>1
      <4> QED
        BY <2>1, <3>2, <4>1, <4>2
    <3> QED
      BY <3>1, <3>2
  <2> QED
    BY <2>2 DEF AcksEarned
<1> QED
  BY <1>1, <1>2, <1>3, LineKeepsRpc

\* The command at the head of the line.
LEMMA HeadOfLine ==
    ASSUME KeysInv, LogInv, RpcInv, toPd # <<>>
    PROVE  LET f == Head(toPd)
           IN  /\ f.scs = "NONE" /\ ~f.bad /\ IsFrame(f)
               /\ CmdInWindow(f, Len(log), pending_seq)
               /\ f.id \in 1..MaxIds /\ f.id <= Len(log)
<1> DEFINE f == Head(toPd)
<1>1. f = toPd[1] /\ 1 \in 1..Len(toPd)
  BY Taken DEF KeysInv, LineInv
<1>2. f.scs = "NONE" /\ ~f.bad /\ IsFrame(f) /\ CmdLogged(f, log)
  BY <1>1 DEF RpcInv, PlainLine, KeysInv, LineInv, LogInv
<1>3. CmdInWindow(f, Len(log), pending_seq)
  BY <1>1 DEF RpcInv, Steady, LineSteady
<1>4. Len(log) \in Nat /\ Len(log) <= MaxIds /\ MaxIds \in Nat
  BY WireBoundsAssumption DEF LogInv, IsSeq, RpcInv, SlotSteady
<1>5. f.id \in 1..Len(log)
  BY <1>2 DEF CmdLogged
<1> QED
  BY <1>2, <1>3, <1>4, <1>5

\* The reply to a command of the window is in the window.
LEMMA ReplyInWindow ==
    ASSUME NEW f, NEW g, NEW n, NEW q, n \in Nat, n > 1 => q # 0, CmdInWindow(f, n, q),
           g.id = f.id, g.sqn = f.sqn \/ g.sqn = 0
    PROVE  RplInWindow(g, n, q)
BY DEF CmdInWindow, RplInWindow

LEMMA FreshKeepsRpc ==
    ASSUME KeysInv, LogInv, OnceInv, RpcInv, UNCHANGED slotVars,
           NEW v \in Verdicts, NEW fits, NEW wr, PdFresh(v, fits, wr)
    PROVE  RpcInv'
<1> DEFINE f == Head(toPd)
           n == Len(log)
           q == pending_seq
<1>0. toPd # <<>> /\ toPd' = Tail(toPd)
  BY DEF PdFresh, PdTakes
<1>1. /\ f.scs = "NONE" /\ CmdInWindow(f, n, q) /\ f.id \in 1..MaxIds
      /\ IsSeq(toPd) /\ IsSeq(toAcu)
  BY <1>0, HeadOfLine DEF KeysInv, LineInv
<1>2. runs \in [1..MaxIds -> Nat] /\ n \in Nat /\ (n > 1 => q # 0)
  BY DEF OnceInv, RpcInv, SlotSteady, LogInv, IsSeq
<1>3. PICK reply : PdAnswers(f, reply)
  BY <1>1, <1>2, FreshAnswers
<1>4. PdCarries(f)
  BY PdFreshCarries
<1>5. \A i : runs[i] > 0 => runs'[i] > 0
  <2>1. runs' = runs \/ runs' = [runs EXCEPT ![f.id] = runs[f.id] + 1]
    BY <1>4 DEF PdCarries, Carries
  <2> DEFINE k == f.id
  <2>2. CASE runs' = runs
    BY <2>2
  <2>3. CASE runs' = [runs EXCEPT ![k] = runs[k] + 1]
    <3>1. k \in 1..MaxIds /\ runs[k] + 1 > 0
      BY <1>1, <1>2
    <3> HIDE DEF k
    <3>2. DOMAIN runs = 1..MaxIds
      BY <1>2
    <3>3. \A i : i # k => runs'[i] = runs[i]
      BY <2>3, <3>2
    <3>4. runs'[k] > 0
      BY <2>3, <3>1, <3>2
    <3> QED
      BY <3>3, <3>4
  <2> QED
    BY <2>1, <2>2, <2>3
<1>6. /\ toAcu' = toAcu \/ (reply # NoReply /\ toAcu' = Append(toAcu, reply))
      /\ cache' # NoCache => cache'.cmd = f
      /\ cache' # NoCache => cache'.reply = reply \/ cache'.reply = NoReply
  <2>1. /\ toAcu' = toAcu \/ (reply # NoReply /\ toAcu' = Append(toAcu, reply))
        /\ \/ cache' = NoCache
           \/ \E r \in {reply, NoReply} : cache' = [cmd |-> f, reply |-> r]
    BY <1>3, Zenon DEF PdAnswers, Replied
  <2> QED
    BY <2>1
<1>7. reply # NoReply => /\ RplInWindow(reply, n, q) /\ reply.id = f.id /\ Earned(reply, runs')
  <2>1. reply # NoReply => /\ reply.id = f.id /\ (reply.sqn = f.sqn \/ reply.sqn = 0)
                           /\ Earned(reply, runs')
    BY <1>3 DEF PdAnswers
  <2> QED
    BY <2>1, <1>1, <1>2, ReplyInWindow
<1> QED
  BY <1>0, <1>1, <1>5, <1>6, <1>7, AnswerKeepsRpc

\* A retransmit is recognised by its bytes, and of the two commands of the window
\* only one has its sequence number.
LEMMA RetransmitKeepsRpc ==
    ASSUME KeysInv, LogInv, OnceInv, RpcInv, UNCHANGED slotVars, NEW wr, PdRetransmit(wr)
    PROVE  RpcInv'
<1> DEFINE f == Head(toPd)
           n == Len(log)
           q == pending_seq
<1>0. /\ toPd # <<>> /\ toPd' = Tail(toPd) /\ cache' = cache /\ runs' = runs
      /\ IsRetransmit(f)
      /\ toAcu' = toAcu \/ (cache.reply # NoReply /\ toAcu' = Append(toAcu, cache.reply))
  BY DEF PdRetransmit, PdTakes, SendBytes, runVars
<1>1. IsFrame(f) /\ CmdInWindow(f, n, q) /\ IsSeq(toPd) /\ IsSeq(toAcu)
  BY <1>0, HeadOfLine DEF KeysInv, LineInv
<1>2. /\ cache # NoCache /\ Bytes(cache.cmd) = Bytes(f) /\ IsFrame(cache.cmd)
      /\ CmdInWindow(cache.cmd, n, q)
      /\ cache.reply # NoReply => /\ RplInWindow(cache.reply, n, q)
                                  /\ cache.reply.id = cache.cmd.id /\ Earned(cache.reply, runs)
  BY <1>0 DEF IsRetransmit, OnceInv, CachedCmd, RpcInv, Steady, CacheSteady, AcksEarned
<1>3. cache.cmd.sqn = f.sqn
  <2> DEFINE c == cache.cmd
  <2>1. IsFrame(c) /\ [c EXCEPT !.id = 0] = [f EXCEPT !.id = 0]
    BY <1>2 DEF Bytes
  <2> HIDE DEF c, f
  <2>2. c.sqn = f.sqn
    BY <2>1, <1>1 DEF IsFrame
  <2> QED
    BY <2>2 DEF c
<1>4. cache.cmd.id = f.id
  BY <1>1, <1>2, <1>3 DEF CmdInWindow
<1> QED
  BY <1>0, <1>1, <1>2, <1>4, AnswerKeepsRpc

LEMMA RpcStep ==
    ASSUME Persistent, KeysInv, LogInv, OnceInv, RpcInv, [Next]_vars
    PROVE  RpcInv'
<1>0. IsSeq(toPd) /\ IsSeq(toAcu) /\ IsSeq(log)
  BY DEF KeysInv, LineInv, LogInv
<1>1. CASE AcuNext /\ UNCHANGED pdVars
  <2>1. UNCHANGED <<cache, runs>>
    BY <1>1 DEF pdVars, runVars
  <2>2. SlotPlain /\ UNCHANGED <<sc_phase, address, registers>>
    BY <1>0, <1>1, SlotIsPlain DEF RpcInv
  <2> QED
    BY <2>1, <2>2, SlotKeepsRpc
<1>2. CASE PdNext /\ UNCHANGED acuVars
  <2>0. UNCHANGED slotVars
    BY <1>2 DEF acuVars, countVars, seqVars, scVars, cfgVars, slotVars
  <2>1. CASE \E v \in Verdicts, fits \in ReplyFits, wr \in WriteOutcomes : PdFresh(v, fits, wr)
    BY <2>0, <2>1, FreshKeepsRpc
  <2>2. CASE \E wr \in WriteOutcomes : PdRetransmit(wr)
    BY <2>0, <2>2, RetransmitKeepsRpc
  <2>3. ~(\E wr \in WriteOutcomes : PdBadCheck(wr))
    BY HeadOfLine DEF PdBadCheck, PdTakes
  <2>4. CASE PdNotOurs \/ PdGoOffline \/ PdRestart
    <3>1. /\ runs' = runs /\ toAcu' = toAcu /\ (cache' = cache \/ cache' = NoCache)
          /\ toPd' = toPd \/ (toPd # <<>> /\ toPd' = Tail(toPd))
      BY <2>4 DEF PdNotOurs, PdGoOffline, PdRestart, PdTakes, ForgetCache, wireVars, runVars
    <3>2. Behead(toPd', toPd) /\ Behead(toAcu', toAcu)
      BY <3>1, <1>0, BeheadCases
    <3> QED
      BY <2>0, <3>1, <3>2, LossKeepsRpc
  <2> QED
    BY <1>2, <2>1, <2>2, <2>3, <2>4 DEF PdNext
<1>3. CASE WireNext /\ UNCHANGED <<acuVars, pdVars>>
  <2>1. UNCHANGED slotVars /\ UNCHANGED <<runs, cache>>
    BY <1>3 DEF acuVars, pdVars, countVars, runVars, seqVars, scVars, cfgVars, slotVars
  <2>2. /\ toPd' = toPd \/ (toPd # <<>> /\ toPd' = Tail(toPd))
        /\ toAcu' = toAcu \/ (toAcu # <<>> /\ toAcu' = Tail(toAcu))
    BY <1>3 DEF WireNext, Lose, Corrupt, Persistent
  <2>3. Behead(toPd', toPd) /\ Behead(toAcu', toAcu)
    BY <2>2, <1>0, BeheadCases
  <2> QED
    BY <2>1, <2>3, LossKeepsRpc
<1>4. CASE Tick \/ UNCHANGED vars
  <2>1. UNCHANGED slotVars /\ UNCHANGED <<runs, cache, toPd, toAcu>>
    BY <1>4 DEF Tick, vars, pdVars, acuVars, countVars, runVars, wireVars, seqVars, scVars,
                cfgVars, slotVars
  <2>2. Behead(toPd', toPd) /\ Behead(toAcu', toAcu)
    BY <2>1, <1>0, BeheadCases
  <2> QED
    BY <2>1, <2>2, LossKeepsRpc
<1> QED
  BY <1>1, <1>2, <1>3, <1>4 DEF Next

LEMMA RpcInit == Persistent /\ Init => RpcInv
<1> SUFFICES ASSUME Init PROVE RpcInv
  OBVIOUS
<1>1. /\ toPd = <<>> /\ toAcu = <<>> /\ log = <<>> /\ cache = NoCache
      /\ waiting = FALSE /\ timed_out = FALSE /\ delivered = NoDelivery
      /\ next_seq = 0 /\ registers = 0 /\ sc_phase = "IDLE"
  BY DEF Init, WireInit, AcuInit, PdInit
<1>2. Len(<<>>) = 0 /\ MaxIds \in Nat
  BY WireBoundsAssumption
<1>3. Steady(toPd, toAcu, cache, Len(log), pending_seq)
  BY <1>1, <1>2 DEF Steady, LineSteady, CacheSteady, InOrder
<1>4. Settled(toPd, toAcu, cache, Len(log))
  BY <1>1, <1>2 DEF Settled, OnlyIds
<1>5. SlotSteady
  BY <1>1, <1>2, <1>4 DEF SlotSteady
<1>6. PlainLine /\ AcksEarned
  BY <1>1, <1>2 DEF PlainLine, AcksEarned
<1>7. ReplyAnswers
  BY <1>1 DEF ReplyAnswers, NoDelivery
<1> QED
  BY <1>3, <1>5, <1>6, <1>7 DEF RpcInv

\* The invariant behind the command service holds in every state.
THEOREM RpcInvariant == ASSUME Persistent PROVE Spec => []RpcInv
<1>1. Init => RpcInv
  BY RpcInit
<1>2. KeysInv /\ LogInv /\ OnceInv /\ RpcInv /\ [Next]_vars => RpcInv'
  BY RpcStep
<1> QED
  BY <1>1, <1>2, KeysAlwaysKnown, LogAgrees, OnceInvariant, PTL DEF Spec

\* An application that repeats a command until it is answered is never given the
\* reply to another one, although the slot tells replies apart by a two-bit
\* number alone (pending_seq against the reply's SQN in process_reply): frames
\* are lost, writes fail, timeouts and retries race late answers, the PD restarts
\* or drops its cache, but whatever is on the line belongs to the last command or
\* to the one before it, and those two have different numbers.
THEOREM RepliesAnswer == ASSUME Persistent PROVE Spec => []ReplyAnswers
<1>1. RpcInv => ReplyAnswers
  BY DEF RpcInv
<1> QED
  BY <1>1, RpcInvariant, PTL

-----------------------------------------------------------------------------
(* The refinement of Rpc, step by step.                                    *)

Acked(d) == IF d.code = "ACK" THEN d.cmd ELSE 0

\* What the steps of Rpc are in the state of Link.
LinkIssues   == /\ Len(log) < MaxIds /\ Len(log') = Len(log) + 1
                /\ runs' = runs /\ Acked(delivered') = Acked(delivered)
LinkCarriesOut(i) ==
    /\ i <= Len(log) /\ (runs[i] = 0 \/ i \in excused')
    /\ runs' = [runs EXCEPT ![i] = runs[i] + 1]
    /\ log' = log /\ delivered' = delivered
LinkConfirms(i) == runs[i] > 0 /\ Acked(delivered') = i /\ log' = log /\ runs' = runs
LinkSupersedes  == Acked(delivered') = 0 /\ log' = log /\ runs' = runs
LinkStutters    == Acked(delivered') = Acked(delivered) /\ log' = log /\ runs' = runs

LinkServes ==
    /\ excused \subseteq excused'
    /\ \/ LinkIssues
       \/ \E i \in 1..MaxIds : LinkCarriesOut(i) \/ LinkConfirms(i)
       \/ LinkSupersedes
       \/ LinkStutters

LEMMA ServesIsRpc == LinkServes => Service!RpcNext
<1> SUFFICES ASSUME LinkServes PROVE Service!RpcNext
  OBVIOUS
<1>0. excused \subseteq excused'
  BY DEF LinkServes
<1>1. CASE LinkIssues
  BY <1>0, <1>1 DEF LinkIssues, Acked, ids, Service!RpcNext, Service!Issue
<1>2. CASE \E i \in 1..MaxIds : LinkCarriesOut(i)
  <2>1. PICK i \in 1..MaxIds : LinkCarriesOut(i)
    BY <1>2
  <2>2. Service!CarryOut(i)
    BY <2>1 DEF LinkCarriesOut, ids, Service!CarryOut
  <2> QED
    BY <1>0, <2>2 DEF Service!RpcNext
<1>3. CASE \E i \in 1..MaxIds : LinkConfirms(i)
  <2>1. PICK i \in 1..MaxIds : LinkConfirms(i)
    BY <1>3
  <2>2. Service!Confirm(i)
    BY <2>1 DEF LinkConfirms, Acked, ids, Service!Confirm
  <2> QED
    BY <1>0, <2>2 DEF Service!RpcNext
<1>4. CASE LinkSupersedes
  BY <1>0, <1>4 DEF LinkSupersedes, Acked, ids, Service!RpcNext, Service!Supersede
<1>5. CASE LinkStutters
  BY <1>0, <1>5 DEF LinkStutters, Acked, ids, Service!RpcNext
<1> QED
  BY <1>1, <1>2, <1>3, <1>4, <1>5 DEF LinkServes

\* The slot issues a command, or reports a reply.
LEMMA SlotServes ==
    ASSUME KeysInv, LogInv, RpcInv, SlotPlain, UNCHANGED <<runs, excused>>
    PROVE  LinkServes
<1>0. IsSeq(log) /\ IsSeq(toAcu) /\ Len(log) \in Nat /\ MaxIds \in Nat /\ Len(log) <= MaxIds
  BY WireBoundsAssumption DEF KeysInv, LineInv, LogInv, IsSeq, RpcInv, SlotSteady
<1>1. ASSUME NEW f, SlotProceeds(f) PROVE LinkServes
  <2>1. log' = Append(log, f.mac) /\ Len(log) < MaxIds /\ delivered' = delivered
    BY <1>1 DEF SlotProceeds, SlotWrites
  <2>2. Len(log') = Len(log) + 1
    BY <2>1, <1>0, Appended
  <2> QED
    BY <2>1, <2>2 DEF LinkServes, LinkIssues
<1>2. ASSUME (\E f : SlotRepeats(f)) \/ SlotTimesOut \/ SlotSkips PROVE LinkServes
  <2>1. log' = log /\ delivered' = delivered
    BY <1>2 DEF SlotRepeats, SlotWrites, SlotTimesOut, SlotSkips
  <2> QED
    BY <2>1 DEF LinkServes, LinkStutters
<1>3. CASE SlotAccepts
  <2>1. /\ toAcu # <<>> /\ log' = log /\ Head(toAcu).sqn = pending_seq
        /\ delivered'.cmd = tx.id /\ delivered'.code = Head(toAcu).code
    BY <1>3 DEF SlotAccepts
  <2>2. Head(toAcu).id = Len(log) /\ Len(log) # 0
    BY <2>1, <1>0, SteadyDelivered DEF RpcInv
  <2>3. tx.id = Len(log)
    BY <2>2, <1>0 DEF RpcInv, SlotSteady, LastSent
  <2>4. CASE Head(toAcu).code = "ACK"
    <3>1. Head(toAcu) = toAcu[1] /\ 1 \in 1..Len(toAcu)
      BY <2>1, <1>0, Taken
    <3>2. runs[Len(log)] > 0
      BY <2>2, <2>4, <3>1 DEF RpcInv, AcksEarned, Earned
    <3>3. LinkConfirms(Len(log)) /\ Len(log) \in 1..MaxIds
      BY <2>1, <2>2, <2>3, <2>4, <3>2, <1>0 DEF LinkConfirms, Acked
    <3> QED
      BY <3>3 DEF LinkServes
  <2>5. CASE Head(toAcu).code # "ACK"
    BY <2>1, <2>5 DEF LinkServes, LinkSupersedes, Acked
  <2> QED
    BY <2>4, <2>5
<1> QED
  BY <1>1, <1>2, <1>3 DEF SlotPlain

\* The PD carries a command out for the first time, or one that is excused.
LEMMA FreshServes ==
    ASSUME KeysInv, LogInv, OnceInv, RpcInv, UNCHANGED slotVars, toPd # <<>>,
           PdCarries(Head(toPd))
    PROVE  LinkServes
<1> DEFINE f == Head(toPd)
<1>0. log' = log /\ delivered' = delivered
  BY DEF slotVars
<1>1. excused \subseteq excused'
  BY DEF PdCarries, Carries
<1>2. CASE runs' = runs
  BY <1>0, <1>1, <1>2 DEF LinkServes, LinkStutters
<1>3. CASE runs' # runs
  <2>1. runs' = [runs EXCEPT ![f.id] = runs[f.id] + 1]
    BY <1>3 DEF PdCarries, Carries
  <2>2. IsFrame(f) /\ ~f.bad /\ f.id \in 1..MaxIds /\ f.id <= Len(log)
    BY HeadOfLine
  <2>3. runs[f.id] = 0 \/ f.id \in excused'
    <3> SUFFICES ASSUME runs[f.id] # 0, f.id \notin excused PROVE FALSE
      BY <1>1
    <3>1. runs[f.id] > 0
      BY <2>2 DEF OnceInv
    <3>2. Protected(f.id, toPd, tx, cache) /\ CachedCmd(cache)
      BY <2>2, <3>1 DEF OnceInv
    <3>3. f = toPd[1] /\ 1 \in 1..Len(toPd)
      BY Taken DEF KeysInv, LineInv
    <3>4. Recognises(cache, f)
      BY <3>2, <3>3 DEF Protected
    <3> QED
      BY <2>2, <3>2, <3>4, RecognisedIsRetransmit DEF PdCarries
  <2> HIDE DEF f
  <2>4. LinkCarriesOut(f.id)
    BY <2>1, <2>2, <2>3, <1>0 DEF LinkCarriesOut
  <2> QED
    BY <2>2, <2>4, <1>1 DEF LinkServes
<1> QED
  BY <1>2, <1>3

LEMMA RpcServes ==
    ASSUME Persistent, KeysInv, LogInv, OnceInv, RpcInv, [Next]_vars
    PROVE  LinkServes
<1>1. CASE AcuNext /\ UNCHANGED pdVars
  <2>1. UNCHANGED <<runs, excused>>
    BY <1>1 DEF pdVars, runVars
  <2>2. SlotPlain
    BY <1>1, SlotIsPlain DEF RpcInv, LogInv
  <2> QED
    BY <2>1, <2>2, SlotServes
<1>2. CASE PdNext /\ UNCHANGED acuVars
  <2>0. UNCHANGED slotVars /\ log' = log /\ delivered' = delivered
    BY <1>2 DEF acuVars, countVars, seqVars, scVars, cfgVars, slotVars
  <2>1. CASE \E v \in Verdicts, fits \in ReplyFits, wr \in WriteOutcomes : PdFresh(v, fits, wr)
    <3>1. toPd # <<>> /\ PdCarries(Head(toPd))
      BY <2>1, PdFreshCarries DEF PdFresh, PdTakes
    <3> QED
      BY <2>0, <3>1, FreshServes
  <2>2. CASE \/ \E wr \in WriteOutcomes : PdRetransmit(wr) \/ PdBadCheck(wr)
             \/ PdNotOurs \/ PdGoOffline \/ PdRestart
    <3>1. runs' = runs /\ excused \subseteq excused'
      BY <2>2 DEF PdRetransmit, PdBadCheck, PdNotOurs, PdGoOffline, PdRestart, ForgetCache, runVars
    <3> QED
      BY <2>0, <3>1 DEF LinkServes, LinkStutters
  <2> QED
    BY <1>2, <2>1, <2>2 DEF PdNext
<1>3. CASE \/ WireNext /\ UNCHANGED <<acuVars, pdVars>>
           \/ Tick \/ UNCHANGED vars
  <2>1. UNCHANGED <<log, delivered, runs, excused>>
    BY <1>3 DEF Tick, vars, pdVars, acuVars, countVars, runVars
  <2> QED
    BY <2>1 DEF LinkServes, LinkStutters
<1> QED
  BY <1>1, <1>2, <1>3 DEF Next

\* For an application that repeats a command until it is answered, the slot and
\* the PD implement the abstract command service: every step of theirs issues a
\* command, carries one out (for the first time, unless it is excused), reports
\* an acknowledgement of a command that was carried out, supersedes it, or is
\* invisible to the application.
THEOREM LinkImplementsRpc == ASSUME Persistent PROVE Spec => ImplementsRpc
<1>1. Init => Service!RpcInit
  <2> SUFFICES ASSUME Init PROVE Service!RpcInit
    OBVIOUS
  <2>1. /\ log = <<>> /\ delivered = NoDelivery /\ excused = {}
        /\ runs = [i \in 1..MaxIds |-> 0]
    BY DEF Init, AcuInit, PdInit
  <2> QED
    BY <2>1 DEF Service!RpcInit, ids, NoDelivery
<1>2. KeysInv /\ LogInv /\ OnceInv /\ RpcInv /\ [Next]_vars => [Service!RpcNext]_(Service!rpcVars)
  BY RpcServes, ServesIsRpc
<1> QED
  BY <1>1, <1>2, KeysAlwaysKnown, LogAgrees, OnceInvariant, RpcInvariant, PTL
     DEF Spec, ImplementsRpc, Service!RpcSpec

-----------------------------------------------------------------------------
(* A command is displaced only after a challenge was given up.              *)

\* The line is half duplex: one frame each way.  The application is free to give
\* up what is not answered.
SingleFile == MaxWire = 1

\* The nonce that a client cryptogram answers.
AnsweredNonce(g) == g.data[2][3]

\* g is the PD's reply to challenge f.
Confirms(g, f) ==
    g.scs = "SCS_12" => Challenges(f) /\ g.sqn = f.sqn /\ AnsweredNonce(g) = f.data[1]

\* The slot has sent nothing since the challenge at number s.  If it does not wait
\* for the answer any more, it was given a stale one, or will ask anew.
Challenged(s) ==
    /\ tx.id = 0 /\ tx.scs = "SCS_11" /\ pending_seq = s
    /\ waiting \/ timed_out \/ next_seq = AdvanceSqn(s)

\* The slot took a stale reply for the answer, and has gone on by one number.
WentOn(s) ==
    /\ pending_seq = AdvanceSqn(s)
    /\ waiting \/ (timed_out /\ next_seq = pending_seq)

\* Unless it was given up, the present challenge, and the reply to it, find the
\* slot where it sent the challenge, or one number further.
ShakeInv(cmds, rpls) ==
    sc_phase = "AWAITING_CCRYPT" /\ ~gave_up =>
        /\ \A j \in 1..Len(cmds) :
              Challenges(cmds[j]) /\ cmds[j].data[1] = nonces => Challenged(cmds[j].sqn)
        /\ \A j \in 1..Len(rpls) :
              rpls[j].scs = "SCS_12" /\ AnsweredNonce(rpls[j]) = nonces =>
                  Challenged(rpls[j].sqn) \/ WentOn(rpls[j].sqn)

Dated(g, n) == g.scs = "SCS_12" => AnsweredNonce(g) \in Nat /\ AnsweredNonce(g) <= n

SingleInv ==
    /\ Len(toAcu) <= 1 /\ ShakeInv(toPd, toAcu)
    /\ \A j \in 1..Len(toAcu) : Dated(toAcu[j], nonces)
    /\ cache # NoCache /\ cache.reply # NoReply =>
          Confirms(cache.reply, cache.cmd) /\ Dated(cache.reply, nonces)

\* What the slot does while a handshake that was not given up waits for the
\* client cryptogram.
ShakeStarts ==
    \E f : /\ toPd = <<>> /\ toPd' = Append(toPd, f) /\ tx' = f /\ f.id = 0 /\ f.scs = "SCS_11"
           /\ pending_seq' = f.sqn /\ waiting' = TRUE /\ nonces' = nonces + 1 /\ toAcu' = toAcu
ShakeSends ==
    \E f : /\ toPd = <<>> /\ toPd' = Append(toPd, f) /\ f.scs = "NONE" /\ toAcu' = toAcu
           /\ ~waiting /\ waiting' = TRUE /\ pending_seq' = next_seq /\ next_seq' = next_seq
           /\ timed_out => tx.scs # "SCS_11"
ShakeStays ==
    /\ toPd' = toPd /\ toAcu' = toAcu
    /\ UNCHANGED <<tx, waiting, timed_out, next_seq, pending_seq>>
ShakeTimesOut ==
    /\ toPd' = toPd /\ toAcu' = toAcu /\ timed_out' = TRUE /\ next_seq' = pending_seq
    /\ UNCHANGED <<tx, pending_seq>>
ShakeHears ==
    /\ toAcu # <<>> /\ toPd' = toPd /\ toAcu' = Tail(toAcu) /\ UNCHANGED <<tx, pending_seq>>
    /\ \/ UNCHANGED <<waiting, timed_out, next_seq>>
       \/ next_seq' = AdvanceSqn(pending_seq)

SlotShaken ==
    sc_phase' = "AWAITING_CCRYPT" /\ ~gave_up' =>
        \/ ShakeStarts
        \/ /\ sc_phase = "AWAITING_CCRYPT" /\ ~gave_up /\ nonces' = nonces
           /\ ShakeSends \/ ShakeStays \/ ShakeTimesOut \/ ShakeHears

LEMMA SendIsShaken ==
    ASSUME SingleFile, LineInv, NEW c \in Cmds, NEW wr \in BOOLEAN, SendCommand(c, wr)
    PROVE  SlotShaken
<1> SUFFICES ASSUME sc_phase = "AWAITING_CCRYPT", ~gave_up' PROVE SlotShaken
  BY DEF SendCommand, SlotShaken
<1>1. /\ nonces' = nonces /\ next_seq' = next_seq /\ toAcu' = toAcu /\ ~waiting
      /\ sc_phase' = sc_phase /\ ~gave_up
      /\ wr => (timed_out => tx.scs # "SCS_11")
  BY DEF SendCommand, MayTransmit
<1>2. toPd = <<>>
  <2>1. Len(toPd) < 1
    BY DEF SendCommand, MayTransmit, SingleFile
  <2>2. PICK S : toPd \in Seq(S)
    BY DEF LineInv, IsSeq
  <2> QED
    BY <2>1, <2>2
<1>3. CASE ~wr
  <2>1. ShakeStays
    BY <1>1, <1>3 DEF SendCommand, ShakeStays
  <2> QED
    BY <1>1, <2>1 DEF SlotShaken
<1>4. CASE wr
  <2> DEFINE plain == Frame(address, next_seq, "NONE", 0, c.code, c.data, 0)
             retry == timed_out /\ plain = Bytes(tx)
             i     == IF retry THEN tx.id ELSE ids + 1
             f     == [plain EXCEPT !.id = i]
  <2>1. /\ toPd' = Append(toPd, f) /\ waiting' = TRUE /\ pending_seq' = f.sqn
    BY <1>4 DEF SendCommand, Transmitted
  <2>2. f.scs = "NONE" /\ f.sqn = next_seq
    <3> HIDE DEF i
    <3> QED
      BY DEF Frame
  <2> HIDE DEF f
  <2>3. ShakeSends
    BY <1>1, <1>2, <1>4, <2>1, <2>2 DEF ShakeSends
  <2> QED
    BY <1>1, <2>3 DEF SlotShaken
<1> QED
  BY <1>3, <1>4

LEMMA ReceiveIsShaken ==
    ASSUME NEW wr \in BOOLEAN, AcuReceive(wr)
    PROVE  SlotShaken
<1> SUFFICES ASSUME sc_phase' = "AWAITING_CCRYPT", ~gave_up' PROVE SlotShaken
  BY DEF SlotShaken
<1> DEFINE f == Head(toAcu)
<1>0. toAcu # <<>> /\ toAcu' = Tail(toAcu) /\ nonces' = nonces /\ ~gave_up
  BY DEF AcuReceive, countVars
<1>1. \/ Ignored \/ ProcessReply(f) \/ HandleScReply(f) \/ HandleCcrypt(f, wr) \/ HandleRmacI(f)
  BY Zenon DEF AcuReceive
<1>2. \/ Ignored
      \/ DeliverReply(f) /\ UNCHANGED <<toPd, tx>> /\ sc_phase' = sc_phase
  <2>1. ~SessionEnds /\ ~HandshakeFails /\ ~ResetScHandshake
    BY DEF SessionEnds, TerminateSc, HandshakeFails, ResetScHandshake
  <2>2. CASE ProcessReply(f)
    BY <2>1, <2>2 DEF ProcessReply, scVars
  <2>3. CASE HandleScReply(f)
    BY <2>1, <2>3 DEF HandleScReply
  <2>4. CASE HandleCcrypt(f, wr)
    <3>1. Ignored \/ sc_phase' = "AWAITING_RMAC_I"
      BY <2>1, <2>4 DEF HandleCcrypt
    <3> QED
      BY <3>1
  <2>5. CASE HandleRmacI(f)
    <3>1. Ignored \/ sc_phase' = "ESTABLISHED"
      BY <2>1, <2>5 DEF HandleRmacI
    <3> QED
      BY <3>1
  <2> QED
    BY <1>1, <2>2, <2>3, <2>4, <2>5
<1>3. sc_phase = "AWAITING_CCRYPT" /\ ShakeHears
  BY <1>0, <1>2 DEF Ignored, DeliverReply, ShakeHears, seqVars, scVars
<1> QED
  BY <1>0, <1>3 DEF SlotShaken

LEMMA SlotAlwaysShaken ==
    ASSUME SingleFile, LineInv, AcuNext
    PROVE  SlotShaken
<1>0. WriteOutcomes \subseteq BOOLEAN
  BY DEF WriteOutcomes
<1>1. CASE \E c \in Cmds, wr \in WriteOutcomes : SendCommand(c, wr)
  BY <1>0, <1>1, SendIsShaken
<1>2. CASE \E sel \in Selectors, wr \in WriteOutcomes : StartScHandshake(sel, wr)
  <2> PICK sel \in Selectors, wr \in WriteOutcomes : StartScHandshake(sel, wr)
    BY <1>2
  <2> DEFINE f == Frame(address, next_seq, "SCS_11", sel, "CHLNG", <<nonces + 1>>, 0)
  <2>1. CASE ~wr
    BY <2>1 DEF StartScHandshake, PhaseAfterChlng, SlotShaken
  <2>2. CASE wr
    <3>1. toPd = <<>>
      <4>1. Len(toPd) < 1
        BY DEF StartScHandshake, MayTransmit, SingleFile
      <4>2. PICK S : toPd \in Seq(S)
        BY DEF LineInv, IsSeq
      <4> QED
        BY <4>1, <4>2
    <3>2. /\ toPd' = Append(toPd, f) /\ tx' = f /\ pending_seq' = f.sqn /\ waiting' = TRUE
          /\ nonces' = nonces + 1 /\ toAcu' = toAcu
      BY <2>2 DEF StartScHandshake, Transmitted
    <3>3. f.id = 0 /\ f.scs = "SCS_11"
      BY DEF Frame
    <3> HIDE DEF f
    <3>4. ShakeStarts
      BY <3>1, <3>2, <3>3 DEF ShakeStarts
    <3> QED
      BY <3>4 DEF SlotShaken
  <2> QED
    BY <2>1, <2>2
<1>3. CASE \E a \in Addresses : RegisterPd(a)
  BY <1>3 DEF RegisterPd, SlotShaken
<1>4. CASE (\E k \in Keys : SetPdScbk(k)) \/ SetPdScbkD
  BY <1>4 DEF SetPdScbk, SetPdScbkD, SlotShaken, ShakeStays, seqVars, scVars, countVars, wireVars
<1>5. CASE ReplyTimesOut
  BY <1>5 DEF ReplyTimesOut, SlotShaken, ShakeTimesOut, scVars, countVars, wireVars
<1>6. CASE GoOffline
  <2>1. sc_phase' = "IDLE"
    BY <1>6 DEF GoOffline, TerminateSc, ResetScHandshake, scVars
  <2> QED
    BY <2>1 DEF SlotShaken
<1>7. CASE \E wr \in WriteOutcomes : AcuReceive(wr)
  BY <1>0, <1>7, ReceiveIsShaken
<1> QED
  BY <1>1, <1>2, <1>3, <1>4, <1>5, <1>6, <1>7 DEF AcuNext

\* A step of the slot.
LEMMA SlotKeepsShake ==
    ASSUME KeysInv, SingleInv, SlotShaken, SlotTakes, nonces' \in {nonces, nonces + 1},
           UNCHANGED cache
    PROVE  SingleInv'
<1>0. /\ IsSeq(toPd) /\ IsSeq(toAcu) /\ nonces \in Nat /\ Len(toAcu) \in Nat
      /\ pending_seq \in 0..3
  <2>1. PICK S : toAcu \in Seq(S)
    BY DEF KeysInv, LineInv, IsSeq
  <2> QED
    BY <2>1 DEF KeysInv, LineInv, SlotKeysInv, TypeOK, SlotTypeOK
<1>1. toAcu # <<>> /\ toAcu' = Tail(toAcu) => Len(toAcu') = 0
  <2> SUFFICES ASSUME toAcu # <<>>, toAcu' = Tail(toAcu) PROVE Len(toAcu') = 0
    OBVIOUS
  <2>1. Len(toAcu) > 0 /\ Len(toAcu') = Len(toAcu) - 1
    BY <1>0, Taken
  <2> QED
    BY <1>0, <2>1 DEF SingleInv
<1>2. /\ Len(toAcu') <= 1 /\ \A j \in 1..Len(toAcu') : Dated(toAcu'[j], nonces')
      /\ cache # NoCache /\ cache.reply # NoReply =>
            Confirms(cache.reply, cache.cmd) /\ Dated(cache.reply, nonces')
  <2>1. \A g : Dated(g, nonces) => Dated(g, nonces')
    BY <1>0 DEF Dated
  <2> QED
    BY <1>0, <1>1, <2>1 DEF SingleInv, SlotTakes
<1>3. ShakeInv(toPd, toAcu)'
  <2> SUFFICES ASSUME sc_phase' = "AWAITING_CCRYPT", ~gave_up' PROVE ShakeInv(toPd, toAcu)'
    BY DEF ShakeInv
  <2>1. CASE ShakeStarts
    <3> PICK f : /\ toPd = <<>> /\ toPd' = Append(toPd, f) /\ tx' = f /\ f.id = 0
                 /\ f.scs = "SCS_11" /\ pending_seq' = f.sqn /\ waiting' = TRUE
                 /\ nonces' = nonces + 1 /\ toAcu' = toAcu
      BY <2>1 DEF ShakeStarts
    <3>1. \A j \in 1..Len(toPd') : toPd'[j] = f
      OBVIOUS
    <3>2. Challenged(f.sqn)'
      BY DEF Challenged
    <3>3. \A j \in 1..Len(toAcu') : ~(toAcu'[j].scs = "SCS_12" /\ AnsweredNonce(toAcu'[j]) = nonces')
      BY <1>0 DEF SingleInv, Dated
    <3> QED
      BY <3>1, <3>2, <3>3 DEF ShakeInv
  <2>2. CASE /\ sc_phase = "AWAITING_CCRYPT" /\ ~gave_up /\ nonces' = nonces
             /\ ShakeStays \/ ShakeTimesOut
    <3>1. \A s : Challenged(s) => Challenged(s)'
      BY <2>2 DEF ShakeStays, ShakeTimesOut, Challenged
    <3>2. \A s : WentOn(s) => WentOn(s)'
      BY <2>2 DEF ShakeStays, ShakeTimesOut, WentOn
    <3>3. toPd' = toPd /\ toAcu' = toAcu
      BY <2>2 DEF ShakeStays, ShakeTimesOut
    <3> QED
      BY <2>2, <3>1, <3>2, <3>3 DEF SingleInv, ShakeInv
  <2>3. CASE sc_phase = "AWAITING_CCRYPT" /\ ~gave_up /\ nonces' = nonces /\ ShakeHears
    <3>1. \A s : Challenged(s) => Challenged(s)'
      BY <2>3 DEF ShakeHears, Challenged
    <3>2. toPd' = toPd /\ Len(toAcu') = 0
      BY <2>3, <1>1 DEF ShakeHears
    <3> QED
      BY <2>3, <3>1, <3>2 DEF SingleInv, ShakeInv
  <2>4. CASE sc_phase = "AWAITING_CCRYPT" /\ ~gave_up /\ nonces' = nonces /\ ShakeSends
    <3> PICK f : /\ toPd = <<>> /\ toPd' = Append(toPd, f) /\ f.scs = "NONE" /\ toAcu' = toAcu
                 /\ ~waiting /\ waiting' = TRUE /\ pending_seq' = next_seq /\ next_seq' = next_seq
                 /\ timed_out => tx.scs # "SCS_11"
      BY <2>4 DEF ShakeSends
    <3>1. \A j \in 1..Len(toPd') : ~Challenges(toPd'[j])
      BY DEF Challenges
    <3>2. \A s : Challenged(s) \/ WentOn(s) => WentOn(s)'
      BY DEF Challenged, WentOn
    <3> QED
      BY <2>4, <3>1, <3>2 DEF SingleInv, ShakeInv
  <2> QED
    BY <2>1, <2>2, <2>3, <2>4 DEF SlotShaken
<1> QED
  BY <1>2, <1>3 DEF SingleInv

\* How the PD answers a fresh command.
LEMMA FreshConfirms ==
    ASSUME NEW v \in Verdicts, NEW fits, NEW wr, PdFresh(v, fits, wr)
    PROVE  \E reply : /\ Replied(Head(toPd), reply)
                      /\ reply # NoReply => Confirms(reply, Head(toPd))
<1> DEFINE f == Head(toPd)
           Done == \E reply : Replied(f, reply) /\ (reply # NoReply => Confirms(reply, f))
<1> SUFFICES Done
  OBVIOUS
<1>1. ASSUME NEW r, r = NoReply \/ r.scs # "SCS_12",
             \/ Refuse(f, r, fits, wr)
             \/ \E eff : Dispatched(f, v, eff, r, fits, wr)
      PROVE  Done
  <2>1. Replied(f, r)
    BY <1>1, RefuseReplied, DispatchedReplied
  <2>2. r # NoReply => Confirms(r, f)
    BY <1>1 DEF Confirms
  <2> QED
    BY <2>1, <2>2
<1>2. /\ \A err : BuildNak(f, err).scs = "NONE"
      /\ \A code, data : BuildReply(f, code, data).scs = "NONE"
      /\ BuildBusy(f).scs = "NONE"
  BY DEF BuildNak, BuildReply, BuildBusy, Frame
<1>3. CASE \E eff : HandleClear(f, v, eff, fits, wr)
  <2> PICK eff : HandleClear(f, v, eff, fits, wr)
    BY <1>3
  <2> DEFINE out == Dispatch(f, v, eff)
  <2>1. \/ Refuse(f, BuildNak(f, NakEncryption), fits, wr)
        \/ Dispatched(f, v, eff, BuildReply(f, out.code, out.data), fits, wr)
        \/ Dispatched(f, v, eff, BuildBusy(f), fits, wr)
        \/ Dispatched(f, v, eff, NoReply, fits, wr)
    BY DispatchKind DEF HandleClear
  <2> HIDE DEF Done, out
  <2> QED
    BY <2>1, <1>1, <1>2
<1>4. CASE Challenges(f) /\ HandleChlng(f, fits, wr)
  <2> DEFINE key  == SelectHandshakeKey(f.scb)
             rndB == pd_nonces + 1
             keys == DeriveSessionKeys(key, f.data[1])
             d    == <<rndB, ClientCryptogram(keys, f.data[1], rndB)>>
             r    == BuildHandshakeReply(f, "SCS_12", f.scb, "CCRYPT", d)
  <2>1. Refuse(f, BuildNak(f, NakScb), fits, wr) \/ Refuse(f, r, fits, wr)
    BY <1>4 DEF HandleChlng
  <2>2. Confirms(r, f)
    <3>1. d[2][3] = f.data[1]
      BY DEF ClientCryptogram
    <3> HIDE DEF d
    <3>2. r.sqn = f.sqn /\ r.data = d
      BY DEF BuildHandshakeReply, Frame
    <3> HIDE DEF r
    <3> QED
      BY <1>4, <3>1, <3>2 DEF Confirms, AnsweredNonce
  <2> HIDE DEF r
  <2>3. CASE Refuse(f, r, fits, wr)
    BY <2>2, <2>3, RefuseReplied
  <2>4. CASE Refuse(f, BuildNak(f, NakScb), fits, wr)
    <3> HIDE DEF Done
    <3> QED
      BY <2>4, <1>1, <1>2
  <2> QED
    BY <2>1, <2>3, <2>4
<1>5. CASE HandleScrypt(f, fits, wr)
  <2> DEFINE no  == BuildHandshakeReply(f, "SCS_14", 255, "RMAC_I", <<>>)
             yes == BuildHandshakeReply(f, "SCS_14", 1, "RMAC_I",
                                        InitialRmac(pd_session.keys, f.data))
  <2>1. \/ Refuse(f, BuildNak(f, NakScb), fits, wr)
        \/ Refuse(f, no, fits, wr) \/ Refuse(f, yes, fits, wr)
    BY <1>5 DEF HandleScrypt
  <2>2. no.scs = "SCS_14" /\ yes.scs = "SCS_14"
    BY DEF BuildHandshakeReply, Frame
  <2> HIDE DEF Done, no, yes
  <2> QED
    BY <2>1, <2>2, <1>1, <1>2
<1>6. CASE \E eff : HandleOperational(f, v, eff, fits, wr)
  <2> PICK eff : HandleOperational(f, v, eff, fits, wr)
    BY <1>6
  <2> DEFINE out   == Dispatch(f, v, eff)
             inner == AfterUnwrap(pd_session, f)
             plain == Frame(f.addr, f.sqn, "SCS_REPLY", 0, out.code, out.data, f.id)
             r     == Wrap(inner, plain)
  <2>1. \/ Refuse(f, BuildNak(f, NakScb), fits, wr)
        \/ Refuse(f, NoReply, fits, wr)
        \/ Dispatched(f, v, eff, r, fits, wr)
        \/ Dispatched(f, v, eff, BuildBusy(f), fits, wr)
        \/ Dispatched(f, v, eff, NoReply, fits, wr)
    <3>1. out.kind \in {"SEND", "BUSY", "DROP"}
      BY DispatchKind
    <3> HIDE DEF out
    <3>2. CASE out.kind = "SEND"
      BY <3>2, Zenon DEF HandleOperational, out
    <3>3. CASE out.kind = "BUSY"
      BY <3>3 DEF HandleOperational, out
    <3>4. CASE out.kind = "DROP"
      BY <3>4 DEF HandleOperational, out
    <3> QED
      BY <3>1, <3>2, <3>3, <3>4
  <2>2. r.scs = "SCS_REPLY"
    <3> HIDE DEF inner
    <3>1. plain.scs = "SCS_REPLY" /\ "scs" \in DOMAIN plain
      BY DEF Frame
    <3> HIDE DEF plain
    <3> QED
      BY <3>1 DEF Wrap
  <2> HIDE DEF Done, r
  <2> QED
    BY <2>1, <2>2, <1>1, <1>2
<1>7. CASE Refuse(f, BuildNak(f, NakScb), fits, wr)
  <2> HIDE DEF Done
  <2> QED
    BY <1>1, <1>2, <1>7
<1>8. \/ Refuse(f, BuildNak(f, NakScb), fits, wr)
      \/ \E eff : HandleClear(f, v, eff, fits, wr)
      \/ Challenges(f) /\ HandleChlng(f, fits, wr)
      \/ HandleScrypt(f, fits, wr)
      \/ \E eff : HandleOperational(f, v, eff, fits, wr)
  BY DEF PdFresh, Challenges
<1> QED
  BY <1>3, <1>4, <1>5, <1>6, <1>7, <1>8

\* The PD takes a command and sends g, or nothing.
LEMMA PdKeepsShake ==
    ASSUME SingleFile, KeysInv, SingleInv, toPd # <<>>, toPd' = Tail(toPd), Len(toAcu) < MaxWire,
           NEW g, g # NoReply => Confirms(g, Head(toPd)),
           toAcu' = toAcu \/ (g # NoReply /\ toAcu' = Append(toAcu, g)),
           \/ cache' = cache \/ cache' = NoCache
           \/ \E r \in {g, NoReply} : cache' = [cmd |-> Head(toPd), reply |-> r],
           UNCHANGED <<nonces, gave_up, sc_phase, tx, waiting, timed_out, next_seq, pending_seq>>
    PROVE  SingleInv'
<1> DEFINE f == Head(toPd)
<1>0. /\ IsSeq(toPd) /\ IsSeq(toAcu) /\ Len(toAcu) \in Nat /\ Len(toAcu) = 0
      /\ f = toPd[1] /\ 1 \in 1..Len(toPd)
      /\ \A j \in 1..Len(toPd') : j + 1 \in 1..Len(toPd) /\ toPd'[j] = toPd[j + 1]
  <2>1. PICK S : toAcu \in Seq(S)
    BY DEF KeysInv, LineInv, IsSeq
  <2>2. IsSeq(toPd)
    BY DEF KeysInv, LineInv
  <2> QED
    BY <2>1, <2>2, Taken DEF KeysInv, LineInv, SingleFile
<1>1. Len(toAcu') <= 1 /\ \A j \in 1..Len(toAcu') : g # NoReply /\ toAcu'[j] = g
  <2>1. CASE toAcu' = toAcu
    BY <1>0, <2>1
  <2>2. CASE g # NoReply /\ toAcu' = Append(toAcu, g)
    <3>1. Len(toAcu') = Len(toAcu) + 1 /\ toAcu'[Len(toAcu) + 1] = g
      BY <1>0, <2>2, Appended
    <3>2. Len(toAcu') = 1 /\ toAcu'[1] = g
      BY <1>0, <3>1
    <3> QED
      BY <2>2, <3>2
  <2> QED
    BY <2>1, <2>2
<1> HIDE DEF f
<1>2. g # NoReply => Confirms(g, f) /\ Dated(g, nonces)
  BY <1>0 DEF Confirms, Dated, KeysInv, NoncesInOrder, f
<1>3. \A s : (Challenged(s) => Challenged(s)') /\ (WentOn(s) => WentOn(s)')
  BY DEF Challenged, WentOn
<1>4. ShakeInv(toPd, toAcu)'
  <2> SUFFICES ASSUME sc_phase = "AWAITING_CCRYPT", ~gave_up PROVE ShakeInv(toPd, toAcu)'
    BY DEF ShakeInv
  <2>1. \A j \in 1..Len(toPd) :
            Challenges(toPd[j]) /\ toPd[j].data[1] = nonces => Challenged(toPd[j].sqn)
    BY DEF SingleInv, ShakeInv
  <2>2. g # NoReply /\ g.scs = "SCS_12" /\ AnsweredNonce(g) = nonces => Challenged(g.sqn)
    BY <1>0, <1>2, <2>1 DEF Confirms
  <2> QED
    BY <1>0, <1>1, <1>3, <2>1, <2>2 DEF ShakeInv
<1>5. cache' # NoCache /\ cache'.reply # NoReply =>
          Confirms(cache'.reply, cache'.cmd) /\ Dated(cache'.reply, nonces)
  <2>1. CASE \E r \in {g, NoReply} : cache' = [cmd |-> f, reply |-> r]
    BY <2>1, <1>2
  <2>2. CASE cache' = cache \/ cache' = NoCache
    BY <2>2 DEF SingleInv
  <2> QED
    BY <2>1, <2>2 DEF f
<1> QED
  BY <1>1, <1>2, <1>4, <1>5 DEF SingleInv

LEMMA SingleStep ==
    ASSUME SingleFile, KeysInv, OnceInv, SingleInv, [Next]_vars
    PROVE  SingleInv'
<1>0. TypeOK /\ LineInv
  BY DEF KeysInv
<1>1. CASE AcuNext /\ UNCHANGED pdVars
  <2>1. UNCHANGED cache
    BY <1>1 DEF pdVars
  <2>2. SlotShaken /\ SlotTakes /\ nonces' \in {nonces, nonces + 1}
    BY <1>0, <1>1, SlotAlwaysShaken, AcuNextEffect DEF SlotEffect
  <2> QED
    BY <2>1, <2>2, SlotKeepsShake
<1>2. CASE PdNext /\ UNCHANGED acuVars
  <2>0. UNCHANGED <<nonces, gave_up, sc_phase, tx, waiting, timed_out, next_seq, pending_seq>>
    BY <1>2 DEF acuVars, seqVars, scVars, countVars
  <2>1. CASE \E v \in Verdicts, fits \in ReplyFits, wr \in WriteOutcomes : PdFresh(v, fits, wr)
    <3>1. toPd # <<>> /\ toPd' = Tail(toPd) /\ Len(toAcu) < MaxWire
      BY <2>1 DEF PdFresh, PdTakes
    <3>2. PICK g : /\ Replied(Head(toPd), g)
                   /\ g # NoReply => Confirms(g, Head(toPd))
      BY <2>1, FreshConfirms
    <3> QED
      BY <2>0, <3>1, <3>2, PdKeepsShake DEF Replied
  <2>2. CASE \E wr \in WriteOutcomes : PdBadCheck(wr) \/ PdNotOurs \/ PdRetransmit(wr)
    <3> DEFINE nak == BuildNak(Head(toPd), NakBadCheck)
    <3>1. /\ toPd # <<>> /\ toPd' = Tail(toPd) /\ UNCHANGED cache
          /\ \/ toAcu' = toAcu
             \/ toAcu' = Append(toAcu, nak)
             \/ /\ cache # NoCache /\ cache.reply # NoReply /\ IsRetransmit(Head(toPd))
                /\ toAcu' = Append(toAcu, cache.reply)
      BY <2>2, AnswerSent
    <3>2. Len(toAcu) < MaxWire
      BY <2>2 DEF PdBadCheck, PdNotOurs, PdRetransmit, PdTakes
    <3>3. nak # NoReply /\ Confirms(nak, Head(toPd))
      <4>1. nak.scs = "NONE" /\ DOMAIN nak # DOMAIN NoReply
        BY DEF BuildNak, BuildReply, Frame, NoReply
      <4> HIDE DEF nak
      <4> QED
        BY <4>1 DEF Confirms
    <3> HIDE DEF nak
    <3>4. CASE toAcu' = toAcu
      BY <2>0, <3>1, <3>2, <3>3, <3>4, PdKeepsShake
    <3>5. CASE toAcu' = Append(toAcu, nak)
      BY <2>0, <3>1, <3>2, <3>3, <3>5, PdKeepsShake
    <3>6. CASE /\ cache # NoCache /\ cache.reply # NoReply /\ IsRetransmit(Head(toPd))
               /\ toAcu' = Append(toAcu, cache.reply)
      <4>1. Confirms(cache.reply, Head(toPd))
        <5> DEFINE c == cache.cmd
                   h == Head(toPd)
        <5>1. IsFrame(h)
          BY <3>1, <1>0, Taken DEF LineInv
        <5>2. IsFrame(c) /\ Bytes(c) = Bytes(h) /\ Confirms(cache.reply, c)
          BY <3>6 DEF OnceInv, CachedCmd, IsRetransmit, SingleInv
        <5> HIDE DEF c, h
        <5>3. c.scs = h.scs /\ c.sqn = h.sqn /\ c.data = h.data
          BY <5>1, <5>2 DEF Bytes, IsFrame
        <5>4. Confirms(cache.reply, h)
          BY <5>2, <5>3 DEF Confirms, Challenges
        <5> QED
          BY <5>4 DEF h
      <4> QED
        BY <2>0, <3>1, <3>2, <3>6, <4>1, PdKeepsShake
    <3> QED
      BY <3>1, <3>4, <3>5, <3>6
  <2>3. CASE PdGoOffline \/ PdRestart
    <3>1. toPd' = toPd /\ toAcu' = toAcu /\ cache' = NoCache
      BY <2>3 DEF PdGoOffline, PdRestart, ForgetCache, wireVars
    <3> QED
      BY <2>0, <3>1 DEF SingleInv, ShakeInv, Challenged, WentOn
  <2>4. CASE PdNotOurs
    BY <2>2, <2>4 DEF WriteOutcomes
  <2> QED
    BY <1>2, <2>1, <2>2, <2>3, <2>4 DEF PdNext
<1>3. CASE WireNext /\ UNCHANGED <<acuVars, pdVars>>
  <2>0. UNCHANGED <<nonces, gave_up, sc_phase, tx, waiting, timed_out, next_seq, pending_seq, cache>>
    BY <1>3 DEF acuVars, seqVars, scVars, countVars, pdVars
  <2>1. FromLine(toPd', toPd) /\ FromLine(toAcu', toAcu)
    BY <1>0, <1>3, WireFromLine
  <2>2. Len(toAcu') <= 1
    <3>1. PICK S : toAcu \in Seq(S)
      BY <1>0 DEF LineInv, IsSeq
    <3>2. CASE toAcu' = toAcu
      BY <3>2 DEF SingleInv
    <3>3. CASE toAcu # <<>> /\ toAcu' = Tail(toAcu)
      BY <3>1, <3>3 DEF SingleInv
    <3>4. CASE toAcu # <<>> /\ toAcu' = <<[Head(toAcu) EXCEPT !.bad = TRUE]>> \o Tail(toAcu)
      <4> DEFINE x == [Head(toAcu) EXCEPT !.bad = TRUE]
      <4> HIDE DEF x
      <4>1. toAcu' = <<x>> \o Tail(toAcu) /\ IsSeq(toAcu)
        BY <3>1, <3>4 DEF x, IsSeq
      <4> QED
        BY <3>4, <4>1, Replaced DEF SingleInv
    <3> QED
      BY <1>3, <3>2, <3>3, <3>4 DEF WireNext, Lose, Corrupt
  <2>3. \A s : (Challenged(s) => Challenged(s)') /\ (WentOn(s) => WentOn(s)')
    BY <2>0 DEF Challenged, WentOn
  <2>4. ShakeInv(toPd, toAcu)'
    <3> SUFFICES ASSUME sc_phase = "AWAITING_CCRYPT", ~gave_up PROVE ShakeInv(toPd, toAcu)'
      BY <2>0 DEF ShakeInv
    <3>1. ASSUME NEW j \in 1..Len(toPd'), Challenges(toPd'[j]), toPd'[j].data[1] = nonces
          PROVE  Challenged(toPd'[j].sqn)
      <4> PICK i \in 1..Len(toPd) : SameButBad(toPd'[j], toPd[i])
        BY <2>1 DEF FromLine
      <4> QED
        BY <3>1 DEF SingleInv, ShakeInv, SameButBad, Challenges
    <3>2. ASSUME NEW j \in 1..Len(toAcu'), toAcu'[j].scs = "SCS_12",
                 AnsweredNonce(toAcu'[j]) = nonces
          PROVE  Challenged(toAcu'[j].sqn) \/ WentOn(toAcu'[j].sqn)
      <4> PICK i \in 1..Len(toAcu) : SameButBad(toAcu'[j], toAcu[i])
        BY <2>1 DEF FromLine
      <4> QED
        BY <3>2 DEF SingleInv, ShakeInv, SameButBad, AnsweredNonce
    <3> QED
      BY <2>0, <2>3, <3>1, <3>2 DEF ShakeInv
  <2>5. \A j \in 1..Len(toAcu') : Dated(toAcu'[j], nonces)
    BY <2>1 DEF SingleInv, FromLine, SameButBad, Dated, AnsweredNonce
  <2> QED
    BY <2>0, <2>2, <2>4, <2>5 DEF SingleInv
<1>4. CASE Tick \/ UNCHANGED vars
  <2>1. UNCHANGED <<nonces, gave_up, sc_phase, tx, waiting, timed_out, next_seq, pending_seq, cache,
                    toPd, toAcu>>
    BY <1>4 DEF Tick, vars, acuVars, seqVars, scVars, countVars, pdVars, wireVars
  <2> QED
    BY <2>1 DEF SingleInv, ShakeInv, Challenged, WentOn
<1> QED
  BY <1>1, <1>2, <1>3, <1>4 DEF Next

\* The only step that could displace a command is the reply to a challenge.
LEMMA DisplacedStep ==
    ASSUME KeysInv, SingleInv, [Next]_vars, waiting, tx.id # 0, waiting', tx' # tx
    PROVE  gave_up /\ tx'.code = "SCRYPT"
<1>1. CASE AcuNext
  <2>1. CASE \E c \in Cmds, wr \in WriteOutcomes : SendCommand(c, wr)
    BY <2>1 DEF SendCommand, MayTransmit
  <2>2. CASE \E sel \in Selectors, wr \in WriteOutcomes : StartScHandshake(sel, wr)
    BY <2>2 DEF StartScHandshake, MayTransmit
  <2>3. CASE \/ \E a \in Addresses : RegisterPd(a)
             \/ (\E k \in Keys : SetPdScbk(k)) \/ SetPdScbkD \/ ReplyTimesOut \/ GoOffline
    BY <2>3 DEF RegisterPd, SetPdScbk, SetPdScbkD, ReplyTimesOut, GoOffline
  <2>4. CASE \E wr \in WriteOutcomes : AcuReceive(wr)
    <3> PICK wr \in WriteOutcomes : AcuReceive(wr)
      BY <2>4
    <3> DEFINE f == Head(toAcu)
    <3>1. \/ Ignored \/ ProcessReply(f) \/ HandleScReply(f) \/ HandleRmacI(f)
          \/ f.scs = "SCS_12" /\ sc_phase = "AWAITING_CCRYPT" /\ HandleCcrypt(f, wr)
      BY Zenon DEF AcuReceive
    <3>2. CASE Ignored \/ ProcessReply(f) \/ HandleScReply(f) \/ HandleRmacI(f)
      BY <3>2 DEF Ignored, ProcessReply, HandleScReply, HandleRmacI, SessionEnds, HandshakeFails
    <3>3. CASE f.scs = "SCS_12" /\ sc_phase = "AWAITING_CCRYPT" /\ HandleCcrypt(f, wr)
      <4> DEFINE keys == DeriveSessionKeys(HandshakeKey(sc_key_selector), sc_rnd_a)
      <4>0. tx'.code = "SCRYPT"
        BY <3>3 DEF HandleCcrypt, Ignored, HandshakeFails, Transmitted, Frame
      <4> SUFFICES ASSUME ~gave_up PROVE FALSE
        BY <4>0
      <4>1. f.sqn = pending_seq /\ f.data[2] = ClientCryptogram(keys, sc_rnd_a, f.data[1])
        BY <3>3 DEF HandleCcrypt, Ignored, HandshakeFails
      <4>2. AnsweredNonce(f) = nonces
        <5> HIDE DEF keys
        <5>1. f.data[2][3] = sc_rnd_a
          BY <4>1 DEF ClientCryptogram
        <5> QED
          BY <3>3, <5>1 DEF AnsweredNonce, KeysInv, SlotKeysInv
      <4>3. f = toAcu[1] /\ 1 \in 1..Len(toAcu)
        <5>1. toAcu # <<>> /\ IsSeq(toAcu)
          BY DEF AcuReceive, KeysInv, LineInv
        <5> QED
          BY <5>1, Taken
      <4> HIDE DEF f
      <4>4. Challenged(pending_seq) \/ WentOn(pending_seq)
        BY <3>3, <4>1, <4>2, <4>3 DEF SingleInv, ShakeInv
      <4>5. pending_seq \in 0..3
        BY DEF KeysInv, TypeOK, SlotTypeOK
      <4> QED
        BY <4>4, <4>5 DEF Challenged, WentOn, AdvanceSqn
    <3> QED
      BY <3>1, <3>2, <3>3
  <2> QED
    BY <1>1, <2>1, <2>2, <2>3, <2>4 DEF AcuNext
<1>2. CASE \/ PdNext /\ UNCHANGED acuVars
           \/ WireNext /\ UNCHANGED <<acuVars, pdVars>>
           \/ Tick \/ UNCHANGED vars
  BY <1>2 DEF Tick, acuVars, vars
<1> QED
  BY <1>1, <1>2 DEF Next

LEMMA SingleInit == Init => SingleInv
<1> SUFFICES ASSUME Init PROVE SingleInv
  OBVIOUS
<1>1. toPd = <<>> /\ toAcu = <<>> /\ sc_phase = "IDLE" /\ cache = NoCache
  BY DEF Init, WireInit, AcuInit, PdInit
<1> QED
  BY <1>1 DEF SingleInv, ShakeInv

\* A command the application waits for is displaced only by the server cryptogram,
\* and only after the application gave up a challenge that had timed out, for any
\* application, any number of handshakes, registrations and restarts and whatever
\* is lost, corrupted, cut short or late.  handle_ccrypt does not look at waiting:
\* as long as the challenge was not given up, a client cryptogram that is late by
\* one stale reply has the wrong number.
THEOREM CommandsNotDisplaced ==
    ASSUME SingleFile
    PROVE  Spec => DisplacedOnlyIfGivenUp
<1>1. KeysInv /\ OnceInv /\ SingleInv /\ [Next]_vars => SingleInv'
  BY SingleStep
<1>2. KeysInv /\ SingleInv /\ [Next]_vars
        => [(waiting /\ tx.id # 0 /\ waiting' /\ tx' # tx)
                => gave_up /\ tx'.code = "SCRYPT"]_vars
  BY DisplacedStep
<1> QED
  BY <1>1, <1>2, SingleInit, KeysAlwaysKnown, OnceInvariant, PTL
     DEF Spec, DisplacedOnlyIfGivenUp
=============================================================================
