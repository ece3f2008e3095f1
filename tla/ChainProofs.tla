---------------------------- MODULE ChainProofs -----------------------------
(***************************************************************************)
(* The MAC chain of a session, for every value of the constants of Link:   *)
(* whatever is lost, corrupted or late, the two ends can go on.  Either    *)
(* they stand at the same place of the chain, or the PD is one reply ahead *)
(* and still has that reply for the command the slot will repeat.          *)
(***************************************************************************)
EXTENDS DeliveryProofs

-----------------------------------------------------------------------------
(* The chain of a session.                                                 *)

\* An application that repeats a command until it is answered, writes that
\* succeed, replies that fit the cache, a PD that keeps its cache at least as
\* long as the slot waits for it, and no COMSET, whose reply is never cached.
Steadfast ==
    /\ GivesUp = FALSE /\ "short" \notin Faults /\ ReplyFits \subseteq {TRUE}
    /\ OfflineTimeout <= PdOfflineTimeout
    /\ \A c \in Cmds : c.code # "COMSET"

ProofKeys(d) == d[2]        \* the session keys of a server cryptogram
MacSqn(mac)  == mac[4].sqn  \* the sequence number a MAC covers

LEMMA ChainTerms ==
    /\ \A k, a, b : ProofKeys(ServerCryptogram(k, a, b)) = k
    /\ \A k, i, f : ComputeMac(k, i, f)[1] = "mac" /\ ComputeMac(k, i, f)[4] = Signed(f)
    /\ \A k, s : InitialRmac(k, s)[1] = "rmac"
BY DEF ProofKeys, ServerCryptogram, ComputeMac, InitialRmac

\* What the MAC covers does not depend on the MAC, nor on the history field.
LEMMA SignedSame ==
    ASSUME NEW f, NEW g, IsFrame(f), IsFrame(g),
           f.addr = g.addr, f.sqn = g.sqn, f.scs = g.scs, f.scb = g.scb, f.code = g.code,
           f.data = g.data, f.bad = g.bad
    PROVE  Signed(f) = Signed(g)
BY DEF Signed, IsFrame

LEMMA SignedSqn ==
    ASSUME NEW f, IsFrame(f)
    PROVE  Signed(f).sqn = f.sqn
BY DEF Signed, IsFrame

-----------------------------------------------------------------------------
(* What a fresh command does to the PD's session.                          *)

\* The server cryptogram of the PD's challenge seeds the session.
PdSeeded(f) ==
    /\ f.scs = "SCS_13" /\ ProofKeys(f.data) = pd_session.keys
    /\ pd_session'.established /\ pd_session'.keys = pd_session.keys
    /\ \E g : /\ g.scs = "SCS_14" /\ g.data = pd_session'.last_outbound_mac
              /\ RmacKeys(g.data) = pd_session.keys
              /\ toAcu' = Append(toAcu, g) /\ cache' = [cmd |-> f, reply |-> g]

\* A command that unwraps is answered out of the session.
PdUnwrapped(f) ==
    /\ f.scs = "SCS_CMD" /\ pd_session.established
    /\ f.mac = ComputeMac(pd_session.keys, pd_session.last_outbound_mac, f)
    /\ pd_session'.established /\ pd_session'.keys = pd_session.keys
    /\ \E g : /\ IsFrame(g) /\ g.scs = "SCS_REPLY" /\ g.mac = pd_session'.last_outbound_mac
              /\ g.mac = ComputeMac(pd_session.keys, f.mac, g)
              /\ toAcu' = Append(toAcu, g) /\ cache' = [cmd |-> f, reply |-> g]
    /\ pd_online' = TRUE /\ comm_age' = 0

\* Anything else leaves the chain where it is, or ends the session.
PdUnmoved(f) ==
    /\ pd_session'.established =>
          /\ pd_session.established /\ f.scs # "NONE"
          /\ pd_session'.keys = pd_session.keys
          /\ pd_session'.last_outbound_mac = pd_session.last_outbound_mac
    /\ \E reply : /\ Replied(f, reply)
                  /\ reply # NoReply => reply.scs # "SCS_REPLY" /\ ~Seeds(reply)

LEMMA PlainReplies ==
    ASSUME NEW f, NEW err, NEW code, NEW data
    PROVE  /\ BuildNak(f, err).scs = "NONE" /\ BuildBusy(f).scs = "NONE"
           /\ BuildReply(f, code, data).scs = "NONE"
           /\ BuildNak(f, err).code = "NAK"
BY DEF BuildNak, BuildBusy, BuildReply, Frame

\* A handler that only answers, with a reply without a security block or none.
LEMMA RefuseUnmoved ==
    ASSUME NEW f, NEW reply, NEW fits, NEW wr, Refuse(f, reply, fits, wr),
           reply # NoReply => reply.scs # "SCS_REPLY" /\ ~Seeds(reply),
           \/ pd_session' = pd_session /\ f.scs # "NONE"
           \/ pd_session'.established = FALSE
    PROVE  PdUnmoved(f)
BY RefuseReplied DEF PdUnmoved

LEMMA ClearUnmoved ==
    ASSUME NEW f, NEW v \in Verdicts, NEW eff, NEW fits, NEW wr, PdTypeOK,
           HandleClear(f, v, eff, fits, wr)
    PROVE  PdUnmoved(f)
<1> DEFINE out == Dispatch(f, v, eff)
           r   == BuildReply(f, out.code, out.data)
<1>1. pd_session'.established = FALSE
  BY DEF HandleClear, SessionInit, PdTypeOK, SessionType
<1>2. \/ Refuse(f, BuildNak(f, NakEncryption), fits, wr)
      \/ Dispatched(f, v, eff, r, fits, wr)
      \/ Dispatched(f, v, eff, BuildBusy(f), fits, wr)
      \/ Dispatched(f, v, eff, NoReply, fits, wr)
  <2>1. out.kind \in {"SEND", "BUSY", "DROP"}
    BY DispatchKind
  <2> QED
    BY <2>1 DEF HandleClear
<1>3. \E reply : Replied(f, reply) /\ (reply # NoReply => reply.scs = "NONE")
  <2> HIDE DEF out
  <2>1. r.scs = "NONE" /\ BuildNak(f, NakEncryption).scs = "NONE" /\ BuildBusy(f).scs = "NONE"
    BY PlainReplies
  <2> HIDE DEF r
  <2> QED
    BY <1>2, <2>1, RefuseReplied, DispatchedReplied
<1> QED
  BY <1>1, <1>3 DEF PdUnmoved, Seeds

LEMMA ChlngUnmoved ==
    ASSUME NEW f, NEW fits, NEW wr, PdTypeOK, f.scs # "NONE", HandleChlng(f, fits, wr)
    PROVE  PdUnmoved(f)
<1> DEFINE key  == SelectHandshakeKey(f.scb)
           rndB == pd_nonces + 1
           keys == DeriveSessionKeys(key, f.data[1])
           ccrypt == BuildHandshakeReply(f, "SCS_12", f.scb, "CCRYPT",
                                         <<rndB, ClientCryptogram(keys, f.data[1], rndB)>>)
<1>1. CASE key = NoKey
  <2>1. Refuse(f, BuildNak(f, NakScb), fits, wr) /\ pd_session' = pd_session
    BY <1>1 DEF HandleChlng, pdScVars
  <2>2. BuildNak(f, NakScb).scs = "NONE"
    BY PlainReplies
  <2> QED
    BY <2>1, <2>2, RefuseUnmoved DEF Seeds
<1>2. CASE key # NoKey
  <2>1. /\ Refuse(f, ccrypt, fits, wr)
        /\ pd_session' = [pd_session EXCEPT !.keys = keys, !.established = FALSE]
    BY <1>2 DEF HandleChlng
  <2>2. ccrypt.scs = "SCS_12"
    BY DEF BuildHandshakeReply, Frame
  <2>3. pd_session'.established = FALSE
    BY <2>1 DEF PdTypeOK, SessionType
  <2> HIDE DEF ccrypt
  <2> QED
    BY <2>1, <2>2, <2>3, RefuseUnmoved DEF Seeds
<1> QED
  BY <1>1, <1>2

LEMMA ScryptOutcome ==
    ASSUME NEW f, PdTypeOK, f.scs = "SCS_13", HandleScrypt(f, TRUE, TRUE)
    PROVE  PdSeeded(f) \/ PdUnmoved(f)
<1> DEFINE keys == pd_session.keys
           rmac == InitialRmac(keys, f.data)
           good == BuildHandshakeReply(f, "SCS_14", 1, "RMAC_I", rmac)
           poor == BuildHandshakeReply(f, "SCS_14", 255, "RMAC_I", <<>>)
<1>1. CASE ~got_chlng
  <2>1. Refuse(f, BuildNak(f, NakScb), TRUE, TRUE) /\ pd_session' = pd_session
    BY <1>1 DEF HandleScrypt
  <2>2. BuildNak(f, NakScb).scs = "NONE"
    BY PlainReplies
  <2> QED
    BY <2>1, <2>2, RefuseUnmoved DEF Seeds
<1>2. CASE got_chlng /\ f.data # ServerCryptogram(keys, pd_rnd_a, pd_rnd_b)
  <2>1. Refuse(f, poor, TRUE, TRUE) /\ pd_session' = [pd_session EXCEPT !.established = FALSE]
    BY <1>2 DEF HandleScrypt
  <2>2. poor.scs # "SCS_REPLY" /\ ~Seeds(poor)
    BY DEF BuildHandshakeReply, Frame, Seeds
  <2>3. pd_session'.established = FALSE
    BY <2>1 DEF PdTypeOK, SessionType
  <2> HIDE DEF poor
  <2> QED
    BY <2>1, <2>2, <2>3, RefuseUnmoved
<1>3. CASE got_chlng /\ f.data = ServerCryptogram(keys, pd_rnd_a, pd_rnd_b)
  <2>1. Refuse(f, good, TRUE, TRUE) /\ pd_session' = SessionSeeded(keys, rmac)
    BY <1>3 DEF HandleScrypt
  <2>2. good.scs = "SCS_14" /\ good.data = rmac /\ good # NoReply
    BY DEF BuildHandshakeReply, Frame, NoReply
  <2>3. /\ pd_session'.established /\ pd_session'.keys = keys
        /\ pd_session'.last_outbound_mac = rmac /\ RmacKeys(rmac) = keys
    BY <2>1, Terms DEF SessionSeeded
  <2>4. ProofKeys(f.data) = keys
    BY <1>3, ChainTerms
  <2> HIDE DEF good, rmac
  <2>5. toAcu' = Append(toAcu, good) /\ cache' = [cmd |-> f, reply |-> good]
    BY <2>1, <2>2 DEF Refuse, Answer, SendBytes, CacheReply
  <2>6. PdSeeded(f)
    BY <2>2, <2>3, <2>4, <2>5 DEF PdSeeded
  <2> QED
    BY <2>6
<1> QED
  BY <1>1, <1>2, <1>3

LEMMA OperationalOutcome ==
    ASSUME NEW f, NEW v \in Verdicts, NEW eff, PdTypeOK, f.scs = "SCS_CMD", f.code # "COMSET",
           HandleOperational(f, v, eff, TRUE, TRUE)
    PROVE  PdUnwrapped(f) \/ PdUnmoved(f)
<1> DEFINE inner == AfterUnwrap(pd_session, f)
           out   == Dispatch(f, v, eff)
           plain == Frame(f.addr, f.sqn, "SCS_REPLY", 0, out.code, out.data, f.id)
<1>1. CASE ~(pd_session.established /\ UnwrapOk(pd_session, f))
  <2>1. /\ pd_session' = pd_session
        /\ Refuse(f, BuildNak(f, NakScb), TRUE, TRUE) \/ Refuse(f, NoReply, TRUE, TRUE)
    BY <1>1 DEF HandleOperational
  <2>2. BuildNak(f, NakScb).scs = "NONE"
    BY PlainReplies
  <2> QED
    BY <2>1, <2>2, RefuseUnmoved DEF Seeds
<1>2. /\ inner.keys = pd_session.keys /\ inner.established = pd_session.established
      /\ inner.last_inbound_mac = f.mac /\ SessionType(inner)
      /\ inner.last_outbound_mac = pd_session.last_outbound_mac
  BY DEF AfterUnwrap, PdTypeOK, SessionType
<1> HIDE DEF inner
<1>3. CASE pd_session.established /\ UnwrapOk(pd_session, f) /\ out.kind = "SEND"
  <2>1. /\ pd_session' = AfterWrap(inner, plain)
        /\ Dispatched(f, v, eff, Wrap(inner, plain), TRUE, TRUE)
    BY <1>3 DEF HandleOperational, inner
  <2>2. out.kind # "BUSY"
    BY <1>3
  <2>3. IsFrame(plain) /\ plain.scs = "SCS_REPLY"
    BY DEF Frame, IsFrame
  <2> HIDE DEF plain
  <2> DEFINE mac == ComputeMac(inner.keys, inner.last_inbound_mac, plain)
             g   == [plain EXCEPT !.mac = mac]
  <2>4. Wrap(inner, plain) = g /\ pd_session' = [inner EXCEPT !.last_outbound_mac = mac]
    BY <2>1 DEF Wrap, AfterWrap
  <2>5. mac = ComputeMac(pd_session.keys, f.mac, plain)
    BY <1>2
  <2> HIDE DEF mac
  <2>6. pd_session'.established /\ pd_session'.keys = pd_session.keys
        /\ pd_session'.last_outbound_mac = mac
    BY <1>2, <1>3, <2>4 DEF SessionType
  <2>7. /\ IsFrame(g) /\ g.scs = "SCS_REPLY" /\ g.mac = mac /\ g # NoReply
        /\ g.addr = plain.addr /\ g.sqn = plain.sqn /\ g.scb = plain.scb /\ g.code = plain.code
        /\ g.data = plain.data /\ g.bad = plain.bad
    BY <2>3 DEF IsFrame, NoReply
  <2> HIDE DEF g
  <2>8. g.mac = ComputeMac(pd_session.keys, f.mac, g)
    <3>1. Signed(g) = Signed(plain)
      BY <2>3, <2>7, SignedSame
    <3> QED
      BY <3>1, <2>5, <2>7 DEF ComputeMac
  <2>9. toAcu' = Append(toAcu, g) /\ pd_online' = TRUE /\ comm_age' = 0
        /\ cache' = [cmd |-> f, reply |-> g]
    BY <2>1, <2>2, <2>4, <2>7 DEF Dispatched, SendBytes, CacheReply
  <2>10. f.mac = ComputeMac(pd_session.keys, pd_session.last_outbound_mac, f)
    BY <1>3 DEF UnwrapOk
  <2>11. PdUnwrapped(f)
    BY <1>3, <2>6, <2>7, <2>8, <2>9, <2>10 DEF PdUnwrapped
  <2> QED
    BY <2>11
<1>4. CASE pd_session.established /\ UnwrapOk(pd_session, f) /\ out.kind \in {"BUSY", "DROP"}
  <2>1. /\ pd_session' = inner
        /\ \/ Dispatched(f, v, eff, BuildBusy(f), TRUE, TRUE)
           \/ Dispatched(f, v, eff, NoReply, TRUE, TRUE)
    BY <1>4 DEF HandleOperational, inner
  <2>2. BuildBusy(f).scs = "NONE"
    BY PlainReplies
  <2>3. Replied(f, BuildBusy(f)) \/ Replied(f, NoReply)
    BY <2>1, DispatchedReplied
  <2> QED
    BY <1>2, <1>4, <2>1, <2>2, <2>3 DEF PdUnmoved, Seeds
<1> QED
  BY <1>1, <1>3, <1>4, DispatchKind

LEMMA PdFreshOutcome ==
    ASSUME NEW v \in Verdicts, PdTypeOK, Head(toPd).code # "COMSET", PdFresh(v, TRUE, TRUE)
    PROVE  PdSeeded(Head(toPd)) \/ PdUnwrapped(Head(toPd)) \/ PdUnmoved(Head(toPd))
<1> DEFINE f == Head(toPd)
<1>1. \/ Refuse(f, BuildNak(f, NakScb), TRUE, TRUE) /\ UNCHANGED pdScVars /\ f.scs # "NONE"
      \/ \E eff \in EffectiveAddresses(f) : HandleClear(f, v, eff, TRUE, TRUE)
      \/ f.scs = "SCS_11" /\ HandleChlng(f, TRUE, TRUE)
      \/ f.scs = "SCS_13" /\ HandleScrypt(f, TRUE, TRUE)
      \/ \E eff \in EffectiveAddresses(f) :
            f.scs = "SCS_CMD" /\ HandleOperational(f, v, eff, TRUE, TRUE)
  BY DEF PdFresh
<1>2. CASE Refuse(f, BuildNak(f, NakScb), TRUE, TRUE) /\ UNCHANGED pdScVars /\ f.scs # "NONE"
  <2>1. BuildNak(f, NakScb).scs = "NONE"
    BY PlainReplies
  <2> QED
    BY <1>2, <2>1, RefuseUnmoved DEF Seeds, pdScVars
<1>3. CASE f.scs = "SCS_11" /\ HandleChlng(f, TRUE, TRUE)
  BY <1>3, ChlngUnmoved
<1> QED
  BY <1>1, <1>2, <1>3, ClearUnmoved, ScryptOutcome, OperationalOutcome

-----------------------------------------------------------------------------
(* The handshake: by the time the slot enters a session, what is left on   *)
(* the line cannot disturb it.                                             *)

\* The server cryptogram, and the confirmation, of handshake n.
ProofOf(f, n) == f.scs = "SCS_13" /\ Nonce(ProofKeys(f.data)) = n
SeedOf(g, n)  == Seeds(g) /\ Nonce(RmacKeys(g.data)) = n

Holds(c)   == c # NoCache /\ c.reply # NoReply
InWith(s, n) == s.established /\ Nonce(s.keys) = n
AllClear(cmds) == \A j \in 1..Len(cmds) : cmds[j].scs = "NONE"

\* The PD has confirmed handshake n: the confirmation is on its way, cached, or
\* the PD is in the session.
Confirmed(n, rpls, c, s) ==
    \/ \E i \in 1..Len(rpls) : SeedOf(rpls[i], n)
    \/ Holds(c) /\ SeedOf(c.reply, n)
    \/ InWith(s, n)

\* The slot has not sent the server cryptogram of handshake n.
Unproved(n, cmds, rpls, c, s) ==
    ~Confirmed(n, rpls, c, s) /\ \A j \in 1..Len(cmds) : ~ProofOf(cmds[j], n)

\* It has, and nothing of a session follows it before the confirmation is in.
Proving(n, cmds, rpls, c, s) ==
    /\ \A i, j \in 1..Len(cmds) : i < j /\ ProofOf(cmds[i], n) => cmds[j].scs = "NONE"
    /\ Confirmed(n, rpls, c, s) => AllClear(cmds)
    /\ InWith(s, n) =>
          /\ Holds(c) => /\ c.reply.scs # "SCS_REPLY"
                         /\ SeedOf(c.reply, n) => c.reply.data = s.last_outbound_mac
          /\ \A i \in 1..Len(rpls) : SeedOf(rpls[i], n) =>
                /\ rpls[i].data = s.last_outbound_mac
                /\ \A k \in 1..Len(rpls) : k > i => rpls[k].scs # "SCS_REPLY"

CmdFits(f, n) ==
    /\ f.code # "COMSET"
    /\ f.scs = "SCS_13" => Nonce(ProofKeys(f.data)) \in Nat /\ Nonce(ProofKeys(f.data)) <= n

Operational(f) == f.scs \in {"NONE", "SCS_CMD"}

Handshaking(n, phase, cmds, rpls, c, s) ==
    /\ \A j \in 1..Len(cmds) : CmdFits(cmds[j], n)
    /\ phase = "AWAITING_CCRYPT" => Unproved(n, cmds, rpls, c, s)
    /\ phase = "AWAITING_RMAC_I" => Proving(n, cmds, rpls, c, s)
    /\ phase = "ESTABLISHED" => \A j \in 1..Len(cmds) : Operational(cmds[j])

HandshakeInv == Handshaking(nonces, sc_phase, toPd, toAcu, cache, pd_session)

-----------------------------------------------------------------------------
(* What a step may do to it.                                               *)

\* Frames leave the line or are corrupted on it.
LEMMA HandshakingFollows ==
    ASSUME NEW n, NEW phase, NEW cmds, NEW rpls, NEW c, NEW s, NEW newCmds, NEW newRpls,
           Len(cmds) \in Nat, Len(rpls) \in Nat, Len(newCmds) \in Nat, Len(newRpls) \in Nat,
           Follows(newCmds, cmds), Follows(newRpls, rpls),
           Handshaking(n, phase, cmds, rpls, c, s)
    PROVE  Handshaking(n, phase, newCmds, newRpls, c, s)
<1>1. PICK d \in {0, 1} : \A j \in 1..Len(newCmds) :
                 j + d \in 1..Len(cmds) /\ SameButBad(newCmds[j], cmds[j + d])
  BY DEF Follows
<1>2. PICK e \in {0, 1} : \A j \in 1..Len(newRpls) :
                 j + e \in 1..Len(rpls) /\ SameButBad(newRpls[j], rpls[j + e])
  BY DEF Follows
<1>3. \A x, y : SameButBad(x, y) =>
         /\ CmdFits(y, n) => CmdFits(x, n)
         /\ ProofOf(x, n) = ProofOf(y, n) /\ SeedOf(x, n) = SeedOf(y, n)
         /\ Operational(y) => Operational(x)
         /\ x.scs = y.scs /\ x.data = y.data
  BY DEF SameButBad, CmdFits, ProofOf, SeedOf, Operational, Seeds
<1>4. \A j \in 1..Len(newCmds) : CmdFits(newCmds[j], n)
  BY <1>1, <1>3 DEF Handshaking
<1>5. phase = "ESTABLISHED" => \A j \in 1..Len(newCmds) : Operational(newCmds[j])
  BY <1>1, <1>3 DEF Handshaking
<1>6. Confirmed(n, newRpls, c, s) => Confirmed(n, rpls, c, s)
  BY <1>2, <1>3 DEF Confirmed
<1>7. phase = "AWAITING_CCRYPT" => Unproved(n, newCmds, newRpls, c, s)
  BY <1>1, <1>3, <1>6 DEF Handshaking, Unproved
<1>8. ASSUME phase = "AWAITING_RMAC_I" PROVE Proving(n, newCmds, newRpls, c, s)
  <2>0. Proving(n, cmds, rpls, c, s)
    BY <1>8 DEF Handshaking
  <2>1. ASSUME NEW i \in 1..Len(newCmds), NEW j \in 1..Len(newCmds), i < j, ProofOf(newCmds[i], n)
        PROVE  newCmds[j].scs = "NONE"
    <3>1. i + d \in 1..Len(cmds) /\ j + d \in 1..Len(cmds) /\ i + d < j + d
      BY <2>1, <1>1
    <3>2. ProofOf(cmds[i + d], n) /\ newCmds[j].scs = cmds[j + d].scs
      BY <2>1, <1>1, <1>3
    <3> QED
      BY <3>1, <3>2, <2>0 DEF Proving
  <2>2. Confirmed(n, newRpls, c, s) => AllClear(newCmds)
    BY <2>0, <1>1, <1>3, <1>6 DEF Proving, AllClear
  <2>3. ASSUME InWith(s, n), NEW i \in 1..Len(newRpls), SeedOf(newRpls[i], n)
        PROVE  /\ newRpls[i].data = s.last_outbound_mac
               /\ \A k \in 1..Len(newRpls) : k > i => newRpls[k].scs # "SCS_REPLY"
    <3>1. i + e \in 1..Len(rpls) /\ SeedOf(rpls[i + e], n) /\ newRpls[i].data = rpls[i + e].data
      BY <2>3, <1>2, <1>3
    <3>2. /\ rpls[i + e].data = s.last_outbound_mac
          /\ \A k \in 1..Len(rpls) : k > i + e => rpls[k].scs # "SCS_REPLY"
      BY <3>1, <2>3, <2>0 DEF Proving
    <3>3. \A k \in 1..Len(newRpls) : k > i =>
              k + e \in 1..Len(rpls) /\ k + e > i + e /\ newRpls[k].scs = rpls[k + e].scs
      BY <1>2, <1>3
    <3> QED
      BY <3>1, <3>2, <3>3
  <2>4. InWith(s, n) => (Holds(c) => /\ c.reply.scs # "SCS_REPLY"
                                     /\ SeedOf(c.reply, n) => c.reply.data = s.last_outbound_mac)
    BY <2>0 DEF Proving
  <2> QED
    BY <2>1, <2>2, <2>3, <2>4 DEF Proving
<1> QED
  BY <1>4, <1>5, <1>7, <1>8 DEF Handshaking

\* The slot sends a command: in the clear, or in its session.
LEMMA HandshakingSends ==
    ASSUME NEW n, NEW phase, NEW cmds, NEW rpls, NEW c, NEW s, NEW f, IsSeq(cmds),
           f.code # "COMSET", f.scs = IF phase = "ESTABLISHED" THEN "SCS_CMD" ELSE "NONE",
           Handshaking(n, phase, cmds, rpls, c, s)
    PROVE  Handshaking(n, phase, Append(cmds, f), rpls, c, s)
<1> DEFINE new == Append(cmds, f)
<1>1. /\ Len(cmds) \in Nat /\ Len(new) = Len(cmds) + 1 /\ new[Len(cmds) + 1] = f
      /\ \A j \in 1..Len(cmds) : new[j] = cmds[j]
  BY Appended
<1>2. \A j \in 1..Len(new) : j \in 1..Len(cmds) \/ j = Len(cmds) + 1
  BY <1>1
<1> HIDE DEF new
<1>3. CmdFits(f, n) /\ Operational(f) /\ ~ProofOf(f, n)
  BY DEF CmdFits, Operational, ProofOf
<1>4. \A j \in 1..Len(new) : CmdFits(new[j], n)
  BY <1>1, <1>2, <1>3 DEF Handshaking
<1>5. phase = "ESTABLISHED" => \A j \in 1..Len(new) : Operational(new[j])
  BY <1>1, <1>2, <1>3 DEF Handshaking
<1>6. phase = "AWAITING_CCRYPT" => Unproved(n, new, rpls, c, s)
  BY <1>1, <1>2, <1>3 DEF Handshaking, Unproved
<1>7. ASSUME phase = "AWAITING_RMAC_I" PROVE Proving(n, new, rpls, c, s)
  <2>1. Proving(n, cmds, rpls, c, s) /\ f.scs = "NONE"
    BY <1>7 DEF Handshaking
  <2>2. ASSUME NEW i \in 1..Len(new), NEW j \in 1..Len(new), i < j, ProofOf(new[i], n)
        PROVE  new[j].scs = "NONE"
    <3>1. CASE j = Len(cmds) + 1
      BY <3>1, <1>1, <2>1
    <3>2. CASE j # Len(cmds) + 1
      <4>1. i \in 1..Len(cmds) /\ j \in 1..Len(cmds)
        BY <3>2, <2>2, <1>1, <1>2
      <4> QED
        BY <4>1, <2>1, <2>2, <1>1 DEF Proving
    <3> QED
      BY <3>1, <3>2
  <2>3. AllClear(cmds) => AllClear(new)
    BY <2>1, <1>1, <1>2 DEF AllClear
  <2> QED
    BY <2>1, <2>2, <2>3 DEF Proving
<1> QED
  BY <1>4, <1>5, <1>6, <1>7 DEF Handshaking, new

\* The slot starts a new handshake: nobody has seen its nonce.
LEMMA HandshakingAsks ==
    ASSUME KeysInv, HandshakeInv, NEW f, f.scs = "SCS_11", f.code # "COMSET"
    PROVE  Handshaking(nonces + 1, "AWAITING_CCRYPT", Append(toPd, f), toAcu, cache, pd_session)
<1> DEFINE new == Append(toPd, f)
           n   == nonces + 1
<1>0. nonces \in Nat /\ n \in Nat /\ IsSeq(toPd)
  BY DEF KeysInv, SlotKeysInv, LineInv
<1>1. /\ Len(toPd) \in Nat /\ Len(new) = Len(toPd) + 1 /\ new[Len(toPd) + 1] = f
      /\ \A j \in 1..Len(toPd) : new[j] = toPd[j]
  BY <1>0, Appended
<1>2. \A j \in 1..Len(new) : j \in 1..Len(toPd) \/ j = Len(toPd) + 1
  BY <1>1
<1> HIDE DEF new
<1>3. \A k : k \in Nat /\ k <= nonces => k <= n /\ k # n
  BY <1>0
<1>4. \A K : Known(K, nonces, toPd, pd_session.keys) => Nonce(K) # n
  BY <1>3 DEF Known
<1>5. \A j \in 1..Len(toPd) : CmdFits(toPd[j], n) /\ ~ProofOf(toPd[j], n)
  BY <1>3 DEF HandshakeInv, Handshaking, CmdFits, ProofOf
<1>6. CmdFits(f, n) /\ ~ProofOf(f, n)
  BY DEF CmdFits, ProofOf
<1>7. ~Confirmed(n, toAcu, cache, pd_session)
  <2>1. \A i \in 1..Len(toAcu) : ~SeedOf(toAcu[i], n)
    BY <1>4 DEF KeysInv, PdKeysInv, SeedsKnown, SeedOf
  <2>2. ~(Holds(cache) /\ SeedOf(cache.reply, n))
    BY <1>4 DEF KeysInv, PdKeysInv, SeedsKnown, SeedOf, Holds
  <2>3. ~InWith(pd_session, n)
    BY <1>4 DEF KeysInv, PdKeysInv, InWith
  <2> QED
    BY <2>1, <2>2, <2>3 DEF Confirmed
<1> HIDE DEF n
<1>8. \A j \in 1..Len(new) : CmdFits(new[j], n) /\ ~ProofOf(new[j], n)
  BY <1>1, <1>2, <1>5, <1>6
<1> QED
  BY <1>7, <1>8 DEF Handshaking, Unproved, n, new

\* The slot proves itself.
LEMMA HandshakingProves ==
    ASSUME NEW n \in Nat, NEW cmds, NEW rpls, NEW c, NEW s, NEW f, IsSeq(cmds),
           f.code # "COMSET", f.scs = "SCS_13", Nonce(ProofKeys(f.data)) = n,
           Handshaking(n, "AWAITING_CCRYPT", cmds, rpls, c, s)
    PROVE  Handshaking(n, "AWAITING_RMAC_I", Append(cmds, f), rpls, c, s)
<1> DEFINE new == Append(cmds, f)
<1>1. /\ Len(cmds) \in Nat /\ Len(new) = Len(cmds) + 1 /\ new[Len(cmds) + 1] = f
      /\ \A j \in 1..Len(cmds) : new[j] = cmds[j]
  BY Appended
<1>2. \A j \in 1..Len(new) : j \in 1..Len(cmds) \/ j = Len(cmds) + 1
  BY <1>1
<1> HIDE DEF new
<1>3. Unproved(n, cmds, rpls, c, s)
  BY DEF Handshaking
<1>4. CmdFits(f, n)
  BY DEF CmdFits
<1>5. \A j \in 1..Len(new) : CmdFits(new[j], n)
  BY <1>1, <1>2, <1>4 DEF Handshaking
<1>6. \A i, j \in 1..Len(new) : i < j => i \in 1..Len(cmds)
  BY <1>1, <1>2
<1>7. Proving(n, new, rpls, c, s)
  <2>1. ~Confirmed(n, rpls, c, s) /\ ~InWith(s, n)
    BY <1>3 DEF Unproved, Confirmed
  <2>2. \A i, j \in 1..Len(new) : i < j => ~ProofOf(new[i], n)
    BY <1>1, <1>3, <1>6 DEF Unproved
  <2> QED
    BY <2>1, <2>2 DEF Proving
<1> QED
  BY <1>5, <1>7 DEF Handshaking, new

\* The PD's answer g is a repetition of the cached one, or of no interest.
LEMMA HandshakingAnswers ==
    ASSUME NEW n, NEW phase, NEW cmds, NEW rpls, NEW c, NEW s, NEW g, IsSeq(rpls),
           (Holds(c) /\ g = c.reply) \/ (~Seeds(g) /\ g.scs # "SCS_REPLY"),
           Handshaking(n, phase, cmds, rpls, c, s)
    PROVE  Handshaking(n, phase, cmds, Append(rpls, g), c, s)
<1> DEFINE new == Append(rpls, g)
<1>1. /\ Len(rpls) \in Nat /\ Len(new) = Len(rpls) + 1 /\ new[Len(rpls) + 1] = g
      /\ \A j \in 1..Len(rpls) : new[j] = rpls[j]
  BY Appended
<1>2. \A j \in 1..Len(new) : j \in 1..Len(rpls) \/ j = Len(rpls) + 1
  BY <1>1
<1> HIDE DEF new
<1>3. SeedOf(g, n) => Holds(c) /\ SeedOf(c.reply, n)
  BY DEF SeedOf
<1>4. Confirmed(n, new, c, s) => Confirmed(n, rpls, c, s)
  BY <1>1, <1>2, <1>3 DEF Confirmed
<1>5. ASSUME Proving(n, cmds, rpls, c, s) PROVE Proving(n, cmds, new, c, s)
  <2>1. ASSUME InWith(s, n)
        PROVE  g.scs # "SCS_REPLY" /\ (SeedOf(g, n) => g.data = s.last_outbound_mac)
    BY <1>5, <2>1 DEF Proving, SeedOf
  <2>2. ASSUME InWith(s, n), NEW i \in 1..Len(new), SeedOf(new[i], n)
        PROVE  /\ new[i].data = s.last_outbound_mac
               /\ \A k \in 1..Len(new) : k > i => new[k].scs # "SCS_REPLY"
    <3>1. CASE i = Len(rpls) + 1
      BY <3>1, <2>1, <2>2, <1>1
    <3>2. CASE i \in 1..Len(rpls)
      <4>1. /\ new[i].data = s.last_outbound_mac
            /\ \A k \in 1..Len(rpls) : k > i => new[k].scs # "SCS_REPLY"
        BY <3>2, <2>2, <1>1, <1>5 DEF Proving
      <4> QED
        BY <4>1, <2>1, <2>2, <1>1, <1>2
    <3> QED
      BY <3>1, <3>2, <1>2
  <2>3. /\ \A i, j \in 1..Len(cmds) : i < j /\ ProofOf(cmds[i], n) => cmds[j].scs = "NONE"
        /\ Confirmed(n, new, c, s) => AllClear(cmds)
        /\ InWith(s, n) => (Holds(c) => /\ c.reply.scs # "SCS_REPLY"
                                        /\ SeedOf(c.reply, n) => c.reply.data = s.last_outbound_mac)
    BY <1>4, <1>5 DEF Proving
  <2> QED
    BY <2>2, <2>3 DEF Proving
<1> QED
  BY <1>4, <1>5 DEF Handshaking, Unproved, new

\* The PD forgets: the cache, the session, or both.  d is what it caches next,
\* and t its session then.
LEMMA HandshakingForgets ==
    ASSUME NEW n, NEW phase, NEW cmds, NEW rpls, NEW c, NEW s, NEW d, NEW t,
           Holds(d) => ~Seeds(d.reply) /\ d.reply.scs # "SCS_REPLY",
           t.established => /\ s.established /\ t.keys = s.keys
                            /\ t.last_outbound_mac = s.last_outbound_mac,
           Handshaking(n, phase, cmds, rpls, c, s)
    PROVE  Handshaking(n, phase, cmds, rpls, d, t)
<1>1. ~(Holds(d) /\ SeedOf(d.reply, n))
  BY DEF SeedOf
<1>2. InWith(t, n) => InWith(s, n) /\ t.last_outbound_mac = s.last_outbound_mac
  BY DEF InWith
<1>3. Confirmed(n, rpls, d, t) => Confirmed(n, rpls, c, s)
  BY <1>1, <1>2 DEF Confirmed
<1>4. Proving(n, cmds, rpls, c, s) => Proving(n, cmds, rpls, d, t)
  BY <1>1, <1>2, <1>3 DEF Proving
<1> QED
  BY <1>3, <1>4 DEF Handshaking, Unproved

\* The PD takes the server cryptogram f at the head of the line.
LEMMA HandshakingSeeds ==
    ASSUME KeysInv, HandshakeInv, toPd # <<>>, toPd' = Tail(toPd), PdSeeded(Head(toPd)),
           UNCHANGED <<nonces, sc_phase>>
    PROVE  HandshakeInv'
<1> DEFINE f == Head(toPd)
<1>0. IsSeq(toPd) /\ IsSeq(toAcu) /\ \A j \in 1..Len(toPd) : IsFrame(toPd[j])
  BY DEF KeysInv, LineInv
<1>1. /\ f = toPd[1] /\ 1 \in 1..Len(toPd) /\ Len(toPd) \in Nat
      /\ \A j \in 1..Len(toPd') : j + 1 \in 1..Len(toPd) /\ 1 < j + 1 /\ toPd'[j] = toPd[j + 1]
  BY <1>0, Taken
<1>2. PICK g : /\ g.scs = "SCS_14" /\ g.data = pd_session'.last_outbound_mac
               /\ RmacKeys(g.data) = pd_session.keys
               /\ toAcu' = Append(toAcu, g) /\ cache' = [cmd |-> f, reply |-> g]
  BY DEF PdSeeded
<1>3. /\ f.scs = "SCS_13" /\ ProofKeys(f.data) = pd_session.keys
      /\ pd_session'.established /\ pd_session'.keys = pd_session.keys
  BY DEF PdSeeded
<1>4. /\ Len(toAcu) \in Nat /\ Len(toAcu') = Len(toAcu) + 1 /\ toAcu'[Len(toAcu) + 1] = g
      /\ \A j \in 1..Len(toAcu) : toAcu'[j] = toAcu[j]
  BY <1>0, <1>2, Appended
<1>5. \A j \in 1..Len(toAcu') : j \in 1..Len(toAcu) \/ j = Len(toAcu) + 1
  BY <1>4
<1>6. cache'.reply = g
  BY <1>2
<1> HIDE DEF f
<1>7. /\ \A j \in 1..Len(toPd') : CmdFits(toPd'[j], nonces)
      /\ sc_phase = "ESTABLISHED" => \A j \in 1..Len(toPd') : Operational(toPd'[j])
  BY <1>1 DEF HandshakeInv, Handshaking
<1>8. CASE Nonce(pd_session.keys) = nonces
  <2>1. ProofOf(f, nonces) /\ ~AllClear(toPd)
    BY <1>1, <1>3, <1>8 DEF ProofOf, AllClear
  <2>2. sc_phase # "AWAITING_CCRYPT"
    BY <2>1, <1>1 DEF HandshakeInv, Handshaking, Unproved
  <2>3. ASSUME sc_phase = "AWAITING_RMAC_I"
        PROVE  Proving(nonces, toPd', toAcu', cache', pd_session')
    <3>1. Proving(nonces, toPd, toAcu, cache, pd_session)
      BY <2>3 DEF HandshakeInv, Handshaking
    <3>2. ~Confirmed(nonces, toAcu, cache, pd_session)
      BY <3>1, <2>1 DEF Proving
    <3>3. AllClear(toPd')
      BY <3>1, <2>1, <1>1 DEF Proving, AllClear
    <3>4. \A i \in 1..Len(toAcu) : ~SeedOf(toAcu[i], nonces)
      BY <3>2 DEF Confirmed
    <3>5. \A i \in 1..Len(toAcu') : SeedOf(toAcu'[i], nonces) =>
              toAcu'[i] = g /\ \A k \in 1..Len(toAcu') : ~(k > i)
      BY <3>4, <1>4, <1>5
    <3> QED
      BY <3>3, <3>5, <1>2, <1>6 DEF Proving, AllClear
  <2> QED
    BY <2>2, <2>3, <1>7 DEF HandshakeInv, Handshaking
<1>9. CASE Nonce(pd_session.keys) # nonces
  <2>1. ~SeedOf(g, nonces) /\ ~InWith(pd_session', nonces)
    BY <1>2, <1>3, <1>9 DEF SeedOf, InWith
  <2>2. Confirmed(nonces, toAcu', cache', pd_session') => Confirmed(nonces, toAcu, cache, pd_session)
    BY <2>1, <1>4, <1>5, <1>6 DEF Confirmed
  <2>3. sc_phase = "AWAITING_CCRYPT" => Unproved(nonces, toPd', toAcu', cache', pd_session')
    BY <2>2, <1>1 DEF HandshakeInv, Handshaking, Unproved
  <2>4. ASSUME sc_phase = "AWAITING_RMAC_I"
        PROVE  Proving(nonces, toPd', toAcu', cache', pd_session')
    <3>1. Proving(nonces, toPd, toAcu, cache, pd_session)
      BY <2>4 DEF HandshakeInv, Handshaking
    <3>2. ASSUME NEW i \in 1..Len(toPd'), NEW j \in 1..Len(toPd'), i < j, ProofOf(toPd'[i], nonces)
          PROVE  toPd'[j].scs = "NONE"
      <4>1. i + 1 < j + 1 /\ i + 1 \in 1..Len(toPd) /\ j + 1 \in 1..Len(toPd)
        BY <3>2, <1>1
      <4> QED
        BY <4>1, <3>1, <3>2, <1>1 DEF Proving
    <3>3. Confirmed(nonces, toAcu', cache', pd_session') => AllClear(toPd')
      BY <2>2, <3>1, <1>1 DEF Proving, AllClear
    <3> QED
      BY <2>1, <3>2, <3>3 DEF Proving
  <2> QED
    BY <2>3, <2>4, <1>7 DEF HandshakeInv, Handshaking
<1> QED
  BY <1>8, <1>9

\* The PD answers the command f at the head of the line out of its session:
\* that session is not the one the slot is waiting to enter.
LEMMA HandshakingUnwraps ==
    ASSUME KeysInv, HandshakeInv, toPd # <<>>, toPd' = Tail(toPd), PdUnwrapped(Head(toPd)),
           UNCHANGED <<nonces, sc_phase>>
    PROVE  HandshakeInv'
<1> DEFINE f == Head(toPd)
<1>0. IsSeq(toPd) /\ IsSeq(toAcu) /\ \A j \in 1..Len(toPd) : IsFrame(toPd[j])
  BY DEF KeysInv, LineInv
<1>1. /\ f = toPd[1] /\ 1 \in 1..Len(toPd) /\ Len(toPd) \in Nat
      /\ \A j \in 1..Len(toPd') : j + 1 \in 1..Len(toPd) /\ toPd'[j] = toPd[j + 1]
  BY <1>0, Taken
<1>2. PICK g : /\ g.scs = "SCS_REPLY"
               /\ toAcu' = Append(toAcu, g) /\ cache' = [cmd |-> f, reply |-> g]
  BY DEF PdUnwrapped
<1>3. /\ f.scs = "SCS_CMD" /\ pd_session.established
      /\ pd_session'.established /\ pd_session'.keys = pd_session.keys
  BY DEF PdUnwrapped
<1>4. /\ Len(toAcu) \in Nat /\ Len(toAcu') = Len(toAcu) + 1 /\ toAcu'[Len(toAcu) + 1] = g
      /\ \A j \in 1..Len(toAcu) : toAcu'[j] = toAcu[j]
  BY <1>0, <1>2, Appended
<1>5. \A j \in 1..Len(toAcu') : j \in 1..Len(toAcu) \/ j = Len(toAcu) + 1
  BY <1>4
<1>6. cache'.reply = g
  BY <1>2
<1> HIDE DEF f
<1>7. /\ \A j \in 1..Len(toPd') : CmdFits(toPd'[j], nonces)
      /\ sc_phase = "ESTABLISHED" => \A j \in 1..Len(toPd') : Operational(toPd'[j])
  BY <1>1 DEF HandshakeInv, Handshaking
<1>8. ~SeedOf(g, nonces) /\ ~AllClear(toPd) /\ (InWith(pd_session', nonces) => InWith(pd_session, nonces))
  BY <1>1, <1>2, <1>3 DEF SeedOf, Seeds, AllClear, InWith
<1>9. Confirmed(nonces, toAcu', cache', pd_session') => Confirmed(nonces, toAcu, cache, pd_session)
  BY <1>4, <1>5, <1>6, <1>8 DEF Confirmed
<1>10. sc_phase = "AWAITING_CCRYPT" => Unproved(nonces, toPd', toAcu', cache', pd_session')
  BY <1>1, <1>9 DEF HandshakeInv, Handshaking, Unproved
<1>11. ASSUME sc_phase = "AWAITING_RMAC_I"
       PROVE  Proving(nonces, toPd', toAcu', cache', pd_session')
  <2>1. Proving(nonces, toPd, toAcu, cache, pd_session)
    BY <1>11 DEF HandshakeInv, Handshaking
  <2>2. ~Confirmed(nonces, toAcu, cache, pd_session)
    BY <2>1, <1>8 DEF Proving
  <2>3. ~InWith(pd_session', nonces)
    BY <2>2, <1>8 DEF Confirmed
  <2>4. ASSUME NEW i \in 1..Len(toPd'), NEW j \in 1..Len(toPd'), i < j, ProofOf(toPd'[i], nonces)
        PROVE  toPd'[j].scs = "NONE"
    <3>1. i + 1 < j + 1 /\ i + 1 \in 1..Len(toPd) /\ j + 1 \in 1..Len(toPd)
      BY <2>4, <1>1
    <3> QED
      BY <3>1, <2>1, <2>4, <1>1 DEF Proving
  <2> QED
    BY <2>2, <2>3, <2>4, <1>9 DEF Proving
<1> QED
  BY <1>7, <1>10, <1>11 DEF HandshakeInv, Handshaking

-----------------------------------------------------------------------------
(* What a step of the slot means for the handshake.                        *)

StaysInPhase ==
    /\ sc_phase' = sc_phase /\ nonces' = nonces
    /\ \/ toPd' = toPd
       \/ \E f : /\ toPd' = Append(toPd, f) /\ f.code # "COMSET"
                 /\ f.scs = IF sc_phase = "ESTABLISHED" THEN "SCS_CMD" ELSE "NONE"

StartsOver ==
    /\ sc_phase' = "AWAITING_CCRYPT" /\ nonces' = nonces + 1
    /\ \E f : toPd' = Append(toPd, f) /\ f.scs = "SCS_11" /\ f.code # "COMSET"

SendsProof ==
    /\ sc_phase = "AWAITING_CCRYPT" /\ sc_phase' = "AWAITING_RMAC_I" /\ nonces' = nonces
    /\ \E f : /\ toPd' = Append(toPd, f) /\ f.scs = "SCS_13" /\ f.code # "COMSET"
              /\ Nonce(ProofKeys(f.data)) = sc_rnd_a

\* The slot enters the session at the head of its chain, with nothing under way.
EntersSession ==
    /\ sc_phase = "AWAITING_RMAC_I" /\ sc_phase' = "ESTABLISHED" /\ nonces' = nonces
    /\ toPd' = toPd /\ toAcu # <<>> /\ toAcu' = Tail(toAcu)
    /\ Seeds(Head(toAcu)) /\ RmacKeys(Head(toAcu).data) = sc_session.keys
    /\ sc_session'.keys = sc_session.keys
    /\ sc_session'.last_inbound_mac = Head(toAcu).data /\ Head(toAcu).data[1] = "rmac"
    /\ waiting' = FALSE /\ timed_out' = FALSE /\ next_seq' # 0
    /\ reply_age' = 0

LeavesSession == sc_phase' = "IDLE" /\ nonces' = nonces /\ toPd' = toPd

SlotShakes ==
    /\ SlotTakes
    /\ StaysInPhase \/ StartsOver \/ SendsProof \/ EntersSession \/ LeavesSession

LEMMA SendShakes ==
    ASSUME NEW c, c.code # "COMSET", SendCommand(c, TRUE)
    PROVE  SlotShakes
<1> DEFINE secure == sc_phase = "ESTABLISHED"
           plain  == Frame(address, next_seq, IF secure THEN "SCS_CMD" ELSE "NONE",
                           0, c.code, c.data, 0)
           f      == IF secure THEN Wrap(sc_session, plain) ELSE plain
           retry  == timed_out /\ f = Bytes(tx)
           i      == IF retry THEN tx.id ELSE ids + 1
           g      == [f EXCEPT !.id = i]
<1>1. /\ IsFrame(plain) /\ plain.scs = (IF secure THEN "SCS_CMD" ELSE "NONE")
      /\ plain.code = c.code
  BY DEF Frame, IsFrame
<1>2. /\ toPd' = Append(toPd, g) /\ toAcu' = toAcu /\ sc_phase' = sc_phase /\ nonces' = nonces
  BY DEF SendCommand, Transmitted
<1> HIDE DEF plain
<1>3. IsFrame(f) /\ f.scs = plain.scs /\ f.code = plain.code
  <2>1. CASE secure
    <3> DEFINE mac == ComputeMac(sc_session.keys, sc_session.last_inbound_mac, plain)
    <3>1. f = [plain EXCEPT !.mac = mac]
      BY <2>1 DEF Wrap
    <3> HIDE DEF mac, f
    <3> QED
      BY <1>1, <3>1 DEF IsFrame
  <2>2. CASE ~secure
    BY <1>1, <2>2
  <2> QED
    BY <2>1, <2>2
<1> HIDE DEF f, i
<1>4. g.scs = f.scs /\ g.code = f.code
  BY <1>3 DEF IsFrame
<1> HIDE DEF g
<1>5. StaysInPhase
  BY <1>1, <1>2, <1>3, <1>4 DEF StaysInPhase
<1> QED
  BY <1>2, <1>5 DEF SlotShakes, SlotTakes

LEMMA ReceiveShakes ==
    ASSUME TypeOK, AcuReceive(TRUE)
    PROVE  SlotShakes
<1> DEFINE f == Head(toAcu)
<1>0. toAcu # <<>> /\ toAcu' = Tail(toAcu) /\ nonces' = nonces
  BY DEF AcuReceive, countVars
<1>1. \/ Ignored \/ ProcessReply(f) \/ HandleScReply(f)
      \/ sc_phase = "AWAITING_CCRYPT" /\ HandleCcrypt(f, TRUE)
      \/ sc_phase = "AWAITING_RMAC_I" /\ f.scs = "SCS_14" /\ HandleRmacI(f)
  BY Zenon DEF AcuReceive
<1>2. CASE UNCHANGED <<toPd, sc_phase>>
  BY <1>0, <1>2 DEF SlotShakes, SlotTakes, StaysInPhase
<1>3. CASE toPd' = toPd /\ sc_phase' = "IDLE"
  BY <1>0, <1>3 DEF SlotShakes, SlotTakes, LeavesSession
<1>4. CASE Ignored \/ ProcessReply(f) \/ HandleScReply(f)
  <2>1. UNCHANGED <<toPd, sc_phase>> \/ (toPd' = toPd /\ sc_phase' = "IDLE")
    BY <1>4 DEF Ignored, ProcessReply, HandleScReply, SessionEnds, TerminateSc, ResetScHandshake, scVars
  <2> QED
    BY <2>1, <1>2, <1>3
<1>5. CASE sc_phase = "AWAITING_CCRYPT" /\ HandleCcrypt(f, TRUE)
  <2> DEFINE keys   == DeriveSessionKeys(HandshakeKey(sc_key_selector), sc_rnd_a)
             scrypt == Frame(address, AdvanceSqn(pending_seq), "SCS_13", sc_key_selector,
                             "SCRYPT", ServerCryptogram(keys, sc_rnd_a, f.data[1]), 0)
  <2>1. \/ Ignored \/ HandshakeFails
        \/ toPd' = Append(toPd, scrypt) /\ sc_phase' = "AWAITING_RMAC_I"
    BY <1>5 DEF HandleCcrypt, Transmitted
  <2>2. CASE Ignored \/ HandshakeFails
    BY <2>2, <1>2, <1>3 DEF Ignored, HandshakeFails, ResetScHandshake, scVars
  <2>3. CASE toPd' = Append(toPd, scrypt) /\ sc_phase' = "AWAITING_RMAC_I"
    <3>1. /\ scrypt.scs = "SCS_13" /\ scrypt.code = "SCRYPT"
          /\ scrypt.data = ServerCryptogram(keys, sc_rnd_a, f.data[1])
      BY DEF Frame
    <3> HIDE DEF scrypt
    <3>2. Nonce(ProofKeys(scrypt.data)) = sc_rnd_a
      BY <3>1, ChainTerms, Terms
    <3>3. SendsProof
      BY <1>0, <1>5, <2>3, <3>1, <3>2 DEF SendsProof
    <3> QED
      BY <1>0, <3>3 DEF SlotShakes, SlotTakes
  <2> QED
    BY <2>1, <2>2, <2>3
<1>6. CASE sc_phase = "AWAITING_RMAC_I" /\ f.scs = "SCS_14" /\ HandleRmacI(f)
  <2> DEFINE keys == sc_session.keys
             rmac == InitialRmac(keys, ServerCryptogram(keys, sc_rnd_a, sc_rnd_b))
  <2>1. \/ Ignored \/ HandshakeFails
        \/ /\ f.scb = 1 /\ f.data = rmac /\ sc_session' = SessionSeeded(keys, rmac)
           /\ sc_phase' = "ESTABLISHED" /\ toPd' = toPd /\ waiting' = FALSE /\ timed_out' = FALSE
           /\ next_seq' = AdvanceSqn(pending_seq) /\ reply_age' = 0
    BY <1>6 DEF HandleRmacI
  <2>2. CASE Ignored \/ HandshakeFails
    BY <2>2, <1>2, <1>3 DEF Ignored, HandshakeFails, ResetScHandshake, scVars
  <2>3. CASE /\ f.scb = 1 /\ f.data = rmac /\ sc_session' = SessionSeeded(keys, rmac)
             /\ sc_phase' = "ESTABLISHED" /\ toPd' = toPd /\ waiting' = FALSE /\ timed_out' = FALSE
             /\ next_seq' = AdvanceSqn(pending_seq) /\ reply_age' = 0
    <3>1. sc_session'.keys = keys /\ sc_session'.last_inbound_mac = rmac
      BY <2>3 DEF SessionSeeded
    <3>2. RmacKeys(rmac) = keys /\ rmac[1] = "rmac"
      BY Terms, ChainTerms
    <3>3. next_seq' # 0
      BY <2>3, NextNumber DEF TypeOK, SlotTypeOK
    <3> HIDE DEF rmac
    <3>4. EntersSession
      BY <1>0, <1>6, <2>3, <3>1, <3>2, <3>3 DEF EntersSession, Seeds
    <3> QED
      BY <1>0, <3>4 DEF SlotShakes, SlotTakes
  <2> QED
    BY <2>1, <2>2, <2>3
<1> QED
  BY <1>1, <1>4, <1>5, <1>6

LEMMA SlotAlwaysShakes ==
    ASSUME Steadfast, TypeOK, AcuNext
    PROVE  SlotShakes
<1>0. WriteOutcomes = {TRUE}
  BY DEF WriteOutcomes, Steadfast
<1>1. CASE \E c \in Cmds, wr \in WriteOutcomes : SendCommand(c, wr)
  BY <1>0, <1>1, SendShakes DEF Steadfast
<1>2. CASE \E sel \in Selectors, wr \in WriteOutcomes : StartScHandshake(sel, wr)
  <2> PICK sel \in Selectors : StartScHandshake(sel, TRUE)
    BY <1>0, <1>2
  <2> DEFINE f == Frame(address, next_seq, "SCS_11", sel, "CHLNG", <<nonces + 1>>, 0)
  <2>1. /\ toPd' = Append(toPd, f) /\ toAcu' = toAcu /\ nonces' = nonces + 1
        /\ sc_phase' = "AWAITING_CCRYPT"
    BY DEF StartScHandshake, Transmitted, PhaseAfterChlng
  <2>2. f.scs = "SCS_11" /\ f.code = "CHLNG"
    BY DEF Frame
  <2> HIDE DEF f
  <2>3. StartsOver
    BY <2>1, <2>2 DEF StartsOver
  <2> QED
    BY <2>1, <2>3 DEF SlotShakes, SlotTakes
<1>3. CASE \E a \in Addresses : RegisterPd(a)
  BY <1>3 DEF RegisterPd, countVars, wireVars, SlotShakes, SlotTakes, LeavesSession
<1>4. CASE (\E k \in Keys : SetPdScbk(k)) \/ SetPdScbkD \/ ReplyTimesOut
  <2>1. UNCHANGED <<nonces, toPd, toAcu, sc_phase>>
    BY <1>4 DEF SetPdScbk, SetPdScbkD, ReplyTimesOut, countVars, wireVars, scVars
  <2> QED
    BY <2>1 DEF SlotShakes, SlotTakes, StaysInPhase
<1>5. CASE GoOffline
  <2>1. sc_phase' = "IDLE" \/ sc_phase' = sc_phase
    BY <1>5 DEF GoOffline, TerminateSc, ResetScHandshake, scVars
  <2>2. UNCHANGED <<nonces, toPd, toAcu>>
    BY <1>5 DEF GoOffline, countVars, wireVars
  <2> QED
    BY <2>1, <2>2 DEF SlotShakes, SlotTakes, StaysInPhase, LeavesSession
<1>6. CASE \E wr \in WriteOutcomes : AcuReceive(wr)
  BY <1>0, <1>6, ReceiveShakes
<1> QED
  BY <1>1, <1>2, <1>3, <1>4, <1>5, <1>6 DEF AcuNext

LEMMA SlotKeepsHandshake ==
    ASSUME KeysInv, HandshakeInv, SlotShakes, UNCHANGED <<cache, pd_session>>
    PROVE  HandshakeInv'
<1>0. /\ IsSeq(toPd) /\ IsSeq(toAcu) /\ nonces \in Nat
      /\ \A j \in 1..Len(toPd) : IsFrame(toPd[j])
      /\ \A j \in 1..Len(toAcu) : IsFrame(toAcu[j])
  BY DEF KeysInv, LineInv, SlotKeysInv
<1>1. Handshaking(nonces, sc_phase, toPd, toAcu', cache, pd_session)
  <2>1. Follows(toPd, toPd) /\ Follows(toAcu', toAcu)
    BY <1>0, FollowsCases DEF SlotShakes, SlotTakes
  <2>2. Len(toPd) \in Nat /\ Len(toAcu) \in Nat /\ Len(toAcu') \in Nat
    BY <1>0, Taken DEF IsSeq, SlotShakes, SlotTakes
  <2> QED
    BY <2>1, <2>2, HandshakingFollows DEF HandshakeInv
<1>2. CASE StaysInPhase
  BY <1>0, <1>1, <1>2, HandshakingSends DEF StaysInPhase, HandshakeInv
<1>3. CASE StartsOver
  <2> PICK f : toPd' = Append(toPd, f) /\ f.scs = "SCS_11" /\ f.code # "COMSET"
    BY <1>3 DEF StartsOver
  <2>1. Handshaking(nonces + 1, "AWAITING_CCRYPT", toPd', toAcu, cache, pd_session)
    BY HandshakingAsks
  <2>2. Follows(toPd', toPd') /\ Follows(toAcu', toAcu)
    <3>1. IsSeq(toPd') /\ Len(toPd') \in Nat
      BY <1>0, Appended
    <3>2. Follows(toPd', toPd')
      <4>1. \A j \in 1..Len(toPd') : j + 0 \in 1..Len(toPd') /\ SameButBad(toPd'[j], toPd'[j + 0])
        BY <3>1 DEF SameButBad
      <4> QED
        BY <4>1 DEF Follows
    <3> QED
      BY <3>2, <1>0, FollowsCases DEF SlotShakes, SlotTakes
  <2>3. Len(toPd') \in Nat /\ Len(toAcu) \in Nat /\ Len(toAcu') \in Nat
    BY <1>0, Appended, Taken DEF IsSeq, SlotShakes, SlotTakes
  <2>4. Handshaking(nonces + 1, "AWAITING_CCRYPT", toPd', toAcu', cache, pd_session)
    BY <2>1, <2>2, <2>3, HandshakingFollows
  <2> QED
    BY <1>3, <2>4 DEF StartsOver, HandshakeInv
<1>4. CASE SendsProof
  <2>1. sc_rnd_a = nonces
    BY <1>4 DEF SendsProof, KeysInv, SlotKeysInv
  <2> QED
    BY <1>0, <1>1, <1>4, <2>1, HandshakingProves DEF SendsProof, HandshakeInv
<1>5. CASE EntersSession
  <2>1. SeedOf(Head(toAcu), nonces)
    BY <1>5 DEF EntersSession, SeedOf, KeysInv, SlotKeysInv
  <2>2. toAcu # <<>> /\ Head(toAcu) = toAcu[1] /\ 1 \in 1..Len(toAcu)
    BY <1>0, <1>5, Taken DEF EntersSession
  <2>3. Confirmed(nonces, toAcu, cache, pd_session)
    BY <2>1, <2>2 DEF Confirmed
  <2>4. AllClear(toPd)
    BY <2>3, <1>5 DEF EntersSession, HandshakeInv, Handshaking, Proving
  <2> QED
    BY <2>4, <1>5 DEF EntersSession, HandshakeInv, Handshaking, AllClear, Operational
<1>6. CASE LeavesSession
  BY <1>6 DEF LeavesSession, HandshakeInv, Handshaking
<1> QED
  BY <1>2, <1>3, <1>4, <1>5, <1>6 DEF SlotShakes

LEMMA PdKeepsHandshake ==
    ASSUME Steadfast, KeysInv, HandshakeInv, PdNext, UNCHANGED <<nonces, sc_phase>>
    PROVE  HandshakeInv'
<1>0. /\ IsSeq(toPd) /\ IsSeq(toAcu) /\ WriteOutcomes = {TRUE} /\ PdTypeOK
      /\ \A j \in 1..Len(toPd) : IsFrame(toPd[j])
      /\ \A j \in 1..Len(toAcu) : IsFrame(toAcu[j])
  BY DEF KeysInv, LineInv, TypeOK, WriteOutcomes, Steadfast
<1>1. ASSUME toPd # <<>>
      PROVE  Handshaking(nonces, sc_phase, Tail(toPd), toAcu, cache, pd_session)
  <2>1. Follows(Tail(toPd), toPd) /\ Follows(toAcu, toAcu)
    BY <1>0, <1>1, FollowsCases
  <2>2. Len(toPd) \in Nat /\ Len(toAcu) \in Nat /\ Len(Tail(toPd)) \in Nat
    BY <1>0, <1>1, Taken DEF IsSeq
  <2> QED
    BY <2>1, <2>2, HandshakingFollows DEF HandshakeInv
<1>2. CASE \E v \in Verdicts, fits \in ReplyFits, wr \in WriteOutcomes : PdFresh(v, fits, wr)
  <2>1. PICK v \in Verdicts : PdFresh(v, TRUE, TRUE)
    BY <1>0, <1>2 DEF Steadfast
  <2>2. toPd # <<>> /\ toPd' = Tail(toPd)
    BY <2>1 DEF PdFresh, PdTakes
  <2>3. Head(toPd).code # "COMSET"
    BY <2>2, <1>0, Taken DEF HandshakeInv, Handshaking, CmdFits
  <2>4. CASE PdSeeded(Head(toPd))
    BY <2>2, <2>4, HandshakingSeeds
  <2>5. CASE PdUnwrapped(Head(toPd))
    BY <2>2, <2>5, HandshakingUnwraps
  <2>6. CASE PdUnmoved(Head(toPd))
    <3> PICK reply : /\ Replied(Head(toPd), reply)
                     /\ reply # NoReply => reply.scs # "SCS_REPLY" /\ ~Seeds(reply)
      BY <2>6 DEF PdUnmoved
    <3>1. Handshaking(nonces, sc_phase, toPd', toAcu, cache', pd_session')
      <4>1. Holds(cache') => ~Seeds(cache'.reply) /\ cache'.reply.scs # "SCS_REPLY"
        BY DEF Replied, Holds
      <4>2. pd_session'.established =>
                /\ pd_session.established /\ pd_session'.keys = pd_session.keys
                /\ pd_session'.last_outbound_mac = pd_session.last_outbound_mac
        BY <2>6 DEF PdUnmoved
      <4> QED
        BY <4>1, <4>2, <2>2, <1>1, HandshakingForgets
    <3>2. CASE toAcu' = toAcu
      BY <3>1, <3>2 DEF HandshakeInv
    <3>3. CASE reply # NoReply /\ toAcu' = Append(toAcu, reply)
      BY <3>1, <3>3, <1>0, HandshakingAnswers DEF HandshakeInv
    <3> QED
      BY <3>2, <3>3 DEF Replied
  <2> QED
    BY <2>1, <2>3, <2>4, <2>5, <2>6, <1>0, PdFreshOutcome
<1>3. CASE PdBadCheck(TRUE) \/ PdNotOurs \/ PdRetransmit(TRUE)
  <2> DEFINE nak == BuildNak(Head(toPd), NakBadCheck)
  <2>1. /\ toPd # <<>> /\ toPd' = Tail(toPd) /\ UNCHANGED <<cache, pd_session>>
        /\ \/ toAcu' = toAcu
           \/ toAcu' = Append(toAcu, nak)
           \/ Holds(cache) /\ toAcu' = Append(toAcu, cache.reply)
    BY <1>3, AnswerSent DEF Holds
  <2>2. nak.scs = "NONE" /\ ~Seeds(nak)
    BY PlainReplies DEF Seeds
  <2> HIDE DEF nak
  <2>3. CASE toAcu' = toAcu
    BY <2>1, <2>3, <1>1 DEF HandshakeInv
  <2>4. CASE toAcu' = Append(toAcu, nak)
    BY <2>1, <2>2, <2>4, <1>0, <1>1, HandshakingAnswers DEF HandshakeInv
  <2>5. CASE Holds(cache) /\ toAcu' = Append(toAcu, cache.reply)
    BY <2>1, <2>5, <1>0, <1>1, HandshakingAnswers DEF HandshakeInv
  <2> QED
    BY <2>1, <2>3, <2>4, <2>5
<1>4. CASE PdGoOffline \/ PdRestart
  <2>1. /\ cache' = NoCache /\ UNCHANGED <<toPd, toAcu>>
        /\ pd_session' = pd_session \/ pd_session' = SessionInit
    BY <1>4 DEF PdGoOffline, PdRestart, ForgetCache, wireVars, pdScVars
  <2>2. ~Holds(cache') /\ (pd_session'.established => pd_session' = pd_session)
    BY <2>1 DEF Holds, SessionInit
  <2> QED
    BY <2>1, <2>2, HandshakingForgets DEF HandshakeInv
<1> QED
  BY <1>0, <1>2, <1>3, <1>4 DEF PdNext

LEMMA HandshakeStep ==
    ASSUME Steadfast, KeysInv, HandshakeInv, [Next]_vars
    PROVE  HandshakeInv'
<1>0. /\ TypeOK /\ IsSeq(toPd) /\ IsSeq(toAcu) /\ LineInv
      /\ \A j \in 1..Len(toPd) : IsFrame(toPd[j])
      /\ \A j \in 1..Len(toAcu) : IsFrame(toAcu[j])
  BY DEF KeysInv, LineInv
<1>1. CASE AcuNext /\ UNCHANGED pdVars
  <2>1. UNCHANGED <<cache, pd_session>>
    BY <1>1 DEF pdVars, pdScVars
  <2> QED
    BY <2>1, <1>0, <1>1, SlotAlwaysShakes, SlotKeepsHandshake
<1>2. CASE PdNext /\ UNCHANGED acuVars
  <2>1. UNCHANGED <<nonces, sc_phase>>
    BY <1>2 DEF acuVars, scVars, countVars
  <2> QED
    BY <2>1, <1>2, PdKeepsHandshake
<1>3. CASE WireNext /\ UNCHANGED <<acuVars, pdVars>>
  <2>1. UNCHANGED <<nonces, sc_phase, cache, pd_session, got_chlng, sc_rnd_a, sc_session>>
    BY <1>3 DEF acuVars, scVars, countVars, pdVars, pdScVars
  <2>2. Follows(toPd', toPd) /\ Follows(toAcu', toAcu)
    BY <1>0, <1>3, WireFollows
  <2>3. Len(toPd) \in Nat /\ Len(toAcu) \in Nat /\ Len(toPd') \in Nat /\ Len(toAcu') \in Nat
    <3>1. \A s : IsSeq(s) => Len(s) \in Nat
      BY DEF IsSeq
    <3>2. LineInv'
      BY <2>1, <1>3, WireKeepsKeys
    <3> QED
      BY <3>1, <3>2, <1>0 DEF LineInv
  <2> QED
    BY <2>1, <2>2, <2>3, HandshakingFollows DEF HandshakeInv
<1>4. CASE Tick \/ UNCHANGED vars
  <2>1. UNCHANGED <<nonces, sc_phase, cache, pd_session, toPd, toAcu>>
    BY <1>4 DEF Tick, vars, acuVars, scVars, countVars, pdVars, pdScVars, wireVars
  <2> QED
    BY <2>1 DEF HandshakeInv
<1> QED
  BY <1>1, <1>2, <1>3, <1>4 DEF Next

-----------------------------------------------------------------------------
(* The slot's end of the chain.                                            *)

\* A command is under way: the slot waits for its reply, or will repeat it.
Busy == waiting \/ timed_out

Inbound  == sc_session.last_inbound_mac     \* the slot's place on the chain
Outbound == pd_session.last_outbound_mac    \* the PD's place on the chain

\* The command under way is what the slot would write again.
Outstanding(t) ==
    /\ t.scs = "SCS_CMD" /\ t.id # 0 /\ t.scb = 0 /\ t.bad = FALSE /\ t.addr = address
    /\ t.sqn = pending_seq /\ pending_seq # 0
    /\ t.mac = ComputeMac(sc_session.keys, Inbound, t)

\* The chain has not yet reached the sequence number of the command under way,
\* or of the next one.
NotReached(mac, q) == mac[1] = "rmac" \/ MacSqn(mac) # q

SlotChain ==
    /\ next_seq # 0
    /\ Busy => Outstanding(tx) /\ NotReached(Inbound, pending_seq)
    /\ ~Busy => NotReached(Inbound, next_seq)
    /\ timed_out => ~waiting /\ next_seq = pending_seq

SlotChainInv == sc_phase = "ESTABLISHED" => SlotChain

\* What a step of the slot does in a session it stays in.
SessSends(f) ==
    /\ ~waiting /\ toPd' = Append(toPd, f) /\ toAcu' = toAcu /\ tx' = f
    /\ waiting' = TRUE /\ timed_out' = FALSE
    /\ pending_seq' = next_seq /\ next_seq' = next_seq /\ Inbound' = Inbound
    /\ IsFrame(f) /\ f.scs = "SCS_CMD" /\ f.id # 0 /\ f.scb = 0 /\ f.bad = FALSE
    /\ f.addr = address /\ f.sqn = next_seq
    /\ f.mac = ComputeMac(sc_session.keys, Inbound, f)
    /\ timed_out => SameButBad(f, tx)
    /\ ~timed_out => f.id = Len(log) + 1
    /\ UNCHANGED <<online, reply_age>>

SessTimesOut ==
    /\ waiting /\ waiting' = FALSE /\ timed_out' = TRUE /\ next_seq' = pending_seq
    /\ pending_seq' = pending_seq /\ Inbound' = Inbound
    /\ UNCHANGED <<toPd, toAcu, tx, online, reply_age>>

SessDelivers ==
    /\ waiting /\ toAcu # <<>> /\ toAcu' = Tail(toAcu) /\ toPd' = toPd /\ tx' = tx
    /\ waiting' = FALSE /\ timed_out' = FALSE
    /\ next_seq' = AdvanceSqn(pending_seq) /\ ~OfflineDue
    /\ Head(toAcu).scs = "SCS_REPLY" /\ Head(toAcu).sqn = pending_seq
    /\ Head(toAcu).mac = ComputeMac(sc_session.keys, tx.mac, Head(toAcu))
    /\ Inbound' = Head(toAcu).mac

SessSkips ==
    /\ SlotTakes /\ Inbound' = Inbound
    /\ UNCHANGED <<toPd, tx, waiting, timed_out, pending_seq, next_seq, online, reply_age>>

SessMoves ==
    /\ sc_session'.keys = sc_session.keys /\ address' = address
    /\ (\E f : SessSends(f)) \/ SessTimesOut \/ SessDelivers \/ SessSkips

LEMMA SessionSends ==
    ASSUME Steadfast, TypeOK, LogInv, SlotChain, sc_phase = "ESTABLISHED",
           NEW c, SendCommand(c, TRUE)
    PROVE  SessMoves
<1> DEFINE plain == Frame(address, next_seq, "SCS_CMD", 0, c.code, c.data, 0)
           mac   == ComputeMac(sc_session.keys, Inbound, plain)
           f     == [plain EXCEPT !.mac = mac]
           retry == timed_out /\ f = Bytes(tx)
           i     == IF retry THEN tx.id ELSE ids + 1
           g     == [f EXCEPT !.id = i]
<1>0. IsFrame(tx) /\ Len(log) \in Nat /\ SessionType(sc_session)
  BY DEF LogInv, TxLogged, IsSeq, TypeOK, SlotTypeOK
<1>1. /\ toPd' = Append(toPd, g) /\ tx' = g /\ toAcu' = toAcu /\ ~waiting /\ waiting' = TRUE
      /\ timed_out' = FALSE /\ pending_seq' = g.sqn /\ next_seq' = next_seq
      /\ sc_session' = [sc_session EXCEPT !.last_outbound_mac = mac]
      /\ UNCHANGED <<online, reply_age, address>>
      /\ ~timed_out \/ (tx.code = c.code /\ tx.data = c.data)
  BY DEF SendCommand, Transmitted, MayTransmit, MayMoveOn, Wrap, AfterWrap, Inbound, onlineVars,
     cfgVars, Steadfast
<1>2. /\ IsFrame(plain) /\ plain.scs = "SCS_CMD" /\ plain.scb = 0 /\ plain.bad = FALSE
      /\ plain.addr = address /\ plain.sqn = next_seq /\ plain.code = c.code
      /\ plain.data = c.data /\ plain.id = 0
  BY DEF Frame, IsFrame
<1> HIDE DEF plain
<1>3. sc_session'.keys = sc_session.keys /\ Inbound' = Inbound
  <2> HIDE DEF mac
  <2> QED
    BY <1>0, <1>1 DEF SessionType, Inbound
<1>4. mac = ComputeMac(sc_session.keys, Inbound, plain)
  OBVIOUS
<1> HIDE DEF mac
<1>5. /\ IsFrame(f) /\ f.scs = "SCS_CMD" /\ f.scb = 0 /\ f.bad = FALSE /\ f.addr = address
      /\ f.sqn = next_seq /\ f.code = c.code /\ f.data = c.data /\ f.id = 0 /\ f.mac = mac
  BY <1>2 DEF IsFrame
<1>6. timed_out => retry
  <2> SUFFICES ASSUME timed_out PROVE f = Bytes(tx)
    OBVIOUS
  <2>1. Outstanding(tx) /\ next_seq = pending_seq
    BY DEF SlotChain, Busy
  <2>2. Signed(plain) = Signed(tx)
    BY <1>0, <1>1, <1>2, <2>1, SignedSame DEF Outstanding
  <2>3. f.mac = tx.mac
    BY <2>1, <2>2, <1>4, <1>5 DEF Outstanding, ComputeMac
  <2>4. f = [f EXCEPT !.id = 0]
    BY <1>2, <1>5 DEF IsFrame
  <2> HIDE DEF f
  <2>5. [f EXCEPT !.id = 0] = [tx EXCEPT !.id = 0]
    BY <1>0, <1>1, <1>5, <2>1, <2>3 DEF Outstanding, IsFrame
  <2> QED
    BY <2>4, <2>5 DEF Bytes
<1>7. i = (IF timed_out THEN tx.id ELSE Len(log) + 1)
  BY <1>6 DEF ids
<1> HIDE DEF f, i
<1>8. /\ IsFrame(g) /\ g.scs = "SCS_CMD" /\ g.scb = 0 /\ g.bad = FALSE /\ g.addr = address
      /\ g.sqn = next_seq /\ g.code = c.code /\ g.data = c.data /\ g.id = i /\ g.mac = mac
  BY <1>5 DEF IsFrame
<1> HIDE DEF g
<1>9. g.mac = ComputeMac(sc_session.keys, Inbound, g)
  <2>1. Signed(g) = Signed(plain)
    BY <1>2, <1>8, SignedSame
  <2> QED
    BY <2>1, <1>4, <1>8 DEF ComputeMac
<1>10. ASSUME timed_out PROVE SameButBad(g, tx) /\ g.id # 0
  <2>1. Outstanding(tx) /\ next_seq = pending_seq
    BY <1>10 DEF SlotChain, Busy
  <2>2. Signed(plain) = Signed(tx)
    BY <1>0, <1>1, <1>2, <1>10, <2>1, SignedSame DEF Outstanding
  <2>3. g.mac = tx.mac
    BY <2>1, <2>2, <1>4, <1>8 DEF Outstanding, ComputeMac
  <2> QED
    BY <2>1, <2>3, <1>1, <1>7, <1>8, <1>10 DEF SameButBad, Outstanding
<1>11. ~timed_out => g.id = Len(log) + 1 /\ g.id # 0
  BY <1>0, <1>7, <1>8
<1>12. SessSends(g)
  BY <1>1, <1>3, <1>8, <1>9, <1>10, <1>11 DEF SessSends
<1> QED
  BY <1>1, <1>3, <1>12 DEF SessMoves

LEMMA SessionReceives ==
    ASSUME TypeOK, LineInv, LogInv, sc_phase = "ESTABLISHED", sc_phase' = "ESTABLISHED",
           AcuReceive(TRUE)
    PROVE  SessMoves
<1> DEFINE f == Head(toAcu)
<1>0. /\ toAcu # <<>> /\ toAcu' = Tail(toAcu) /\ ~OfflineDue /\ address' = address
  BY DEF AcuReceive, cfgVars
<1>1. Ignored \/ ProcessReply(f) \/ (f.scs = "SCS_REPLY" /\ HandleScReply(f))
  BY Zenon DEF AcuReceive
<1>2. ~SessionEnds
  BY DEF SessionEnds, TerminateSc, ResetScHandshake
<1>3. CASE Ignored
  BY <1>0, <1>3 DEF Ignored, seqVars, onlineVars, scVars, SessMoves, SessSkips, SlotTakes, Inbound
<1>4. CASE ProcessReply(f)
  <2>1. Ignored \/ (f.code = "BUSY" /\ f.sqn # 0)
    BY <1>2, <1>4 DEF ProcessReply
  <2>2. f.code = "BUSY" => f.sqn = 0
    <3>1. f = toAcu[1] /\ 1 \in 1..Len(toAcu)
      BY <1>0, Taken DEF LineInv
    <3>2. RplLogged(f, log)
      BY <3>1 DEF LogInv
    <3> QED
      BY <3>2 DEF RplLogged
  <2> QED
    BY <2>1, <2>2, <1>3
<1>5. CASE f.scs = "SCS_REPLY" /\ HandleScReply(f)
  <2>1. \/ Ignored
        \/ /\ waiting /\ f.sqn = pending_seq /\ UnwrapOk(sc_session, f) /\ DeliverReply(f)
           /\ sc_session' = AfterUnwrap(sc_session, f) /\ UNCHANGED <<toPd, tx>>
    BY <1>2, <1>5 DEF HandleScReply
  <2>2. CASE /\ waiting /\ f.sqn = pending_seq /\ UnwrapOk(sc_session, f) /\ DeliverReply(f)
             /\ sc_session' = AfterUnwrap(sc_session, f) /\ UNCHANGED <<toPd, tx>>
    <3>1. waiting' = FALSE /\ timed_out' = FALSE /\ next_seq' = AdvanceSqn(pending_seq)
      BY <2>2 DEF DeliverReply
    <3>2. sc_session'.keys = sc_session.keys /\ Inbound' = f.mac
      BY <2>2 DEF AfterUnwrap, TypeOK, SlotTypeOK, SessionType, Inbound
    <3>3. f.mac = ComputeMac(sc_session.keys, tx.mac, f)
      BY <2>2 DEF UnwrapOk, LogInv, TxLogged
    <3>4. SessDelivers
      BY <1>0, <1>5, <2>2, <3>1, <3>2, <3>3 DEF SessDelivers
    <3> QED
      BY <1>0, <3>2, <3>4 DEF SessMoves
  <2> QED
    BY <2>1, <2>2, <1>3
<1> QED
  BY <1>1, <1>3, <1>4, <1>5

LEMMA SessionMoves ==
    ASSUME Steadfast, TypeOK, LineInv, LogInv, SlotChainInv, AcuNext,
           sc_phase = "ESTABLISHED", sc_phase' = "ESTABLISHED"
    PROVE  SessMoves
<1>0. WriteOutcomes = {TRUE} /\ SlotChain
  BY DEF WriteOutcomes, Steadfast, SlotChainInv
<1>1. CASE \E c \in Cmds, wr \in WriteOutcomes : SendCommand(c, wr)
  BY <1>0, <1>1, SessionSends
<1>2. CASE \E sel \in Selectors, wr \in WriteOutcomes : StartScHandshake(sel, wr)
  BY <1>0, <1>2 DEF StartScHandshake, PhaseAfterChlng
<1>3. CASE (\E k \in Keys : SetPdScbk(k)) \/ SetPdScbkD
  <2>1. UNCHANGED <<toPd, toAcu, tx, seqVars, timed_out, onlineVars, scVars, address>>
    BY <1>3 DEF SetPdScbk, SetPdScbkD, wireVars
  <2> QED
    BY <2>1 DEF seqVars, onlineVars, scVars, SessMoves, SessSkips, SlotTakes, Inbound
<1>4. CASE ReplyTimesOut
  <2>1. /\ waiting /\ waiting' = FALSE /\ timed_out' = TRUE /\ next_seq' = pending_seq
        /\ UNCHANGED <<pending_seq, onlineVars, scVars, address, tx, toPd, toAcu>>
    BY <1>4 DEF ReplyTimesOut, ReplyDue, wireVars, cfgVars
  <2> QED
    BY <2>1 DEF onlineVars, scVars, SessMoves, SessTimesOut, Inbound
<1>5. CASE \E wr \in WriteOutcomes : AcuReceive(wr)
  BY <1>0, <1>5, SessionReceives
<1>6. ~GoOffline /\ ~(\E a \in Addresses : RegisterPd(a))
  BY DEF GoOffline, TerminateSc, ResetScHandshake, RegisterPd
<1> QED
  BY <1>1, <1>2, <1>3, <1>4, <1>5, <1>6 DEF AcuNext

\* The slot's end of the chain is in order.
LEMMA SlotChainKept ==
    ASSUME TypeOK, LineInv, LogInv, SlotChain, SessMoves
    PROVE  SlotChain'
<1>0. IsFrame(tx) /\ pending_seq \in 0..3 /\ IsSeq(toAcu) /\ \A j \in 1..Len(toAcu) : IsFrame(toAcu[j])
  BY DEF LogInv, TxLogged, TypeOK, SlotTypeOK, LineInv
<1>1. ASSUME NEW f, SessSends(f) PROVE SlotChain'
  <2>1. NotReached(Inbound, next_seq)
    BY <1>1 DEF SessSends, SlotChain, Busy
  <2>2. Outstanding(f)'
    BY <1>1 DEF SessSends, SlotChain, Outstanding, SessMoves
  <2> QED
    BY <2>1, <2>2, <1>1 DEF SessSends, SlotChain, Busy
<1>2. CASE SessTimesOut
  <2>1. Outstanding(tx) /\ NotReached(Inbound, pending_seq)
    BY <1>2 DEF SessTimesOut, SlotChain, Busy
  <2>2. Outstanding(tx)'
    BY <2>1, <1>2 DEF SessTimesOut, Outstanding, SessMoves
  <2> QED
    BY <2>1, <2>2, <1>2 DEF SessTimesOut, SlotChain, Busy, Outstanding
<1>3. CASE SessDelivers
  <2> DEFINE g == Head(toAcu)
  <2>1. IsFrame(g)
    BY <1>0, <1>3, Taken DEF SessDelivers
  <2>2. g.sqn = pending_seq /\ Inbound' = ComputeMac(sc_session.keys, tx.mac, g)
    BY <1>3 DEF SessDelivers
  <2>3. MacSqn(Inbound') = pending_seq
    BY <2>1, <2>2, ChainTerms, SignedSqn DEF MacSqn
  <2>4. next_seq' # pending_seq /\ next_seq' # 0
    BY <1>0, <1>3, NextNumber DEF SessDelivers
  <2>5. ~Busy' /\ ~timed_out'
    BY <1>3 DEF SessDelivers, Busy
  <2> QED
    BY <2>3, <2>4, <2>5 DEF SlotChain, NotReached
<1>4. CASE SessSkips
  <2>1. Outstanding(tx) => Outstanding(tx)'
    BY <1>4 DEF SessSkips, Outstanding, SessMoves
  <2> QED
    BY <2>1, <1>4 DEF SessSkips, SlotChain, Busy
<1> QED
  BY <1>1, <1>2, <1>3, <1>4 DEF SessMoves

LEMMA SlotChainStep ==
    ASSUME Steadfast, KeysInv, LogInv, SlotChainInv, [Next]_vars
    PROVE  SlotChainInv'
<1>0. TypeOK /\ LineInv
  BY DEF KeysInv
<1> SUFFICES ASSUME sc_phase' = "ESTABLISHED" PROVE SlotChain'
  BY DEF SlotChainInv
<1>1. CASE AcuNext /\ sc_phase = "ESTABLISHED"
  BY <1>0, <1>1, SessionMoves, SlotChainKept DEF SlotChainInv
<1>2. CASE AcuNext /\ sc_phase # "ESTABLISHED"
  <2>1. EntersSession
    BY <1>0, <1>2, SlotAlwaysShakes DEF SlotShakes, StaysInPhase, StartsOver, SendsProof, LeavesSession
  <2> QED
    BY <2>1 DEF EntersSession, SlotChain, Busy, NotReached, Inbound
<1>3. CASE UNCHANGED acuVars
  BY <1>3 DEF acuVars, scVars, seqVars, cfgVars, SlotChainInv, SlotChain, Busy, Outstanding, Inbound
<1>4. CASE Tick
  BY <1>4 DEF Tick, scVars, seqVars, cfgVars, SlotChainInv, SlotChain, Busy, Outstanding, Inbound
<1> QED
  BY <1>1, <1>2, <1>3, <1>4 DEF Next, vars

-----------------------------------------------------------------------------
(* The two ends of the chain.                                              *)

\* g answers the command under way.
Underway(g) == Busy /\ MacIcv(g.mac) = tx.mac

\* What is left on the line of earlier commands, and of their replies, is
\* chained from an earlier place of the slot.
CmdsPassed(cmds) ==
    \A j \in 1..Len(cmds) :
        cmds[j].scs = "SCS_CMD" => (Busy /\ cmds[j].id = tx.id) \/ MacIcv(cmds[j].mac) # Inbound
RplsPassed(rpls) ==
    \A i \in 1..Len(rpls) :
        rpls[i].scs = "SCS_REPLY" => Underway(rpls[i]) \/ MacIcv(MacIcv(rpls[i].mac)) # Inbound

\* The PD has answered nothing of this place of the chain.
Even(rpls, c, o) ==
    /\ o = Inbound
    /\ \A i \in 1..Len(rpls) : rpls[i].scs = "SCS_REPLY" => ~Underway(rpls[i])
    /\ Holds(c) /\ c.reply.scs = "SCS_REPLY" => MacIcv(MacIcv(c.reply.mac)) # Inbound

\* The PD has answered the command under way, and keeps the answer.
Ahead(cmds, rpls, c, o) ==
    /\ Busy /\ Holds(c)
    /\ Bytes(c.cmd) = Bytes(tx)
    /\ c.reply.scs = "SCS_REPLY" /\ c.reply.mac = o
    /\ o = ComputeMac(sc_session.keys, tx.mac, c.reply)
    /\ \A j \in 1..Len(cmds) : cmds[j].scs = "SCS_CMD" => cmds[j].id = tx.id
    /\ \A i \in 1..Len(rpls) : rpls[i].scs = "SCS_REPLY" /\ Underway(rpls[i]) =>
          /\ rpls[i].mac = o
          /\ \A k \in 1..Len(rpls) : k > i /\ rpls[k].scs = "SCS_REPLY" => Underway(rpls[k])

\* The PD has spoken since the slot last heard of it, so the slot's offline
\* timeout comes first.
Recent == pd_online /\ comm_age <= reply_age

InSession == sc_phase = "ESTABLISHED" /\ pd_session.established /\ ~OfflineDue

Chained(cmds, rpls, c, o) ==
    /\ CmdsPassed(cmds) /\ RplsPassed(rpls)
    /\ Even(rpls, c, o) \/ (Ahead(cmds, rpls, c, o) /\ Recent)

ChainedInv == InSession => Chained(toPd, toAcu, cache, Outbound)

-----------------------------------------------------------------------------
(* What happens to the line, and to the PD.                                *)

\* Frames leave the line or are corrupted on it.
LEMMA ChainFollows ==
    ASSUME NEW cmds, NEW rpls, NEW newCmds, NEW newRpls, NEW c, NEW o,
           Len(cmds) \in Nat, Len(rpls) \in Nat, Len(newCmds) \in Nat, Len(newRpls) \in Nat,
           Follows(newCmds, cmds), Follows(newRpls, rpls)
    PROVE  /\ CmdsPassed(cmds) => CmdsPassed(newCmds)
           /\ RplsPassed(rpls) => RplsPassed(newRpls)
           /\ Even(rpls, c, o) => Even(newRpls, c, o)
           /\ Ahead(cmds, rpls, c, o) => Ahead(newCmds, newRpls, c, o)
<1>1. PICK d \in {0, 1} : \A j \in 1..Len(newCmds) :
                 j + d \in 1..Len(cmds) /\ SameButBad(newCmds[j], cmds[j + d])
  BY DEF Follows
<1>2. PICK e \in {0, 1} : \A j \in 1..Len(newRpls) :
                 j + e \in 1..Len(rpls) /\ SameButBad(newRpls[j], rpls[j + e])
  BY DEF Follows
<1>3. \A x, y : SameButBad(x, y) =>
         x.scs = y.scs /\ x.mac = y.mac /\ x.id = y.id /\ Underway(x) = Underway(y)
  BY DEF SameButBad, Underway
<1>4. ASSUME CmdsPassed(cmds) PROVE CmdsPassed(newCmds)
  <2>1. SUFFICES ASSUME NEW j \in 1..Len(newCmds), newCmds[j].scs = "SCS_CMD"
                 PROVE  (Busy /\ newCmds[j].id = tx.id) \/ MacIcv(newCmds[j].mac) # Inbound
    BY DEF CmdsPassed
  <2>2. /\ j + d \in 1..Len(cmds)
        /\ cmds[j + d].scs = "SCS_CMD" /\ newCmds[j].mac = cmds[j + d].mac
        /\ newCmds[j].id = cmds[j + d].id
    BY <2>1, <1>1, <1>3
  <2> QED
    BY <2>2, <1>4 DEF CmdsPassed
<1>5. RplsPassed(rpls) => RplsPassed(newRpls)
  BY <1>2, <1>3 DEF RplsPassed
<1>6. Even(rpls, c, o) => Even(newRpls, c, o)
  BY <1>2, <1>3 DEF Even
<1>7. ASSUME Ahead(cmds, rpls, c, o) PROVE Ahead(newCmds, newRpls, c, o)
  <2>1. \A j \in 1..Len(newCmds) : newCmds[j].scs = "SCS_CMD" => newCmds[j].id = tx.id
    BY <1>1, <1>3, <1>7 DEF Ahead
  <2>2. ASSUME NEW i \in 1..Len(newRpls), newRpls[i].scs = "SCS_REPLY", Underway(newRpls[i])
        PROVE  /\ newRpls[i].mac = o
               /\ \A k \in 1..Len(newRpls) :
                     k > i /\ newRpls[k].scs = "SCS_REPLY" => Underway(newRpls[k])
    <3>1. /\ i + e \in 1..Len(rpls) /\ rpls[i + e].scs = "SCS_REPLY" /\ Underway(rpls[i + e])
          /\ newRpls[i].mac = rpls[i + e].mac
      BY <2>2, <1>2, <1>3
    <3>2. /\ rpls[i + e].mac = o
          /\ \A k \in 1..Len(rpls) : k > i + e /\ rpls[k].scs = "SCS_REPLY" => Underway(rpls[k])
      BY <3>1, <1>7 DEF Ahead
    <3>3. \A k \in 1..Len(newRpls) : k > i =>
              /\ k + e \in 1..Len(rpls) /\ k + e > i + e /\ newRpls[k].scs = rpls[k + e].scs
              /\ Underway(newRpls[k]) = Underway(rpls[k + e])
      BY <1>2, <1>3
    <3> QED
      BY <3>1, <3>2, <3>3
  <2> QED
    BY <2>1, <2>2, <1>7 DEF Ahead
<1> QED
  BY <1>4, <1>5, <1>6, <1>7

\* The PD sends something outside the session.
LEMMA ChainAside ==
    ASSUME NEW cmds, NEW rpls, NEW c, NEW o, NEW g, IsSeq(rpls), g.scs # "SCS_REPLY"
    PROVE  /\ RplsPassed(rpls) => RplsPassed(Append(rpls, g))
           /\ Even(rpls, c, o) => Even(Append(rpls, g), c, o)
           /\ Ahead(cmds, rpls, c, o) => Ahead(cmds, Append(rpls, g), c, o)
<1> DEFINE new == Append(rpls, g)
<1>1. /\ Len(rpls) \in Nat /\ Len(new) = Len(rpls) + 1 /\ new[Len(rpls) + 1] = g
      /\ \A j \in 1..Len(rpls) : new[j] = rpls[j]
  BY Appended
<1>2. \A j \in 1..Len(new) : new[j].scs = "SCS_REPLY" => j \in 1..Len(rpls) /\ new[j] = rpls[j]
  BY <1>1
<1> HIDE DEF new
<1>3. RplsPassed(rpls) => RplsPassed(new)
  BY <1>2 DEF RplsPassed
<1>4. Even(rpls, c, o) => Even(new, c, o)
  BY <1>2 DEF Even
<1>5. Ahead(cmds, rpls, c, o) => Ahead(cmds, new, c, o)
  BY <1>2 DEF Ahead
<1> QED
  BY <1>3, <1>4, <1>5 DEF new

\* The PD sends its cached reply again.
LEMMA ChainRepeats ==
    ASSUME NEW cmds, NEW rpls, NEW c, NEW o, IsSeq(rpls), Holds(c), SlotChain,
           RplsPassed(rpls), Even(rpls, c, o) \/ Ahead(cmds, rpls, c, o)
    PROVE  /\ RplsPassed(Append(rpls, c.reply))
           /\ Even(rpls, c, o) => Even(Append(rpls, c.reply), c, o)
           /\ Ahead(cmds, rpls, c, o) => Ahead(cmds, Append(rpls, c.reply), c, o)
<1> DEFINE g   == c.reply
           new == Append(rpls, g)
<1>1. CASE g.scs # "SCS_REPLY"
  BY <1>1, ChainAside
<1>2. CASE g.scs = "SCS_REPLY"
  <2>1. /\ Len(rpls) \in Nat /\ Len(new) = Len(rpls) + 1 /\ new[Len(rpls) + 1] = g
        /\ \A j \in 1..Len(rpls) : new[j] = rpls[j]
    BY Appended
  <2>2. \A j \in 1..Len(new) : (j \in 1..Len(rpls) /\ new[j] = rpls[j]) \/ (j = Len(rpls) + 1 /\ new[j] = g)
    BY <2>1
  <2> HIDE DEF new
  <2>3. Busy => MacIcv(tx.mac) = Inbound
    BY Terms DEF SlotChain, Outstanding
  <2>4. Ahead(cmds, rpls, c, o) => Underway(g) /\ g.mac = o
    BY Terms DEF Ahead, Underway
  <2>5. Even(rpls, c, o) => ~Underway(g) /\ MacIcv(MacIcv(g.mac)) # Inbound
    BY <1>2, <2>3 DEF Even, Underway
  <2>6. RplsPassed(new)
    BY <2>2, <2>4, <2>5 DEF RplsPassed
  <2>7. Even(rpls, c, o) => Even(new, c, o)
    BY <2>2, <2>5 DEF Even
  <2>8. ASSUME Ahead(cmds, rpls, c, o) PROVE Ahead(cmds, new, c, o)
    <3>1. ASSUME NEW i \in 1..Len(new), new[i].scs = "SCS_REPLY", Underway(new[i])
          PROVE  /\ new[i].mac = o
                 /\ \A k \in 1..Len(new) : k > i /\ new[k].scs = "SCS_REPLY" => Underway(new[k])
      <4>1. CASE i \in 1..Len(rpls) /\ new[i] = rpls[i]
        <5>1. /\ rpls[i].mac = o
              /\ \A k \in 1..Len(rpls) : k > i /\ rpls[k].scs = "SCS_REPLY" => Underway(rpls[k])
          BY <4>1, <3>1, <2>8 DEF Ahead
        <5> QED
          BY <5>1, <4>1, <2>2, <2>4, <2>8
      <4>2. CASE i = Len(rpls) + 1 /\ new[i] = g
        BY <4>2, <2>1, <2>4, <2>8
      <4> QED
        BY <4>1, <4>2, <2>2
    <3> QED
      BY <3>1, <2>8 DEF Ahead
  <2> QED
    BY <2>6, <2>7, <2>8 DEF new
<1> QED
  BY <1>1, <1>2

\* A copy of the command under way is its bytes.
LEMMA CopyUnderway ==
    ASSUME LogInv, SlotChain, Busy, NEW f, IsFrame(f), ~f.bad, f.id = tx.id,
           SameButBad(f, tx)
    PROVE  Bytes(f) = Bytes(tx) /\ f.sqn # 0 /\ f.mac = tx.mac
<1>1. IsFrame(tx) /\ tx.bad = FALSE /\ f.bad = FALSE /\ tx.sqn # 0
  BY DEF LogInv, TxLogged, SlotChain, Outstanding, IsFrame
<1>2. Bytes(f) = Bytes(tx)
  BY <1>1 DEF Bytes, IsFrame, SameButBad
<1> QED
  BY <1>1, <1>2 DEF SameButBad

\* When the PD is ahead, a command out of the session is a retransmit.
LEMMA AheadRecognises ==
    ASSUME KeysInv, LogInv, OnceInv, SlotChain, toPd # <<>>,
           Ahead(toPd, toAcu, cache, Outbound), Head(toPd).scs = "SCS_CMD", ~Head(toPd).bad
    PROVE  IsRetransmit(Head(toPd))
<1> DEFINE f == Head(toPd)
<1>1. f = toPd[1] /\ 1 \in 1..Len(toPd) /\ IsFrame(toPd[1])
  BY Taken DEF KeysInv, LineInv
<1>2. Busy /\ tx.id # 0 /\ f.id = tx.id /\ Bytes(cache.cmd) = Bytes(tx) /\ cache # NoCache
  BY <1>1 DEF Ahead, SlotChain, Outstanding, Holds
<1>3. SameButBad(f, tx)
  BY <1>1, <1>2 DEF OnceInv, SameInstance
<1>4. Bytes(f) = Bytes(tx) /\ f.sqn # 0
  BY <1>1, <1>2, <1>3, CopyUnderway
<1> QED
  BY <1>2, <1>4 DEF IsRetransmit

\* The PD takes the command at the head of the line.
LEMMA FreshKeepsChain ==
    ASSUME Steadfast, KeysInv, LogInv, OnceInv, SessionAgreement, HandshakeInv, SlotChain,
           ChainedInv, NEW v \in Verdicts, PdFresh(v, TRUE, TRUE), UNCHANGED acuVars, InSession'
    PROVE  Chained(toPd, toAcu, cache, Outbound)'
<1> DEFINE f == Head(toPd)
<1>0. /\ IsSeq(toPd) /\ IsSeq(toAcu) /\ PdTypeOK
      /\ \A j \in 1..Len(toPd) : IsFrame(toPd[j])
      /\ \A j \in 1..Len(toAcu) : IsFrame(toAcu[j])
  BY DEF KeysInv, LineInv, TypeOK
<1>1. /\ UNCHANGED <<waiting, timed_out, tx, sc_session, sc_phase, online, reply_age>>
      /\ sc_phase = "ESTABLISHED" /\ ~OfflineDue /\ pd_session'.established
      /\ reply_age \in Nat
  BY DEF acuVars, seqVars, scVars, onlineVars, InSession, OfflineDue, KeysInv, TypeOK, SlotTypeOK
<1>2. /\ toPd # <<>> /\ toPd' = Tail(toPd) /\ ~f.bad /\ ~IsRetransmit(f)
  BY DEF PdFresh, PdTakes
<1>3. /\ f = toPd[1] /\ 1 \in 1..Len(toPd) /\ IsFrame(f)
      /\ \A j \in 1..Len(toPd') : j + 1 \in 1..Len(toPd) /\ 1 < j + 1 /\ toPd'[j] = toPd[j + 1]
  BY <1>0, <1>2, Taken
<1>4. f.code # "COMSET" /\ f.scs \in {"NONE", "SCS_CMD"}
  BY <1>1, <1>3 DEF HandshakeInv, Handshaking, CmdFits, Operational
<1>5. PdUnwrapped(f) \/ PdUnmoved(f)
  <2>1. ~PdSeeded(f)
    BY <1>4 DEF PdSeeded
  <2> QED
    BY <2>1, <1>0, <1>4, PdFreshOutcome
<1>6. pd_session.established /\ f.scs = "SCS_CMD"
  BY <1>1, <1>4, <1>5 DEF PdUnwrapped, PdUnmoved
<1>7. CmdsPassed(toPd) /\ RplsPassed(toAcu) /\ Even(toAcu, cache, Outbound)
  <2>1. Chained(toPd, toAcu, cache, Outbound)
    BY <1>1, <1>6 DEF ChainedInv, InSession
  <2>2. ~Ahead(toPd, toAcu, cache, Outbound)
    BY <1>2, <1>6, AheadRecognises
  <2> QED
    BY <2>1, <2>2 DEF Chained
<1>8. CmdsPassed(toPd')
  <2>1. Follows(Tail(toPd), toPd) /\ Follows(toAcu, toAcu)
    BY <1>0, <1>2, FollowsCases
  <2>2. Len(toPd) \in Nat /\ Len(toAcu) \in Nat /\ Len(Tail(toPd)) \in Nat
    BY <1>0, <1>2, Taken DEF IsSeq
  <2> QED
    BY <2>1, <2>2, <1>2, <1>7, ChainFollows
<1> HIDE DEF f
<1>9. CASE PdUnmoved(f)
  <2>1. PICK reply : /\ Replied(f, reply)
                     /\ reply # NoReply => reply.scs # "SCS_REPLY" /\ ~Seeds(reply)
    BY <1>9 DEF PdUnmoved
  <2>2. Outbound' = Outbound
    BY <1>1, <1>9 DEF PdUnmoved, Outbound
  <2>3. Holds(cache') => cache'.reply.scs # "SCS_REPLY"
    BY <2>1 DEF Replied, Holds
  <2>4. Even(toAcu, cache', Outbound)
    BY <2>3, <1>7 DEF Even
  <2>5. RplsPassed(toAcu') /\ Even(toAcu', cache', Outbound)
    BY <2>1, <2>4, <1>0, <1>7, ChainAside DEF Replied
  <2>6. Busy' = Busy /\ Inbound' = Inbound
    BY <1>1 DEF Busy, Inbound
  <2> QED
    BY <2>2, <2>5, <2>6, <1>1, <1>8 DEF Chained, CmdsPassed, RplsPassed, Even, Underway, Holds
<1>10. CASE PdUnwrapped(f)
  <2>1. PICK g : /\ IsFrame(g) /\ g.scs = "SCS_REPLY" /\ g.mac = Outbound'
                 /\ g.mac = ComputeMac(pd_session.keys, f.mac, g)
                 /\ toAcu' = Append(toAcu, g) /\ cache' = [cmd |-> f, reply |-> g]
    BY <1>10 DEF PdUnwrapped, Outbound
  <2>2. MacIcv(f.mac) = Inbound
    BY <1>7, <1>10, Terms DEF PdUnwrapped, Even, Outbound
  <2>3. Busy /\ f.id = tx.id /\ tx.id # 0
    BY <2>2, <1>3, <1>6, <1>7 DEF CmdsPassed, SlotChain, Outstanding
  <2>4. SameButBad(f, tx)
    BY <2>3, <1>3 DEF OnceInv, SameInstance
  <2>5. Bytes(f) = Bytes(tx) /\ f.mac = tx.mac
    BY <2>3, <2>4, <1>2, <1>3, CopyUnderway DEF f
  <2>6. Outbound' = ComputeMac(sc_session.keys, tx.mac, g)
    BY <2>1, <2>5, <1>1, <1>6 DEF SessionAgreement
  <2>7. Underway(g)
    <3>1. MacIcv(g.mac) = f.mac
      BY <2>1, Terms
    <3> QED
      BY <3>1, <2>3, <2>5 DEF Underway
  <2>8. \A j \in 1..Len(toPd') : toPd'[j].id = tx.id
    BY <2>3, <1>3 DEF OnceInv, Together
  <2>9. /\ Len(toAcu) \in Nat /\ Len(toAcu') = Len(toAcu) + 1 /\ toAcu'[Len(toAcu) + 1] = g
        /\ \A j \in 1..Len(toAcu) : toAcu'[j] = toAcu[j]
    BY <2>1, <1>0, Appended
  <2>10. \A j \in 1..Len(toAcu') :
            (j \in 1..Len(toAcu) /\ toAcu'[j] = toAcu[j]) \/ (j = Len(toAcu) + 1 /\ toAcu'[j] = g)
    BY <2>9
  <2>11. RplsPassed(toAcu')
    BY <2>7, <2>10, <1>7 DEF RplsPassed
  <2>12. \A i \in 1..Len(toAcu') : toAcu'[i].scs = "SCS_REPLY" /\ Underway(toAcu'[i]) =>
            toAcu'[i] = g /\ \A k \in 1..Len(toAcu') : ~(k > i)
    BY <2>9, <2>10, <1>7 DEF Even
  <2>13. Holds(cache') /\ cache'.cmd = f /\ cache'.reply = g
    <3>1. g # NoReply
      BY <2>1 DEF IsFrame, NoReply
    <3>2. [cmd |-> f, reply |-> g] # NoCache
      BY DEF NoCache
    <3> QED
      BY <3>1, <3>2, <2>1 DEF Holds
  <2>14. Ahead(toPd', toAcu', cache', Outbound')
    BY <2>1, <2>3, <2>5, <2>6, <2>8, <2>12, <2>13 DEF Ahead
  <2>15. Recent'
    BY <1>1, <1>10 DEF PdUnwrapped, Recent
  <2>16. Busy' = Busy /\ Inbound' = Inbound
    BY <1>1 DEF Busy, Inbound
  <2> QED
    BY <2>11, <2>14, <2>15, <2>16, <1>1, <1>8
       DEF Chained, CmdsPassed, RplsPassed, Ahead, Underway, Holds
<1> QED
  BY <1>5, <1>9, <1>10

\* What the PD's other answers do to last_comm_ms.
LEMMA AnswerComm ==
    ASSUME NEW wr, PdBadCheck(wr) \/ PdNotOurs \/ PdRetransmit(wr)
    PROVE  UNCHANGED <<pd_online, comm_age>> \/ (pd_online' = TRUE /\ comm_age' = 0)
<1>1. CASE PdBadCheck(wr)
  BY <1>1 DEF PdBadCheck, SendBytes, pdCommVars
<1>2. CASE PdNotOurs
  BY <1>2 DEF PdNotOurs, pdCommVars
<1>3. CASE PdRetransmit(wr)
  BY <1>3 DEF PdRetransmit, SendBytes, pdCommVars
<1> QED
  BY <1>1, <1>2, <1>3

LEMMA PdKeepsChain ==
    ASSUME Steadfast, KeysInv, LogInv, OnceInv, SessionAgreement, EstablishedIsOnline,
           HandshakeInv, SlotChainInv, ChainedInv, PdNext, UNCHANGED acuVars
    PROVE  ChainedInv'
<1> SUFFICES ASSUME InSession' PROVE Chained(toPd, toAcu, cache, Outbound)'
  BY DEF ChainedInv
<1>0. /\ IsSeq(toPd) /\ IsSeq(toAcu) /\ WriteOutcomes = {TRUE}
      /\ \A j \in 1..Len(toPd) : IsFrame(toPd[j])
      /\ \A j \in 1..Len(toAcu) : IsFrame(toAcu[j])
  BY DEF KeysInv, LineInv, WriteOutcomes, Steadfast
<1>1. /\ UNCHANGED <<waiting, timed_out, tx, sc_session, sc_phase, online, reply_age>>
      /\ sc_phase = "ESTABLISHED" /\ ~OfflineDue /\ pd_session'.established
      /\ reply_age \in Nat /\ comm_age \in Nat
  BY DEF acuVars, seqVars, scVars, onlineVars, InSession, OfflineDue, KeysInv, TypeOK, SlotTypeOK,
     PdTypeOK
<1>2. SlotChain
  BY <1>1 DEF SlotChainInv
<1>3. Busy' = Busy /\ Inbound' = Inbound
  BY <1>1 DEF Busy, Inbound
<1>4. CASE \E v \in Verdicts, fits \in ReplyFits, wr \in WriteOutcomes : PdFresh(v, fits, wr)
  <2>1. PICK v \in Verdicts : PdFresh(v, TRUE, TRUE)
    BY <1>0, <1>4 DEF Steadfast
  <2> QED
    BY <2>1, <1>2, FreshKeepsChain
<1>5. CASE PdBadCheck(TRUE) \/ PdNotOurs \/ PdRetransmit(TRUE)
  <2> DEFINE nak == BuildNak(Head(toPd), NakBadCheck)
  <2>1. /\ toPd # <<>> /\ toPd' = Tail(toPd) /\ UNCHANGED <<cache, pd_session>>
        /\ \/ toAcu' = toAcu
           \/ toAcu' = Append(toAcu, nak)
           \/ Holds(cache) /\ toAcu' = Append(toAcu, cache.reply)
    BY <1>5, AnswerSent DEF Holds
  <2>2. nak.scs # "SCS_REPLY"
    BY PlainReplies
  <2> HIDE DEF nak
  <2>3. Chained(toPd, toAcu, cache, Outbound)
    BY <2>1, <1>1 DEF ChainedInv, InSession
  <2>4. /\ CmdsPassed(toPd')
        /\ Ahead(toPd, toAcu, cache, Outbound) => Ahead(toPd', toAcu, cache, Outbound)
    <3>1. Follows(Tail(toPd), toPd) /\ Follows(toAcu, toAcu)
      BY <1>0, <2>1, FollowsCases
    <3>2. Len(toPd) \in Nat /\ Len(toAcu) \in Nat /\ Len(Tail(toPd)) \in Nat
      BY <1>0, <2>1, Taken DEF IsSeq
    <3> QED
      BY <3>1, <3>2, <2>1, <2>3, ChainFollows DEF Chained
  <2>5. /\ RplsPassed(toAcu')
        /\ Even(toAcu, cache, Outbound) => Even(toAcu', cache, Outbound)
        /\ Ahead(toPd', toAcu, cache, Outbound) => Ahead(toPd', toAcu', cache, Outbound)
    <3>1. RplsPassed(toAcu) /\ (Even(toAcu, cache, Outbound) \/ Ahead(toPd', toAcu, cache, Outbound))
      BY <2>3, <2>4 DEF Chained
    <3>2. CASE toAcu' = toAcu
      BY <3>1, <3>2
    <3>3. CASE toAcu' = Append(toAcu, nak)
      BY <3>1, <3>3, <2>2, <1>0, ChainAside
    <3>4. CASE Holds(cache) /\ toAcu' = Append(toAcu, cache.reply)
      BY <3>1, <3>4, <1>0, <1>2, ChainRepeats
    <3> QED
      BY <3>2, <3>3, <3>4, <2>1
  <2>6. Recent => Recent'
    <3>1. UNCHANGED <<pd_online, comm_age>> \/ (pd_online' = TRUE /\ comm_age' = 0)
      BY <1>5, AnswerComm
    <3>2. CASE UNCHANGED <<pd_online, comm_age>>
      BY <3>2, <1>1 DEF Recent
    <3>3. CASE pd_online' = TRUE /\ comm_age' = 0
      <4>1. pd_online' /\ 0 <= reply_age'
        BY <3>3, <1>1
      <4> QED
        BY <4>1, <3>3 DEF Recent
    <3> QED
      BY <3>1, <3>2, <3>3
  <2>7. Even(toAcu', cache, Outbound) \/ (Ahead(toPd', toAcu', cache, Outbound) /\ Recent')
    BY <2>3, <2>4, <2>5, <2>6 DEF Chained
  <2>8. Outbound' = Outbound
    BY <2>1 DEF Outbound
  <2> QED
    BY <2>1, <2>4, <2>5, <2>7, <2>8, <1>1, <1>3
       DEF Chained, CmdsPassed, RplsPassed, Even, Ahead, Underway, Holds
<1>6. CASE PdGoOffline
  <2>1. /\ cache' = NoCache /\ UNCHANGED <<toPd, toAcu, pd_session>>
        /\ pd_online /\ comm_age > PdOfflineTimeout
    BY <1>6 DEF PdGoOffline, ForgetCache, wireVars, pdScVars, PdOfflineDue
  <2>2. ~Recent
    BY <2>1, <1>1, TimeoutsAssumption, PdTimeoutAssumption
       DEF Recent, OfflineDue, EstablishedIsOnline, Steadfast
  <2>3. CmdsPassed(toPd) /\ RplsPassed(toAcu) /\ Even(toAcu, cache, Outbound)
    BY <2>1, <2>2, <1>1 DEF ChainedInv, InSession, Chained
  <2>4. ~Holds(cache') /\ Outbound' = Outbound
    BY <2>1 DEF Holds, Outbound
  <2> QED
    BY <2>1, <2>3, <2>4, <1>1, <1>3 DEF Chained, CmdsPassed, RplsPassed, Even, Underway, Holds
<1>7. CASE PdRestart
  BY <1>1, <1>7 DEF PdRestart, SessionInit
<1> QED
  BY <1>0, <1>4, <1>5, <1>6, <1>7 DEF PdNext

-----------------------------------------------------------------------------
(* The slot.                                                               *)

\* Entering the session: both ends stand at its first R-MAC.
LEMMA EntryChains ==
    ASSUME KeysInv, SessionAgreement', HandshakeInv, EntersSession,
           UNCHANGED <<cache, pd_session>>, pd_session.established
    PROVE  Chained(toPd, toAcu, cache, Outbound)'
<1> DEFINE g == Head(toAcu)
<1>1. /\ sc_phase = "AWAITING_RMAC_I" /\ sc_phase' = "ESTABLISHED"
      /\ toPd' = toPd /\ toAcu # <<>> /\ toAcu' = Tail(toAcu)
      /\ Seeds(g) /\ RmacKeys(g.data) = sc_session.keys
      /\ sc_session'.keys = sc_session.keys /\ Inbound' = g.data /\ ~Busy'
  BY DEF EntersSession, Inbound, Busy
<1>2. /\ g = toAcu[1] /\ 1 \in 1..Len(toAcu)
      /\ \A j \in 1..Len(toAcu') : j + 1 \in 1..Len(toAcu) /\ j + 1 > 1 /\ toAcu'[j] = toAcu[j + 1]
  BY <1>1, Taken DEF KeysInv, LineInv
<1>3. SeedOf(g, nonces)
  BY <1>1 DEF SeedOf, KeysInv, SlotKeysInv
<1>4. InWith(pd_session, nonces)
  <2>1. pd_session.keys = sc_session.keys
    BY <1>1 DEF SessionAgreement
  <2> QED
    BY <2>1, <1>1 DEF InWith, KeysInv, SlotKeysInv
<1>5. Proving(nonces, toPd, toAcu, cache, pd_session)
  BY <1>1 DEF HandshakeInv, Handshaking
<1> HIDE DEF g
<1>6. AllClear(toPd)
  BY <1>2, <1>3, <1>5 DEF Proving, Confirmed
<1>7. g.data = Outbound /\ \A k \in 1..Len(toAcu) : k > 1 => toAcu[k].scs # "SCS_REPLY"
  BY <1>2, <1>3, <1>4, <1>5 DEF Proving, Outbound
<1>8. Holds(cache) => cache.reply.scs # "SCS_REPLY"
  BY <1>4, <1>5 DEF Proving
<1>9. \A j \in 1..Len(toAcu') : toAcu'[j].scs # "SCS_REPLY"
  BY <1>2, <1>7
<1>10. Outbound' = Inbound' /\ Holds(cache)' = Holds(cache)
  BY <1>1, <1>7 DEF Outbound, Holds
<1>11. CmdsPassed(toPd)'
  BY <1>1, <1>6 DEF CmdsPassed, AllClear
<1>12. RplsPassed(toAcu)'
  BY <1>9 DEF RplsPassed
<1>13. Even(toAcu, cache, Outbound)'
  BY <1>8, <1>9, <1>10 DEF Even
<1> QED
  BY <1>11, <1>12, <1>13 DEF Chained

\* A delivered reply takes the slot to where the PD is.
LEMMA DeliveryChains ==
    ASSUME KeysInv, LogInv, OnceInv, SlotChain, Chained(toPd, toAcu, cache, Outbound),
           SessDelivers, UNCHANGED <<cache, pd_session>>
    PROVE  Chained(toPd, toAcu, cache, Outbound)'
<1> DEFINE g == Head(toAcu)
<1>1. /\ waiting /\ toAcu # <<>> /\ toAcu' = Tail(toAcu) /\ toPd' = toPd
      /\ g.scs = "SCS_REPLY" /\ g.sqn = pending_seq
      /\ g.mac = ComputeMac(sc_session.keys, tx.mac, g) /\ Inbound' = g.mac
      /\ Busy /\ ~Busy'
  BY DEF SessDelivers, Busy
<1>2. /\ g = toAcu[1] /\ 1 \in 1..Len(toAcu) /\ IsFrame(g)
      /\ \A j \in 1..Len(toAcu') : j + 1 \in 1..Len(toAcu) /\ j + 1 > 1 /\ toAcu'[j] = toAcu[j + 1]
  BY <1>1, Taken DEF KeysInv, LineInv
<1> HIDE DEF g
<1>3. Underway(g)
  BY <1>1, Terms DEF Underway
<1>4. Ahead(toPd, toAcu, cache, Outbound)
  BY <1>1, <1>2, <1>3 DEF Chained, Even
<1>5. g.mac = Outbound /\ \A k \in 1..Len(toAcu) : k > 1 /\ toAcu[k].scs = "SCS_REPLY" => Underway(toAcu[k])
  BY <1>1, <1>2, <1>3, <1>4 DEF Ahead
<1>6. MacIcv(tx.mac) = Inbound /\ tx.id # 0 /\ NotReached(Inbound, pending_seq)
  BY <1>1, Terms DEF SlotChain, Outstanding
<1>7. Inbound' # Inbound
  <2>1. g.mac[1] = "mac" /\ MacSqn(g.mac) = pending_seq
    BY <1>1, <1>2, ChainTerms, SignedSqn DEF MacSqn
  <2> QED
    BY <2>1, <1>1, <1>6 DEF NotReached
<1>8. CmdsPassed(toPd)'
  <2>1. \A j \in 1..Len(toPd) : toPd[j].scs = "SCS_CMD" => toPd[j].id = tx.id
    BY <1>4 DEF Ahead
  <2>2. \A j \in 1..Len(toPd) : toPd[j].scs = "SCS_CMD" => toPd[j].mac = tx.mac
    BY <2>1, <1>6 DEF OnceInv, SameInstance, SameButBad
  <2> QED
    BY <2>2, <1>1, <1>6, <1>7 DEF CmdsPassed
<1>9. \A j \in 1..Len(toAcu') : toAcu'[j].scs = "SCS_REPLY" => MacIcv(MacIcv(toAcu'[j].mac)) = Inbound
  BY <1>2, <1>5, <1>6 DEF Underway
<1>10. RplsPassed(toAcu)'
  BY <1>7, <1>9 DEF RplsPassed
<1>11. MacIcv(MacIcv(cache.reply.mac)) = Inbound
  BY <1>4, <1>6, Terms DEF Ahead
<1>12. Outbound' = Inbound' /\ ~Busy'
  BY <1>1, <1>5 DEF Outbound
<1>13. Even(toAcu, cache, Outbound)'
  BY <1>7, <1>11, <1>12 DEF Even, Underway
<1> QED
  BY <1>8, <1>10, <1>13 DEF Chained

\* A command starts, or is repeated.
LEMMA SendChains ==
    ASSUME KeysInv, LogInv, SlotChain, Chained(toPd, toAcu, cache, Outbound),
           NEW f, SessSends(f), sc_session'.keys = sc_session.keys,
           UNCHANGED <<cache, pd_session, pd_online, comm_age>>
    PROVE  Chained(toPd, toAcu, cache, Outbound)'
<1>1. /\ toPd' = Append(toPd, f) /\ toAcu' = toAcu /\ tx' = f /\ Busy' /\ ~waiting
      /\ Inbound' = Inbound /\ f.mac = ComputeMac(sc_session.keys, Inbound, f)
      /\ f.scs = "SCS_CMD" /\ IsFrame(f) /\ f.bad = FALSE
      /\ UNCHANGED <<online, reply_age>>
  BY DEF SessSends, Busy
<1>2. /\ Len(toPd) \in Nat /\ Len(toPd') = Len(toPd) + 1 /\ toPd'[Len(toPd) + 1] = f
      /\ \A j \in 1..Len(toPd) : toPd'[j] = toPd[j]
  BY <1>1, Appended DEF KeysInv, LineInv
<1>3. \A j \in 1..Len(toPd') :
         (j \in 1..Len(toPd) /\ toPd'[j] = toPd[j]) \/ (j = Len(toPd) + 1 /\ toPd'[j] = f)
  BY <1>2
<1>4. Outbound' = Outbound /\ Recent' = Recent /\ Holds(cache)' = Holds(cache)
  BY <1>1 DEF Outbound, Recent, Holds
<1>5. CmdsPassed(toPd) /\ RplsPassed(toAcu)
  BY DEF Chained
<1>6. CASE ~timed_out
  <2>1. ~Busy /\ Even(toAcu, cache, Outbound)
    BY <1>1, <1>6 DEF Chained, Ahead, Busy
  <2>2. CmdsPassed(toPd)'
    BY <2>1, <1>1, <1>3, <1>5 DEF CmdsPassed
  <2>3. MacIcv(f.mac) = Inbound
    BY <1>1, Terms
  <2>4. \A j \in 1..Len(toAcu) : toAcu[j].scs = "SCS_REPLY" => MacIcv(MacIcv(toAcu[j].mac)) # Inbound
    BY <2>1, <1>5 DEF RplsPassed, Underway
  <2>5. RplsPassed(toAcu)'
    BY <2>4, <1>1 DEF RplsPassed
  <2>6. Even(toAcu, cache, Outbound)'
    BY <2>1, <2>3, <2>4, <1>1, <1>4 DEF Even, Underway
  <2> QED
    BY <2>2, <2>5, <2>6 DEF Chained
<1>7. CASE timed_out
  <2>1. Busy /\ SameButBad(f, tx) /\ IsFrame(tx) /\ tx.bad = FALSE
    BY <1>7 DEF Busy, SessSends, LogInv, TxLogged, SlotChain, Outstanding
  <2>2. Bytes(f) = Bytes(tx) /\ f.id = tx.id /\ f.mac = tx.mac
    <3>1. /\ DOMAIN f = DOMAIN tx /\ f.bad = tx.bad
          /\ \A k \in DOMAIN f : k # "id" => f[k] = tx[k]
      BY <2>1, <1>1 DEF IsFrame, SameButBad
    <3>2. Bytes(f) = [k \in DOMAIN f |-> IF k = "id" THEN 0 ELSE f[k]]
      BY <1>1 DEF Bytes, IsFrame
    <3>3. Bytes(tx) = [k \in DOMAIN tx |-> IF k = "id" THEN 0 ELSE tx[k]]
      BY <2>1 DEF Bytes, IsFrame
    <3> QED
      BY <3>1, <3>2, <3>3, <2>1 DEF SameButBad
  <2>3. CmdsPassed(toPd)'
    BY <2>1, <2>2, <1>1, <1>3, <1>5 DEF CmdsPassed
  <2>4. \A h : Underway(h)' = Underway(h)
    BY <2>1, <2>2, <1>1 DEF Underway
  <2>5. RplsPassed(toAcu)'
    BY <2>4, <1>1, <1>5 DEF RplsPassed
  <2>6. Even(toAcu, cache, Outbound) => Even(toAcu, cache, Outbound)'
    BY <2>4, <1>1, <1>4 DEF Even
  <2>7. Ahead(toPd, toAcu, cache, Outbound) => Ahead(toPd, toAcu, cache, Outbound)'
    BY <2>2, <2>4, <1>1, <1>3, <1>4 DEF Ahead
  <2> QED
    BY <2>3, <2>5, <2>6, <2>7, <1>4 DEF Chained
<1> QED
  BY <1>6, <1>7

LEMMA SlotKeepsChain ==
    ASSUME Steadfast, KeysInv, LogInv, OnceInv, SessionAgreement', HandshakeInv, SlotChainInv,
           ChainedInv, AcuNext, UNCHANGED pdVars
    PROVE  ChainedInv'
<1> SUFFICES ASSUME InSession' PROVE Chained(toPd, toAcu, cache, Outbound)'
  BY DEF ChainedInv
<1>0. /\ UNCHANGED <<cache, pd_session, pd_online, comm_age>> /\ TypeOK /\ LineInv
      /\ sc_phase' = "ESTABLISHED" /\ pd_session.established /\ ~OfflineDue'
  BY DEF pdVars, pdScVars, pdCommVars, KeysInv, InSession
<1>1. CASE sc_phase # "ESTABLISHED"
  <2>1. EntersSession
    BY <1>0, <1>1, SlotAlwaysShakes DEF SlotShakes, StaysInPhase, StartsOver, SendsProof, LeavesSession
  <2> QED
    BY <2>1, <1>0, EntryChains
<1>2. CASE sc_phase = "ESTABLISHED"
  <2>1. SessMoves /\ SlotChain
    BY <1>0, <1>2, SessionMoves DEF SlotChainInv
  <2>2. ~OfflineDue
    BY <2>1, <1>0 DEF SessMoves, SessSends, SessTimesOut, SessDelivers, SessSkips, OfflineDue
  <2>3. Chained(toPd, toAcu, cache, Outbound)
    BY <2>2, <1>0, <1>2 DEF ChainedInv, InSession
  <2>4. CASE \E f : SessSends(f)
    BY <2>1, <2>3, <2>4, <1>0, SendChains DEF SessMoves
  <2>5. CASE SessDelivers
    BY <2>1, <2>3, <2>5, <1>0, DeliveryChains
  <2>6. CASE SessTimesOut \/ SessSkips
    <3>1. /\ SlotTakes /\ toPd' = toPd /\ tx' = tx /\ Busy' = Busy /\ Inbound' = Inbound
          /\ sc_session'.keys = sc_session.keys /\ Recent' = Recent
      BY <2>1, <2>6, <1>0 DEF SessMoves, SessTimesOut, SessSkips, SlotTakes, Busy, Recent
    <3>2. Follows(toPd, toPd) /\ Follows(toAcu', toAcu)
      BY <1>0, <3>1, FollowsCases DEF LineInv, SlotTakes
    <3>3. Len(toPd) \in Nat /\ Len(toAcu) \in Nat /\ Len(toAcu') \in Nat
      BY <1>0, <3>1, Taken DEF IsSeq, LineInv, SlotTakes
    <3>4. /\ CmdsPassed(toPd) /\ RplsPassed(toAcu')
          /\ Even(toAcu', cache, Outbound) \/ (Ahead(toPd, toAcu', cache, Outbound) /\ Recent)
      BY <3>2, <3>3, <2>3, ChainFollows DEF Chained
    <3>5. Outbound' = Outbound
      BY <1>0 DEF Outbound
    <3> QED
      BY <3>1, <3>4, <3>5, <1>0 DEF Chained, CmdsPassed, RplsPassed, Even, Ahead, Underway, Holds
  <2> QED
    BY <2>1, <2>4, <2>5, <2>6 DEF SessMoves
<1> QED
  BY <1>1, <1>2

LEMMA WireKeepsChain ==
    ASSUME KeysInv, ChainedInv, WireNext, UNCHANGED <<acuVars, pdVars>>
    PROVE  ChainedInv'
<1> SUFFICES ASSUME InSession' PROVE Chained(toPd, toAcu, cache, Outbound)'
  BY DEF ChainedInv
<1>1. /\ UNCHANGED <<waiting, timed_out, tx, sc_session, sc_phase, online, reply_age>>
      /\ UNCHANGED <<cache, pd_session, pd_online, comm_age>>
      /\ UNCHANGED <<nonces, got_chlng, sc_rnd_a>>
  BY DEF acuVars, seqVars, scVars, onlineVars, countVars, pdVars, pdScVars, pdCommVars
<1>2. Chained(toPd, toAcu, cache, Outbound)
  BY <1>1 DEF ChainedInv, InSession, OfflineDue
<1>3. Follows(toPd', toPd) /\ Follows(toAcu', toAcu)
  BY WireFollows DEF KeysInv
<1>4. Len(toPd) \in Nat /\ Len(toAcu) \in Nat /\ Len(toPd') \in Nat /\ Len(toAcu') \in Nat
  <2>1. \A s : IsSeq(s) => Len(s) \in Nat
    BY DEF IsSeq
  <2>2. LineInv'
    BY <1>1, WireKeepsKeys
  <2> QED
    BY <2>1, <2>2 DEF LineInv, KeysInv
<1>5. /\ CmdsPassed(toPd') /\ RplsPassed(toAcu')
      /\ Even(toAcu', cache, Outbound) \/ (Ahead(toPd', toAcu', cache, Outbound) /\ Recent)
  BY <1>2, <1>3, <1>4, ChainFollows DEF Chained
<1>6. Busy' = Busy /\ Inbound' = Inbound /\ Outbound' = Outbound /\ Recent' = Recent
  BY <1>1 DEF Busy, Inbound, Outbound, Recent
<1> QED
  BY <1>1, <1>5, <1>6 DEF Chained, CmdsPassed, RplsPassed, Even, Ahead, Underway, Holds

LEMMA TickKeepsChain ==
    ASSUME TypeOK, EstablishedIsOnline, ChainedInv, Tick
    PROVE  ChainedInv'
<1> SUFFICES ASSUME InSession' PROVE Chained(toPd, toAcu, cache, Outbound)'
  BY DEF ChainedInv
<1>1. /\ UNCHANGED <<waiting, timed_out, tx, sc_session, sc_phase, online>>
      /\ UNCHANGED <<cache, pd_session, pd_online, toPd, toAcu>>
      /\ reply_age \in Nat /\ comm_age \in Nat
  BY DEF Tick, seqVars, scVars, pdScVars, wireVars, TypeOK, SlotTypeOK, PdTypeOK
<1>2. online /\ reply_age' = Older(reply_age, OfflineTimeout) /\ ~(reply_age' > OfflineTimeout)
  BY <1>1 DEF Tick, InSession, EstablishedIsOnline, OfflineDue
<1>3. ~OfflineDue /\ reply_age' = reply_age + 1
  BY <1>1, <1>2, TimeoutsAssumption DEF Older, OfflineDue
<1>4. Recent => Recent'
  <2>1. pd_online => comm_age' = Older(comm_age, PdOfflineTimeout)
    BY DEF Tick
  <2> QED
    BY <2>1, <1>1, <1>3, PdTimeoutAssumption DEF Recent, Older
<1>5. Chained(toPd, toAcu, cache, Outbound)
  BY <1>1, <1>3 DEF ChainedInv, InSession
<1>6. Busy' = Busy /\ Inbound' = Inbound /\ Outbound' = Outbound
  BY <1>1 DEF Busy, Inbound, Outbound
<1> QED
  BY <1>1, <1>4, <1>5, <1>6 DEF Chained, CmdsPassed, RplsPassed, Even, Ahead, Underway, Holds

LEMMA ChainStep ==
    ASSUME Steadfast, KeysInv, LogInv, OnceInv, SessionAgreement, SessionAgreement',
           EstablishedIsOnline, HandshakeInv, SlotChainInv, ChainedInv, [Next]_vars
    PROVE  ChainedInv'
<1>1. CASE UNCHANGED vars
  <2>1. /\ UNCHANGED <<waiting, timed_out, tx, sc_session, sc_phase, online, reply_age>>
        /\ UNCHANGED <<cache, pd_session, pd_online, comm_age, toPd, toAcu>>
    BY <1>1 DEF vars, acuVars, seqVars, scVars, onlineVars, pdVars, pdScVars, pdCommVars, wireVars
  <2>2. Busy' = Busy /\ Inbound' = Inbound /\ Outbound' = Outbound /\ Recent' = Recent
        /\ InSession' = InSession
    BY <2>1 DEF Busy, Inbound, Outbound, Recent, InSession, OfflineDue
  <2> QED
    BY <2>1, <2>2 DEF ChainedInv, Chained, CmdsPassed, RplsPassed, Even, Ahead, Underway, Holds
<1>2. TypeOK
  BY DEF KeysInv
<1> QED
  BY <1>1, <1>2, SlotKeepsChain, PdKeepsChain, WireKeepsChain, TickKeepsChain DEF Next

-----------------------------------------------------------------------------
(* The theorem.                                                            *)

\* The inductive invariant (with those of LinkProofs and DeliveryProofs).
ChainInv == HandshakeInv /\ SlotChainInv /\ ChainedInv

LEMMA ChainInit == Init => ChainInv
<1> SUFFICES ASSUME Init PROVE ChainInv
  OBVIOUS
<1>1. sc_phase = "IDLE" /\ toPd = <<>>
  BY DEF Init, AcuInit, WireInit
<1>2. HandshakeInv
  BY <1>1 DEF HandshakeInv, Handshaking
<1> QED
  BY <1>1, <1>2 DEF ChainInv, SlotChainInv, ChainedInv, InSession

LEMMA ChainedRecovers == ChainedInv => ChainRecoverable
<1> SUFFICES ASSUME ChainedInv, InSession
             PROVE  \/ Inbound = Outbound
                    \/ /\ cache # NoCache /\ Bytes(cache.cmd) = Bytes(tx)
                       /\ cache.reply # NoReply
                       /\ cache.reply.mac = ComputeMac(sc_session.keys, tx.mac, cache.reply)
  BY DEF ChainRecoverable, InSession, Inbound, Outbound
<1>1. Chained(toPd, toAcu, cache, Outbound)
  BY DEF ChainedInv
<1> QED
  BY <1>1 DEF Chained, Even, Ahead, Holds

\* The chain of the two ends can always continue, for any keys, commands,
\* timeouts and bounds, whatever frames the line loses or corrupts and however
\* often the slot is registered or the PD restarts: osdp_sc_wrap_frame and
\* osdp_sc_unwrap_frame leave the two ends at the same place, or the PD one reply
\* ahead with that reply in its retransmit cache.  Each hypothesis of Steadfast
\* is a case in which the code loses that reply.
THEOREM ChainsRecover == ASSUME Steadfast PROVE Spec => []ChainRecoverable
<1>1. Init => ChainInv
  BY ChainInit
<1>2. KeysInv /\ LogInv /\ OnceInv /\ SessionAgreement /\ SessionAgreement' /\ EstablishedIsOnline
        /\ ChainInv /\ [Next]_vars => ChainInv'
  <2> SUFFICES ASSUME KeysInv, LogInv, OnceInv, SessionAgreement, SessionAgreement',
                      EstablishedIsOnline, ChainInv, [Next]_vars
               PROVE  ChainInv'
    OBVIOUS
  <2> QED
    BY HandshakeStep, SlotChainStep, ChainStep DEF ChainInv
<1>3. ChainInv => ChainRecoverable
  BY ChainedRecovers DEF ChainInv
<1> QED
  BY <1>1, <1>2, <1>3, KeysAlwaysKnown, LogAgrees, OnceInvariant, SessionsAgree, OfflineHasNoSession,
     PTL DEF Spec
=============================================================================
