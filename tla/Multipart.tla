------------------------------ MODULE Multipart ------------------------------
(***************************************************************************)
(* Fragments of long messages (src/core/src/shared/multipart.c): the       *)
(* fragment codec, the reassembler and the iterator, as operators.         *)
(*                                                                         *)
(* A fragment is [total, offset, data]; MpFragmentSize is Len(data).  On   *)
(* the wire it also carries the size its header claims.  A buffer is a     *)
(* function from the places written so far to the bytes there, so a copy   *)
(* past the end of the buffer shows in its domain.                         *)
(***************************************************************************)
EXTENDS Naturals, Sequences

\* A place in a buffer that nothing was ever written to.
NoByte == [of |-> 0, at |-> 0]

\* memcpy(&buf[offset], data, Len(data))
Copy(buf, offset, data) ==
    [i \in DOMAIN buf \cup offset..(offset + Len(data) - 1) |->
        IF offset <= i /\ i < offset + Len(data) THEN data[i - offset + 1] ELSE buf[i]]

\* What a reader of buf[0 .. n) finds.
Contents(buf, n) ==
    [i \in 1..n |-> IF i - 1 \in DOMAIN buf THEN buf[i - 1] ELSE NoByte]

-----------------------------------------------------------------------------
(* Fragment codec                                                          *)

\* osdp_mp_is_early_termination
IsEarlyTermination(f) == Len(f.data) = 0 /\ f.total > 0 /\ f.offset >= f.total

\* osdp_mp_fragment_decode: the claimed size is the size present, and the
\* fragment stays inside its message unless it is the termination marker.
FragmentDecodes(p) ==
    /\ p.size = Len(p.data)
    /\ IsEarlyTermination(p) \/ p.offset + Len(p.data) <= p.total

\* osdp_mp_fragment_build for a fragment that its checks let through
FragmentBuild(f) ==
    [total |-> f.total, offset |-> f.offset, size |-> Len(f.data), data |-> f.data]

-----------------------------------------------------------------------------
(* Reassembly: [total, received, active, buf]                              *)

\* osdp_mp_reasm_reset
ReasmReset(r) == [r EXCEPT !.total = 0, !.received = 0, !.active = FALSE]

\* osdp_mp_reasm_init
ReasmInit(buf) == [total |-> 0, received |-> 0, active |-> FALSE, buf |-> buf]

MutPushRefused(r, cap, f) ==
    IF f.offset = 0
    THEN f.total = 0 \/ f.total > cap
    ELSE ~r.active \/ f.total # r.total

\* The fragments osdp_mp_reasm_push refuses.
PushRefused(r, cap, f) ==
    IF f.offset = 0
    THEN f.total = 0 \/ f.total > cap
    ELSE ~r.active \/ f.total # r.total \/ f.offset > r.received

\* osdp_mp_reasm_push: the status, what the fragment did to the transfer, and
\* the reassembler after it.  The caller resets it after an error.
ReasmPush(r, cap, f) ==
    IF IsEarlyTermination(f)
    THEN [ok |-> TRUE, state |-> "TERMINATED", r |-> ReasmReset(r)]
    ELSE IF PushRefused(r, cap, f)
    THEN [ok |-> FALSE, state |-> "IN_PROGRESS", r |-> r]
    ELSE LET had == IF f.offset = 0 THEN 0 ELSE r.received
             end == f.offset + Len(f.data)
             got == IF end > had THEN end ELSE had
         IN  [ok |-> TRUE,
              state |-> IF got = f.total THEN "COMPLETE" ELSE "IN_PROGRESS",
              r |-> [total |-> f.total, received |-> got, active |-> TRUE,
                     buf |-> Copy(r.buf, f.offset, f.data)]]

-----------------------------------------------------------------------------
(* Fragmentation                                                           *)

\* osdp_mp_frag_iter_next says there is no fragment left at this offset.
IterAtEnd(msg, offset) == offset >= Len(msg)

\* The fragment osdp_mp_frag_iter_next cuts from msg at this offset.
IterFragment(msg, offset, max_frag) ==
    LET remaining == Len(msg) - offset
        this_len  == IF remaining < max_frag THEN remaining ELSE max_frag
    IN  [total |-> Len(msg), offset |-> offset,
         data |-> SubSeq(msg, offset + 1, offset + this_len)]

\* osdp_mp_frag_terminate
FragTerminate(msg_len) == [total |-> msg_len, offset |-> msg_len, data |-> <<>>]
=============================================================================
