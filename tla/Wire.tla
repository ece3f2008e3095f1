-------------------------------- MODULE Wire --------------------------------
(***************************************************************************)
(* The RS-485 line between one ACU slot and one PD, the frames that travel *)
(* on it, and the Secure Channel (SC1) terms they carry.                   *)
(*                                                                         *)
(* A frame is a record of the fields osdp_frame_build serialises and       *)
(* osdp_frame_decode recovers.  The byte layout is abstracted; what the    *)
(* two state machines compare is kept:                                     *)
(*   addr  the PD address          sqn   the 2-bit sequence number         *)
(*   scs   the security block type scb   its one data byte                 *)
(*   code  command or reply code   data  the payload                       *)
(*   mac   the MAC trailer         bad   the integrity check fails         *)
(*   id    history only: the command instance this frame belongs to        *)
(* Cryptography is symbolic: equal terms are equal bytes, and a term can   *)
(* only be equal if every ingredient is.                                   *)
(***************************************************************************)
EXTENDS Naturals, Sequences

CONSTANTS
    Keys,       \* operational base keys (SCBK values)
    DefaultKey, \* the install-mode base key (SCBK-D)
    NoKey,      \* scbk_set or scbk_d_set is false
    ScbkInit,   \* the operational keys (or NoKey) the two ends start with
    ScbkDInit,  \* the default keys (or NoKey) the two ends start with
    Faults,     \* which of "lose", "corrupt", "short" the environment does
    MaxWire,    \* bound: frames in flight in each direction
    MaxIds      \* bound: distinct commands the application issues

ASSUME KeysAssumption == NoKey \notin Keys /\ DefaultKey # NoKey
ASSUME KeysInitAssumption ==
    ScbkInit \subseteq Keys \cup {NoKey} /\ ScbkDInit \subseteq {DefaultKey, NoKey}
ASSUME FaultsAssumption == Faults \subseteq {"lose", "corrupt", "short"}
ASSUME WireBoundsAssumption == MaxWire \in Nat \ {0} /\ MaxIds \in Nat

VARIABLES
    toPd,       \* frames travelling from the ACU to the PD, oldest first
    toAcu       \* frames travelling from the PD to the ACU, oldest first

wireVars == <<toPd, toAcu>>

Broadcast == 127

NoMac  == <<>>
NoKeys == <<>>

Frame(addr, sqn, scs, scb, code, data, id) ==
    [addr |-> addr, sqn |-> sqn, scs |-> scs, scb |-> scb, code |-> code,
     data |-> data, mac |-> NoMac, bad |-> FALSE, id |-> id]

\* The bytes of a frame: everything but the history field.
Bytes(f) == [f EXCEPT !.id = 0]

\* What the MAC covers: the frame up to the MAC trailer.
Signed(f) == [f EXCEPT !.id = 0, !.mac = NoMac]

-----------------------------------------------------------------------------
(* Secure Channel key schedule and cryptograms.                            *)

\* osdp_sc_derive_session_keys: S-ENC, S-MAC1 and S-MAC2 are functions of
\* the base key and of RND.A only.
DeriveSessionKeys(key, rndA) == <<key, rndA>>

ClientCryptogram(keys, rndA, rndB) == <<"client", keys, rndA, rndB>>
ServerCryptogram(keys, rndA, rndB) == <<"server", keys, rndB, rndA>>
InitialRmac(keys, server) == <<"rmac", keys, server>>

\* osdp_sc_compute_mac: a CBC MAC under S-MAC1/S-MAC2 chained from icv.
ComputeMac(keys, icv, f) == <<"mac", keys, icv, Signed(f)>>

-----------------------------------------------------------------------------
(* osdp_sc_session_t and the operations on it.                             *)

SessionInit ==
    [established |-> FALSE, keys |-> NoKeys,
     last_outbound_mac |-> NoMac, last_inbound_mac |-> NoMac]

\* Both directions of the rolling chain start at the Initial R-MAC.
SessionSeeded(keys, rmac) ==
    [established |-> TRUE, keys |-> keys,
     last_outbound_mac |-> rmac, last_inbound_mac |-> rmac]

\* osdp_sc_wrap_frame: the MAC of an outbound frame is chained from the last
\* inbound MAC, and becomes the last outbound MAC.
Wrap(s, f) == [f EXCEPT !.mac = ComputeMac(s.keys, s.last_inbound_mac, f)]
AfterWrap(s, f) ==
    [s EXCEPT !.last_outbound_mac = ComputeMac(s.keys, s.last_inbound_mac, f)]

MutUnwrapOk(s, f) ==
    /\ s.established
    /\ f.mac # NoMac

\* osdp_sc_unwrap_frame: an inbound MAC must be chained from the last
\* outbound MAC; only then does it become the last inbound MAC.
UnwrapOk(s, f) ==
    /\ s.established
    /\ f.mac = ComputeMac(s.keys, s.last_outbound_mac, f)
AfterUnwrap(s, f) == [s EXCEPT !.last_inbound_mac = f.mac]

-----------------------------------------------------------------------------
(* The line itself: a UART keeps the order of what it carries, but a frame *)
(* can be swallowed by noise, or arrive with a failing check.              *)

WireInit == toPd = <<>> /\ toAcu = <<>>

Lose ==
    /\ "lose" \in Faults
    /\ \/ toPd # <<>> /\ toPd' = Tail(toPd) /\ UNCHANGED toAcu
       \/ toAcu # <<>> /\ toAcu' = Tail(toAcu) /\ UNCHANGED toPd

\* Corrupting an already corrupt frame changes nothing.
Corrupt ==
    /\ "corrupt" \in Faults
    /\ \/ /\ toPd # <<>>
          /\ ~Head(toPd).bad
          /\ toPd' = <<[Head(toPd) EXCEPT !.bad = TRUE]>> \o Tail(toPd)
          /\ UNCHANGED toAcu
       \/ /\ toAcu # <<>>
          /\ ~Head(toAcu).bad
          /\ toAcu' = <<[Head(toAcu) EXCEPT !.bad = TRUE]>> \o Tail(toAcu)
          /\ UNCHANGED toPd

WireNext == Lose \/ Corrupt

\* A write of a whole frame either reaches the line or fails short.
WriteOutcomes == IF "short" \in Faults THEN BOOLEAN ELSE {TRUE}
=============================================================================
