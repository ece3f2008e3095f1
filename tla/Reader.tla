------------------------------- MODULE Reader -------------------------------
(***************************************************************************)
(* LED and buzzer commands from a controller to a reader: the mirror bank  *)
(* the controller fills as it sends (acu.c), the bank the PD fills as it   *)
(* receives (pd.c), what the PD answers (pd_dispatch.c), and the callbacks *)
(* through which both applications learn what is shown.                    *)
(*                                                                         *)
(* A bank is a function from what it tracks (a light, a reader's buzzer)   *)
(* to [state, last]; its domain is the slots in use.  One PD, which does   *)
(* not go offline; the controller repeats a command until it is answered   *)
(* or gives it up.                                                         *)
(***************************************************************************)
EXTENDS Resolver, Sequences, SequencesExt, FiniteSets

CONSTANTS
    Commands,         \* what the controller sends: [code, recs, whole], code
                      \* "LED" or "BUZ", recs its records in order
    PdMaxLeds, PdMaxBuzzers,    \* OSDP_PD_MAX_LEDS, OSDP_PD_MAX_BUZZERS
    AcuMaxLeds, AcuMaxBuzzers,  \* OSDP_ACU_MAX_LEDS, OSDP_ACU_MAX_BUZZERS
    Verdicts,         \* what the PD's command handler answers
    ClockStart,       \* the clock when the history begins
    FirstSeqs,        \* next_seq when it begins: 0, or other after some polls
    Horizon,          \* bound: how far the clock moves
    MaxCommands,      \* bound: commands sent
    MaxLost,          \* bound: frames lost
    MaxRebinds        \* bound: handlers bound or detached

ASSUME ReaderAssumption ==
    /\ PdMaxLeds \in Nat /\ PdMaxBuzzers \in Nat
    /\ AcuMaxLeds \in Nat /\ AcuMaxBuzzers \in Nat
    /\ ClockStart \in 0..(Turn - 1) /\ FirstSeqs \subseteq 0..3 /\ Horizon \in Nat
    /\ MaxCommands \in Nat /\ MaxLost \in Nat /\ MaxRebinds \in Nat
    /\ \A c \in Commands :
          /\ c.code \in {"LED", "BUZ"}
          /\ c.recs \in Seq(ToSet(c.recs)) /\ c.recs # <<>>
          /\ c.code = "BUZ" =>
                /\ Len(c.recs) = 1
                /\ c.recs[1].on \in Nat /\ c.recs[1].off \in Nat /\ c.recs[1].count \in Nat

VARIABLES
    time,             \* how far the clock has moved
    pd_leds, pd_buzzers,
    acu_leds, acu_buzzers,
    bound,            \* the ends whose callbacks are bound
    heard,            \* heard[end][x]: what the callbacks last said of x
    pending, next_seq,    \* the command the controller waits for, its number
    cmd, rpl,         \* on the line; cmd is sent under next_seq
    cache,            \* last_cmd, its number and last_reply: [cmd, sqn, rpl]
    \* history
    looked,           \* ends that have ticked since the clock last moved
    armed,            \* armed[x]: when the PD's timer of x was started
    diverged,         \* lights the PD may have been told less about
    commands, lost, rebinds

pdVars   == <<pd_leds, pd_buzzers, armed>>
acuVars  == <<acu_leds, acu_buzzers>>
readerVars == <<time, pdVars, acuVars, bound, heard, pending, next_seq, cmd, rpl, cache, looked,
                diverged, commands, lost, rebinds>>

None == [code |-> "none", recs |-> <<>>, whole |-> TRUE]
NoReply == [is |-> "none", by |-> "none", applied |-> FALSE]
NoCache == [cmd |-> None, sqn |-> 0, rpl |-> NoReply]

Now == (ClockStart + time) % Turn

\* Whatever the commands name.
Keys(c) == {c.recs[i].key : i \in 1..Len(c.recs)}
Lights == UNION {Keys(c) : c \in {d \in Commands : d.code = "LED"}}
Buzzers == UNION {Keys(c) : c \in {d \in Commands : d.code = "BUZ"}}

\* A light and a buzzer are not called the same.
ASSUME KeysAssumption == Lights \cap Buzzers = {}

ReaderInit ==
    /\ time = 0
    /\ pd_leds = <<>> /\ pd_buzzers = <<>> /\ acu_leds = <<>> /\ acu_buzzers = <<>>
    /\ bound = {"pd", "acu"}
    /\ heard = [e \in {"pd", "acu"} |->
                    [led |-> [k \in Lights |-> Black], buz |-> [k \in Buzzers |-> FALSE]]]
    /\ pending = None /\ next_seq \in FirstSeqs
    /\ cmd = None /\ rpl = NoReply /\ cache = NoCache
    /\ looked = {} /\ armed = [x \in Lights \cup Buzzers |-> 0]
    /\ diverged = {} /\ commands = 0 /\ lost = 0 /\ rebinds = 0

-----------------------------------------------------------------------------
(* The banks                                                               *)

\* A light's slot; one that is claimed starts as osdp_led_init leaves it.
LedSlot(bank, k) ==
    IF k \in DOMAIN bank THEN bank[k] ELSE [state |-> LedInit, last |-> Black]

\* The state of light k after the first records of a command, in order.
LedStates(led, k, recs, now) ==
    LET after[i \in 0..Len(recs)] ==
            IF i = 0 THEN led
            ELSE IF recs[i].key = k THEN LedApply(after[i-1], recs[i], now)
            ELSE after[i-1]
    IN  after

\* The bank with every record of a command applied to its slot, if it has one.
LedsAfter(bank, slots, recs, now) ==
    [k \in slots |->
        [LedSlot(bank, k) EXCEPT !.state = LedStates(@, k, recs, now)[Len(recs)]]]

\* The lights a bank of max tracks after the first records of a command: each
\* has a slot or claims a free one, if there is one.
LedSlots(bank, max, recs) ==
    LET after[i \in 0..Len(recs)] ==
            IF i = 0 THEN DOMAIN bank
            ELSE IF Cardinality(after[i-1]) >= max THEN after[i-1]
            ELSE after[i-1] \cup {recs[i].key}
    IN  after

BuzzersAfter(bank, rec, now) ==
    [k \in DOMAIN bank \cup {rec.key} |->
        IF k = rec.key
        THEN [state |-> BuzApply(rec, now),
              last |-> IF k \in DOMAIN bank THEN bank[k].last ELSE FALSE]
        ELSE bank[k]]

\* pd_buz_slot, acu_buz_slot: a reader's buzzer has a slot or there is a free one.
BuzzerHasSlot(bank, max, k) == k \in DOMAIN bank \/ Cardinality(DOMAIN bank) < max

MutLedRefresh(end, bank) ==
    [k \in DOMAIN bank |-> [bank[k] EXCEPT !.last = LedColor(bank[k].state, Now)]]

\* What pd_led_refresh and acu_led_refresh report: nothing unless a callback
\* is bound.
LedRefresh(end, bank) ==
    IF end \notin bound THEN bank
    ELSE [k \in DOMAIN bank |-> [bank[k] EXCEPT !.last = LedColor(bank[k].state, Now)]]

\* pd_buz_refresh, acu_buz_refresh
BuzRefresh(end, bank) ==
    IF end \notin bound THEN bank
    ELSE [k \in DOMAIN bank |-> [bank[k] EXCEPT !.last = BuzSounding(bank[k].state, Now)]]

\* What the callbacks of an end have said once a bank is refreshed: one call
\* for each slot whose last value changed.
HeardLed(end, bank) ==
    LET new == LedRefresh(end, bank)
    IN  [k \in Lights |-> IF end \in bound /\ k \in DOMAIN bank /\ new[k].last # bank[k].last
                          THEN new[k].last ELSE heard[end].led[k]]

HeardBuz(end, bank) ==
    LET new == BuzRefresh(end, bank)
    IN  [k \in Buzzers |-> IF end \in bound /\ k \in DOMAIN bank /\ new[k].last # bank[k].last
                           THEN new[k].last ELSE heard[end].buz[k]]

\* osdp_pd_set_led_handler, osdp_pd_set_buzzer_handler and their twins bind or
\* detach the callbacks of an end; nothing is replayed.
SetHandlers(end) ==
    /\ rebinds < MaxRebinds /\ rebinds' = rebinds + 1
    /\ bound' = IF end \in bound THEN bound \ {end} ELSE bound \cup {end}
    /\ looked' = looked \ {end}
    /\ UNCHANGED <<time, pdVars, acuVars, heard, pending, next_seq, cmd, rpl, cache,
                   diverged, commands, lost>>

-----------------------------------------------------------------------------
(* The controller                                                          *)

\* osdp_led_decode into an array the size of the bank
AcuDecodes(c) == c.whole /\ (c.code = "LED" => Len(c.recs) <= AcuMaxLeds)

MutAcuObserveLed(c) ==
    LET bank == LedsAfter(acu_leds, LedSlots(acu_leds, AcuMaxLeds, c.recs)[Len(c.recs)],
                          Tail(c.recs), Now)
    IN  IF c.code = "LED" /\ AcuDecodes(c)
        THEN /\ acu_leds' = LedRefresh("acu", bank)
             /\ heard' = [heard EXCEPT !["acu"].led = HeardLed("acu", bank)]
             /\ UNCHANGED acu_buzzers
        ELSE UNCHANGED <<acu_leds, acu_buzzers, heard>>

\* acu_observe_led: a light the bank has no slot for is passed over.
AcuObserveLed(c) ==
    LET bank == LedsAfter(acu_leds, LedSlots(acu_leds, AcuMaxLeds, c.recs)[Len(c.recs)],
                          c.recs, Now)
    IN  IF c.code = "LED" /\ AcuDecodes(c)
        THEN /\ acu_leds' = LedRefresh("acu", bank)
             /\ heard' = [heard EXCEPT !["acu"].led = HeardLed("acu", bank)]
             /\ UNCHANGED acu_buzzers
        ELSE UNCHANGED <<acu_leds, acu_buzzers, heard>>

\* acu_observe_buzzer
AcuObserveBuzzer(c) ==
    LET k    == c.recs[1].key
        bank == IF BuzzerHasSlot(acu_buzzers, AcuMaxBuzzers, k)
                THEN BuzzersAfter(acu_buzzers, c.recs[1], Now) ELSE acu_buzzers
    IN  IF AcuDecodes(c)
        THEN /\ acu_buzzers' = BuzRefresh("acu", bank)
             /\ heard' = [heard EXCEPT !["acu"].buz = HeardBuz("acu", bank)]
             /\ UNCHANGED acu_leds
        ELSE UNCHANGED <<acu_leds, acu_buzzers, heard>>

\* The end of osdp_acu_send_command
AcuObserve(c) == IF c.code = "BUZ" THEN AcuObserveBuzzer(c) ELSE AcuObserveLed(c)

\* osdp_acu_send_command
AcuSend(c) ==
    /\ pending = None /\ commands < MaxCommands
    /\ commands' = commands + 1
    /\ pending' = c /\ cmd' = c
    /\ AcuObserve(c)
    /\ UNCHANGED <<time, pdVars, bound, next_seq, rpl, cache, looked, diverged, lost,
                   rebinds>>

Unanswered == pending # None /\ cmd = None /\ rpl = NoReply

\* The reply timeout, and the application sends the command again.
AcuRepeat ==
    /\ Unanswered
    /\ cmd' = pending
    /\ AcuObserve(pending)
    /\ UNCHANGED <<time, pdVars, bound, pending, next_seq, rpl, cache, looked, diverged,
                   commands, lost, rebinds>>

LightsOf(c) == IF c.code = "LED" THEN Keys(c) ELSE {}

\* ... or gives up; the number stays for the next command.
AcuGiveUp ==
    /\ Unanswered
    /\ pending' = None
    /\ diverged' = diverged \cup LightsOf(pending)
    /\ UNCHANGED <<time, pdVars, acuVars, bound, heard, next_seq, cmd, rpl, cache, looked,
                   commands, lost, rebinds>>

\* The lights whose permanent state both ends know again.
Restored(c) == {c.recs[i].key : i \in {j \in 1..Len(c.recs) : c.code = "LED" /\ c.recs[j].perm_set}}

\* osdp_acu_tick: a reply, if there is one (osdp_BUSY comes at sequence 0 and
\* is not taken for one), then both banks are refreshed.
AcuTick ==
    /\ rpl' = NoReply
    /\ IF rpl.is \in {"none", "BUSY"}
       THEN UNCHANGED <<pending, next_seq, diverged>>
       ELSE /\ pending' = None
            /\ next_seq' = IF next_seq >= 3 THEN 1 ELSE next_seq + 1
            /\ diverged' = IF rpl.applied /\ AcuDecodes(pending)
                           THEN diverged \ Restored(pending)
                           ELSE diverged \cup LightsOf(pending)
    /\ acu_leds' = LedRefresh("acu", acu_leds)
    /\ acu_buzzers' = BuzRefresh("acu", acu_buzzers)
    /\ heard' = [heard EXCEPT !["acu"] = [led |-> HeardLed("acu", acu_leds),
                                          buz |-> HeardBuz("acu", acu_buzzers)]]
    /\ looked' = looked \cup {"acu"}
    /\ UNCHANGED <<time, pdVars, bound, cmd, cache, commands, lost, rebinds>>

-----------------------------------------------------------------------------
(* The PD                                                                  *)

MutBankCanFit(recs) == recs[1].key \in DOMAIN pd_leds \/ Cardinality(DOMAIN pd_leds) < PdMaxLeds

\* pd_led_bank_can_fit: only lights that are not tracked yet need a slot, and
\* one named twice needs one slot.
BankCanFit(recs) ==
    Cardinality({recs[i].key : i \in 1..Len(recs)} \ DOMAIN pd_leds)
        <= PdMaxLeds - Cardinality(DOMAIN pd_leds)

\* How many records osdp_pd_internal_observe_command applies before pd_led_slot
\* has no slot for the next one.
LedRecordsThatFit(recs) ==
    Max({n \in 0..Len(recs) :
            Cardinality(DOMAIN pd_leds \cup {recs[i].key : i \in 1..n}) <= PdMaxLeds})

\* The records a command applies.
Applied(c) ==
    IF /\ c.whole
       /\ IF c.code = "LED" THEN BankCanFit(c.recs)
                            ELSE BuzzerHasSlot(pd_buzzers, PdMaxBuzzers, c.recs[1].key)
    THEN IF c.code = "LED" THEN SubSeq(c.recs, 1, LedRecordsThatFit(c.recs)) ELSE c.recs
    ELSE <<>>

\* What osdp_pd_internal_observe_command returns.
Observed(c) ==
    IF ~c.whole THEN "BAD_PAYLOAD" ELSE IF Applied(c) = c.recs THEN "OK" ELSE "INVALID_ARG"

PdLedsAfter(c) ==
    IF c.code = "LED" /\ Applied(c) # <<>>
    THEN LedsAfter(pd_leds, DOMAIN pd_leds \cup {r.key : r \in ToSet(Applied(c))},
                   Applied(c), Now)
    ELSE pd_leds

PdBuzzersAfter(c) ==
    IF c.code = "BUZ" /\ Applied(c) # <<>> THEN BuzzersAfter(pd_buzzers, c.recs[1], Now)
                                           ELSE pd_buzzers

\* The timers a command starts.
Arms(c) ==
    {r.key : r \in {q \in ToSet(Applied(c)) : c.code = "BUZ" \/ q.temp_code = "SET"}}

\* The reply: "not supported" from the application is no opinion, and what
\* observing the command returned stands instead (osdp_pd_internal_dispatch,
\* apply_app_status).
DispatchReply(c, v) ==
    LET status == IF v = "NOT_SUPPORTED" THEN Observed(c) ELSE v
    IN  [by |-> IF v = "NOT_SUPPORTED" THEN "pd" ELSE "app",
         applied |-> Observed(c) = "OK",
         is |-> CASE status = "OK"          -> "ACK"
                  [] status = "BAD_PAYLOAD" -> "NAK_LENGTH"
                  [] status = "INVALID_ARG" -> "NAK_RECORD"
                  [] status = "BUSY"        -> "BUSY"
                  [] OTHER                  -> "DROPPED"]

\* The tail of osdp_pd_tick, with the banks as the commands left them.
PdRefresh(leds, buzzers) ==
    /\ pd_leds' = LedRefresh("pd", leds)
    /\ pd_buzzers' = BuzRefresh("pd", buzzers)
    /\ heard' = [heard EXCEPT !["pd"] = [led |-> HeardLed("pd", leds),
                                         buz |-> HeardBuz("pd", buzzers)]]
    /\ looked' = looked \cup {"pd"}

Sent(r) == IF r.is = "DROPPED" THEN NoReply ELSE r

\* osdp_pd_tick without a command
PdTick ==
    /\ cmd = None
    /\ PdRefresh(pd_leds, pd_buzzers)
    /\ UNCHANGED <<time, armed, acuVars, bound, pending, next_seq, cmd, rpl, cache, diverged,
                   commands, lost, rebinds>>

\* is_retransmit: the command it carried out last, under the same number.
IsRetransmit == next_seq # 0 /\ cache.cmd = cmd /\ cache.sqn = next_seq

\* ... with a command it has answered before
PdRetransmit ==
    /\ cmd # None /\ IsRetransmit /\ rpl = NoReply
    /\ cmd' = None /\ rpl' = Sent(cache.rpl)
    /\ PdRefresh(pd_leds, pd_buzzers)
    /\ UNCHANGED <<time, armed, acuVars, bound, pending, next_seq, cache, diverged, commands,
                   lost, rebinds>>

\* ... with a new one
PdCommand(v) ==
    LET r == DispatchReply(cmd, v)
    IN  /\ cmd # None /\ ~IsRetransmit /\ rpl = NoReply
        /\ cmd' = None
        /\ rpl' = Sent(r)
        /\ cache' = IF r.is = "BUSY" THEN NoCache
                    ELSE [cmd |-> cmd, sqn |-> next_seq, rpl |-> r]
        /\ PdRefresh(PdLedsAfter(cmd), PdBuzzersAfter(cmd))
        /\ armed' = [x \in DOMAIN armed |-> IF x \in Arms(cmd) THEN time ELSE armed[x]]
        /\ UNCHANGED <<time, acuVars, bound, pending, next_seq, diverged, commands, lost,
                       rebinds>>

-----------------------------------------------------------------------------
Lose ==
    /\ lost < MaxLost
    /\ \/ cmd # None /\ cmd' = None /\ UNCHANGED rpl
       \/ rpl # NoReply /\ rpl' = NoReply /\ UNCHANGED cmd
    /\ lost' = lost + 1
    /\ UNCHANGED <<time, pdVars, acuVars, bound, heard, pending, next_seq, cache, looked,
                   diverged, commands, rebinds>>

Clock ==
    /\ time < Horizon
    /\ time' = time + 1
    /\ looked' = {}
    /\ UNCHANGED <<pdVars, acuVars, bound, heard, pending, next_seq, cmd, rpl, cache,
                   diverged, commands, lost, rebinds>>

ReaderNext ==
    \/ \E c \in Commands : AcuSend(c)
    \/ AcuRepeat
    \/ AcuGiveUp
    \/ AcuTick
    \/ PdTick
    \/ PdRetransmit
    \/ \E v \in Verdicts : PdCommand(v)
    \/ \E end \in {"pd", "acu"} : SetHandlers(end)
    \/ Lose
    \/ Clock

ReaderSpec == ReaderInit /\ [][ReaderNext]_readerVars

-----------------------------------------------------------------------------
(* Properties                                                              *)

\* An application that only listens to its callbacks knows what is shown: after
\* a tick, what it last heard of every light and buzzer is what a query would
\* return, whatever was sent, timed out, expired or was rebound before.
HeardIsShown ==
    \A end \in looked \cap bound :
        LET leds    == IF end = "pd" THEN pd_leds ELSE acu_leds
            buzzers == IF end = "pd" THEN pd_buzzers ELSE acu_buzzers
        IN  /\ \A k \in Lights : heard[end].led[k] =
                    IF k \in DOMAIN leds THEN LedColor(leds[k].state, Now) ELSE Black
            /\ \A k \in Buzzers : heard[end].buz[k] =
                    (k \in DOMAIN buzzers /\ BuzSounding(buzzers[k].state, Now))

\* The light k shows its temporary colour from when it was set until its time has
\* really passed, and the permanent one after that.
LightRunsOut(k) ==
    LET led == pd_leds[k].state
    IN  led.temp_active =>
            LedColor(led, Now) =
                IF time - armed[k] < led.temp_duration
                THEN FlashColor(led.temporary, time - armed[k])
                ELSE FlashColor(led.permanent, Now)

\* The finite pattern of buzzer k ends and stays ended.
BuzzerRunsOut(k) ==
    LET buz == pd_buzzers[k].state
    IN  (buz.count > 0 /\ time - armed[k] >= buz.count * (buz.on + buz.off))
            => ~BuzSounding(buz, Now)

\* For one turn of the clock from the command on, also where the clock turns over
\* in between, a temporary light shows for its time and no longer, and a finite
\* buzzer pattern ends and stays ended.  Not for good: osdp_led_color leaves
\* temp_active set, and after a full turn the elapsed time starts from 0 again.
TimersRunOut ==
    /\ \A k \in DOMAIN pd_leds : time - armed[k] < Turn => LightRunsOut(k)
    /\ \A k \in DOMAIN pd_buzzers : time - armed[k] < Turn => BuzzerRunsOut(k)

\* Where the PD answers for itself, an ACK means that every light or buzzer of
\* the command is tracked from now on, and a NAK that nothing of it was done.
AckIsApplied ==
    [][(cmd # None /\ rpl = NoReply /\ rpl'.by = "pd" /\ ~IsRetransmit)
        => /\ rpl'.is = "ACK" => Keys(cmd) \subseteq DOMAIN pd_leds' \cup DOMAIN pd_buzzers'
           /\ rpl'.is # "ACK" =>
                /\ DOMAIN pd_leds' = DOMAIN pd_leds /\ DOMAIN pd_buzzers' = DOMAIN pd_buzzers
                /\ \A k \in DOMAIN pd_leds : pd_leds'[k].state = pd_leds[k].state
                /\ \A k \in DOMAIN pd_buzzers : pd_buzzers'[k].state = pd_buzzers[k].state]_readerVars

\* Between commands the controller's mirror and the PD hold the same permanent
\* state for every light both of them track, however often a command or its
\* reply was lost and repeated, except for a light of a command that was given
\* up, refused or too long for the mirror.
MirrorAgrees ==
    pending = None =>
        \A k \in (DOMAIN pd_leds \cap DOMAIN acu_leds) \ diverged :
            acu_leds[k].state.permanent = pd_leds[k].state.permanent
=============================================================================
