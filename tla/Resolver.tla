------------------------------ MODULE Resolver ------------------------------
(***************************************************************************)
(* What a reader's LED shows and whether its buzzer sounds at a given time *)
(* (src/core/src/shared/led_state.c, buz_state.c), as operators.  Times    *)
(* are in units of 100 ms on a clock that turns over at Turn.              *)
(***************************************************************************)
EXTENDS Naturals

CONSTANT Turn      \* where the clock turns over: 2^32 ms

ASSUME TurnAssumption == Turn \in Nat \ {0}

Black == 0         \* OSDP_LED_BLACK

\* Unsigned subtraction of two readings of the clock.
Elapsed(now, then) == (now + Turn - then) % Turn

-----------------------------------------------------------------------------
(* osdp_led_t                                                              *)

\* osdp_led_flash_t
Flash(on_color, off_color, on, off) ==
    [on_color |-> on_color, off_color |-> off_color, on |-> on, off |-> off]

Steady(color) == Flash(color, Black, 0, 0)

\* osdp_led_init
LedInit ==
    [permanent |-> Steady(Black), temporary |-> Steady(Black), temp_active |-> FALSE,
     temp_started |-> 0, temp_duration |-> 0]

\* osdp_led_apply of a record [perm_set, perm, temp_code, temp, timer]
LedApply(led, rec, now) ==
    LET p == IF rec.perm_set THEN [led EXCEPT !.permanent = rec.perm] ELSE led
    IN  CASE rec.temp_code = "CANCEL" -> [p EXCEPT !.temp_active = FALSE]
          [] rec.temp_code = "SET"    -> [p EXCEPT !.temporary = rec.temp,
                                                   !.temp_active = TRUE,
                                                   !.temp_started = now,
                                                   !.temp_duration = rec.timer]
          [] OTHER                    -> p

\* flash_color
FlashColor(f, elapsed) ==
    IF f.on + f.off = 0 THEN f.on_color
    ELSE IF elapsed % (f.on + f.off) < f.on THEN f.on_color ELSE f.off_color

MutLedColor(led, now) ==
    IF led.temp_active /\ now < led.temp_started + led.temp_duration
    THEN FlashColor(led.temporary, Elapsed(now, led.temp_started))
    ELSE FlashColor(led.permanent, now)

\* osdp_led_color
LedColor(led, now) ==
    IF led.temp_active /\ Elapsed(now, led.temp_started) < led.temp_duration
    THEN FlashColor(led.temporary, Elapsed(now, led.temp_started))
    ELSE FlashColor(led.permanent, now)

-----------------------------------------------------------------------------
(* osdp_buz_t                                                              *)

\* osdp_buz_init
BuzInit == [tone |-> 0, on |-> 0, off |-> 0, count |-> 0, started |-> 0, active |-> FALSE]

ToneOff == 1       \* OSDP_BUZ_TONE_OFF

\* osdp_buz_apply
BuzApply(cmd, now) ==
    [tone |-> cmd.tone, on |-> cmd.on, off |-> cmd.off, count |-> cmd.count,
     started |-> now, active |-> cmd.tone # ToneOff]

\* osdp_buz_sounding
BuzSounding(buz, now) ==
    LET cycle   == buz.on + buz.off
        elapsed == Elapsed(now, buz.started)
    IN  /\ buz.active /\ buz.tone # ToneOff
        /\ cycle # 0
        /\ buz.count > 0 => elapsed < buz.count * cycle
        /\ elapsed % cycle < buz.on
=============================================================================
