------------------------------ MODULE MCReader ------------------------------
(* Instances of Reader for TLC: three lights and two buzzers.              *)
EXTENDS Reader

Lit(k, color) ==
    [key |-> k, perm_set |-> TRUE, perm |-> Steady(color), temp_code |-> "NOP",
     temp |-> Steady(Black), timer |-> 0]

Blink(k, timer) ==
    [key |-> k, perm_set |-> FALSE, perm |-> Steady(Black), temp_code |-> "SET",
     temp |-> Flash(2, Black, 1, 1), timer |-> timer]

Cancel(k) == [Blink(k, 0) EXCEPT !.temp_code = "CANCEL"]

Beep(k, count) == [key |-> k, tone |-> 2, on |-> 1, off |-> 1, count |-> count]

Silence(k) == [Beep(k, 0) EXCEPT !.tone = ToneOff]

Led(recs) == [code |-> "LED", recs |-> recs, whole |-> TRUE]
Buz(rec) == [code |-> "BUZ", recs |-> <<rec>>, whole |-> TRUE]

\* A command for each way a bank can be filled, a timer started and stopped,
\* and a payload that is not a whole number of records.
Various == {
    Led(<<Blink("k1", 2), Lit("k2", 1)>>),
    Led(<<Cancel("k1"), Lit("k1", 1)>>),
    Led(<<Lit("k1", 3), Lit("k3", 3)>>),
    Led(<<Lit("k1", 2), Lit("k2", 2), Lit("k3", 2)>>),
    [Led(<<Lit("k1", 1)>>) EXCEPT !.whole = FALSE],
    Buz(Beep("r1", 1)), Buz(Silence("r2"))}
=============================================================================
