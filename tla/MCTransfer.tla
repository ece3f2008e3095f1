----------------------------- MODULE MCTransfer -----------------------------
(* Constants of the runs over Transfer.                                    *)
EXTENDS Transfer

Msg(kind, tag, len) == [kind |-> kind, tag |-> tag, len |-> len]

\* Two applications that send messages of the same length, under different
\* vendor codes and file types; one of them also sends files that do not fit,
\* the other one messages of a single fragment.
TwoApps == 1..2
Mixed == <<{Msg("mfg", 1, 3), Msg("file", 1, 2), Msg("file", 1, 4)},
           {Msg("mfg", 2, 3), Msg("mfg", 2, 1), Msg("file", 2, 2)}>>
=============================================================================
