------------------------------- MODULE MCLink -------------------------------
(* Constants of the runs over Link.                                        *)
EXTENDS Link

CONSTANTS k1, k2

Poll == [code |-> "POLL", data |-> <<>>]
Id == [code |-> "ID", data |-> <<>>]
Out == [code |-> "OUT", data |-> <<>>]
Keyset == [code |-> "KEYSET", data |-> <<k2>>]
Comset == [code |-> "COMSET", data |-> <<2>>]

PollOut == {Poll, Out}
IdPoll == {Id, Poll}
IdOnly == {Id}
KeysetPoll == {Keyset, Poll}
ComsetOut == {Comset, Out}
=============================================================================
