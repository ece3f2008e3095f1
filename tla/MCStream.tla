------------------------------ MODULE MCStream ------------------------------
(* Constants of the runs over Stream.                                      *)
EXTENDS Stream

\* A short frame with a checksum, and a longer one whose payload holds the
\* header of a frame that promises a CRC it has no room for.
Short == <<9, 4, 0, 7>>
Nested == <<9, 7, 0, 9, 4, 1, 7>>

Both == {Short, Nested}
=============================================================================
