------------------------------ MODULE MCEvents ------------------------------
(* Constants of the runs over Events.                                      *)
EXTENDS Events
=============================================================================
