-------------------------------- MODULE Rpc ---------------------------------
(***************************************************************************)
(* What the two ends together promise the application of the controller:   *)
(* a command is carried out at most once, and an acknowledgement that is   *)
(* handed to the application is the acknowledgement of a command that was  *)
(* carried out.  Nothing here knows of frames, sequence numbers, timeouts, *)
(* retransmits or Secure Channel.                                          *)
(***************************************************************************)
EXTENDS Naturals

CONSTANT MaxIds         \* commands the application issues at most

VARIABLES
    issued,             \* commands 1..issued have been issued
    done,               \* done[i]: how often i was carried out
    exempt,             \* commands the promise does not cover
    confirmed           \* the last command reported acknowledged, or 0

rpcVars == <<issued, done, exempt, confirmed>>

Issue == issued < MaxIds /\ issued' = issued + 1 /\ UNCHANGED <<done, confirmed>>

\* A command is carried out once; again only if it is exempt.
CarryOut(i) ==
    /\ i <= issued
    /\ done[i] = 0 \/ i \in exempt'
    /\ done' = [done EXCEPT ![i] = @ + 1]
    /\ UNCHANGED <<issued, confirmed>>

Confirm(i) ==
    /\ done[i] > 0
    /\ confirmed' = i
    /\ UNCHANGED <<issued, done>>

\* The acknowledged command is superseded by another outcome.
Supersede == confirmed' = 0 /\ UNCHANGED <<issued, done>>

RpcInit ==
    /\ issued = 0
    /\ done = [i \in 1..MaxIds |-> 0]
    /\ exempt = {}
    /\ confirmed = 0

\* Commands only ever become exempt.
RpcNext ==
    /\ exempt \subseteq exempt'
    /\ \/ Issue
       \/ \E i \in 1..MaxIds : CarryOut(i) \/ Confirm(i)
       \/ Supersede
       \/ UNCHANGED <<issued, done, confirmed>>

RpcSpec == RpcInit /\ [][RpcNext]_rpcVars
=============================================================================
