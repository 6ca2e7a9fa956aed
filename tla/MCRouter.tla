------------------------------ MODULE MCRouter ------------------------------
(* Small instances of Router for TLC. *)
EXTENDS Router, TLC

CONSTANTS c1, c2, a1, a2, t1, t2, x1, x2

MCUuidOf == [p \in Parties |-> p]
MCOneTc == [p \in Parties |-> <<t1>>]
MCTwoTcs == [p \in Parties |-> IF p = c1 THEN <<t1, t2>> ELSE <<t1>>]
MCNoUpdate == [c \in Cds |-> <<t1>>]
\* c1 loses t1 and gains t2.
MCSwap == [c \in Cds |-> <<t2>>]
MCCaller == [x \in Calls |-> c1]
MCCallTc == [x \in Calls |-> t1]
=============================================================================
