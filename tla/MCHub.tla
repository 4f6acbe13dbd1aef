------------------------------- MODULE MCHub --------------------------------
(* Instances of Hub for TLC.                                               *)
EXTENDS Hub, TLC

CONSTANTS c1, c2

TwoConns == {c1, c2}

TwoAndOne == [c \in Conns |-> IF c = c1 THEN 2 ELSE 1]
OneAndOne == [c \in Conns |-> 1]
=============================================================================
