--------------------------- MODULE MCConnRegistry ---------------------------
(* Instances of ConnRegistry for TLC.                                      *)
EXTENDS ConnRegistry

CONSTANTS c1, c2, c3, general, random

\* Everybody on one channel.
OneChannel == [c \in Conns |-> general]

\* Two connections on one channel and one on another.
TwoChannels == [c \in Conns |-> IF c = c3 THEN random ELSE general]
=============================================================================
