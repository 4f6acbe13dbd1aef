-------------------------- MODULE MCChannelPresence -------------------------
(* An instance of ChannelPresence for TLC.                                 *)
EXTENDS ChannelPresence, TLC

CONSTANTS c1, c2, c3, ann, bob

\* Ann has two tabs open, Bob connects once.
TwoTabs == [c \in Conns |-> IF c \in {c1, c2} THEN ann ELSE bob]

\* Ann's connections are interchangeable.
Tabs == Permutations({c1, c2})
=============================================================================
