--------------------------- MODULE MCChannelStore ---------------------------
(* Instances of ChannelStore for TLC. *)
EXTENDS ChannelStore, TLC

CONSTANTS owner, ann, r1, r2, r3

TwoUsers == {owner, ann}
TwoRequests == {r1, r2}
ThreeRequests == {r1, r2, r3}

\* Requests differ in nothing but their name.
RequestSymmetry == Permutations(ThreeRequests)

=============================================================================
