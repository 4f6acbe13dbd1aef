--------------------------- MODULE MCMediaAssets ---------------------------
(***************************************************************************)
(* An instance of MediaAssets with two uploads.  Up to renaming of         *)
(* contents, names and uploads, the second one has the same URL, shares    *)
(* the content only, or shares nothing; and goes to either kind of chat.   *)
(***************************************************************************)
EXTENDS MediaAssets

CONSTANTS u1, u2, c1, c2, n1, n2

MCUpload(content, name, kind) == [pc |-> "idle", content |-> content, name |-> name, kind |-> kind]

MCInit ==
    /\ Init
    /\ upload[u1] = MCUpload(c1, n1, "dm")
    /\ upload[u2] \in {MCUpload(c1, n1, "dm"), MCUpload(c1, n1, "channel"),
                       MCUpload(c1, n2, "channel"), MCUpload(c2, n1, "channel")}

MCSpec == MCInit /\ [][Next]_vars /\ Fairness

=============================================================================
