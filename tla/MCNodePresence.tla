--------------------------- MODULE MCNodePresence ---------------------------
(***************************************************************************)
(* Two connections, the second of which may come after the first or beside *)
(* it, one more login of either as either user, and one direct message.    *)
(***************************************************************************)
EXTENDS NodePresence, TLC

CONSTANTS u1, u2, s1, s2, l0, l1

MCFrom == "m1" :> u2
MCTo == "m1" :> u1

\* The states of Spec in which s1 has logged in as u1, and nobody, s2 or s1 again as u2,
\* and been told so (the login_me events that led there are not counted).
Later ==
    /\ entry \in {u1 :> s1 @@ u2 :> x : x \in {s1, s2, None}} /\ latest = entry
    /\ sock = [s \in Sockets |-> IF s = s1 \/ entry[u2] = s2 THEN "connected" ELSE "new"]
    /\ login = [l \in Logins |-> IF l = l0 THEN "done" ELSE "idle"]
    /\ leave = [s \in Sockets |-> "idle"]
    /\ seek = [s \in Sockets |-> {}] /\ had = [s \in Sockets |-> {}]
    /\ keys = [h \in Handlers |-> {}] /\ list = [h \in Handlers |-> {}] /\ shown = Online
    /\ send = [m \in Messages |-> NotSent] /\ received = {}
    /\ raced = {} /\ lapsed = {} /\ botched = {}
    /\ reader = <<l0, "login">> /\ inOrder = TRUE /\ blurred = FALSE /\ faults = 0
    /\ steady = [m \in Messages |-> {}] /\ misread = {}

MCSpec == Later /\ [][Next]_vars

=============================================================================
