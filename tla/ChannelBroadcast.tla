-------------------------- MODULE ChannelBroadcast --------------------------
(***************************************************************************)
(* What one channel of the Go service promises to the WebSocket            *)
(* connections attached to it, with no goroutine, queue or socket in       *)
(* sight.  The channel has one total order of messages, log.  A connection *)
(* joins it once, at the end of the order, and from then on it is handed   *)
(* the messages that follow, one by one and in that order, without a gap   *)
(* and without a repetition, up to the point where it leaves or is cut.    *)
(* Module Hub is shown to implement this one.                              *)
(***************************************************************************)
EXTENDS Naturals, Sequences

CONSTANTS Conns,      \* the WebSocket connections of the channel
          Messages    \* what they may send: records with a sender, from, and n, the
                      \* place of the message among those of its sender

VARIABLES log,        \* the channel's messages in the order they are fanned out
          joined,     \* the connections that have joined
          members,    \* those of them that have neither left nor been cut
          first,      \* first[c]: the length of log when c joined
          last,       \* last[c]: the prefix of log that c is entitled to ends here
          received    \* received[c]: what has reached the peer of c, in order

vars == <<log, joined, members, first, last, received>>

Init ==
    /\ log = <<>>
    /\ joined = {} /\ members = {}
    /\ first = [c \in Conns |-> 0]
    /\ last = [c \in Conns |-> 0]
    /\ received = [c \in Conns |-> <<>>]

\* A connection joins at the end of the order.
Join(c) ==
    /\ c \notin joined
    /\ joined' = joined \cup {c}
    /\ members' = members \cup {c}
    /\ first' = [first EXCEPT ![c] = Len(log)]
    /\ last' = [last EXCEPT ![c] = Len(log)]
    /\ UNCHANGED <<log, received>>

\* m is not older than, or the same as, a message its sender has in the order.
Newer(m) == \A i \in 1..Len(log) : log[i].from = m.from => log[i].n < m.n

\* m enters the order.  Every member is entitled to it, except those the
\* channel cuts off at this point: they get neither m nor anything later.
Post(m, cut) ==
    /\ Newer(m)
    /\ cut \subseteq members
    /\ log' = Append(log, m)
    /\ members' = members \ cut
    /\ last' = [c \in Conns |-> IF c \in members \ cut THEN Len(log) + 1 ELSE last[c]]
    /\ UNCHANGED <<joined, first, received>>

\* The next message c is entitled to reaches its peer.
Deliver(c) ==
    /\ first[c] + Len(received[c]) < last[c]
    /\ received' = [received EXCEPT ![c] = Append(@, log[first[c] + Len(received[c]) + 1])]
    /\ UNCHANGED <<log, joined, members, first, last>>

\* c leaves: it is entitled to nothing beyond what is in the order now.
Leave(c) ==
    /\ c \in members
    /\ members' = members \ {c}
    /\ UNCHANGED <<log, joined, first, last, received>>

Next ==
    \/ \E c \in Conns : Join(c) \/ Deliver(c) \/ Leave(c)
    \/ \E m \in Messages, cut \in SUBSET members : Post(m, cut)

Spec == Init /\ [][Next]_vars
=============================================================================
