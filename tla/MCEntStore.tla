----------------------------- MODULE MCEntStore -----------------------------
EXTENDS EntStore

CONSTANTS u1, u2, u3, c1, c2, k1, k2, g1, g2

McIds == [User |-> {u1, u2, u3}, Channel |-> {c1, c2}, ChannelMember |-> {k1, k2},
          ChannelMessage |-> {g1, g2}]

\* A name, an invitation code or an author's name may be empty, a status may be none.
McValues == [name |-> {"", "a", "b"}, type |-> {"a"}, invite_code |-> {"", "a", "b"}, password |-> {"a"},
             created_at |-> {"a"}, joined_at |-> {"a"}, status |-> {"pending", "x"},
             user_name |-> {"", "a"}, body |-> {"a"}, media_url |-> {"a"},
             owner_id |-> {u1, u2}, user_id |-> {u1, u2}, channel_id |-> {c1}]

McMaxCalls == [create |-> 3, update |-> 2, updateOne |-> 2]

\* Reached from Init: u1 owns c1 and wrote in it, u2 is a member.
Populated ==
    /\ tab = [User |-> (u1 :> [name |-> "a", password |-> "a", created_at |-> "now"])
                        @@ (u2 :> [name |-> "b", password |-> "a", created_at |-> "now"]),
              Channel |-> (c1 :> [name |-> "a", type |-> "open", invite_code |-> "a",
                                  created_at |-> "now", owner_id |-> u1]),
              ChannelMember |-> (k1 :> [channel_id |-> c1, user_id |-> u2, joined_at |-> "now",
                                        status |-> "approved"]),
              ChannelMessage |-> (g1 :> [channel_id |-> c1, user_id |-> u1, user_name |-> "a",
                                         body |-> "a", media_url |-> None, created_at |-> "now"])]
    /\ build = None
    /\ reader = None
    /\ result = "ok"
    /\ sent = 0

MCSpec == Populated /\ [][Next]_vars
=============================================================================
