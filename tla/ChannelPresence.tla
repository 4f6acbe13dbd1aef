--------------------------- MODULE ChannelPresence ---------------------------
(***************************************************************************)
(* The presence of users on one channel as the Go service keeps it in      *)
(* Redis: trackChannelPresence, called by every connection's handler when  *)
(* it has registered with the hub and when its readPump ends.  Each Redis  *)
(* command is atomic and is one step here; the calls of several            *)
(* connections interleave between the commands.  A command whose answer    *)
(* does not come is tried again by the client library, or given up; Redis  *)
(* may have executed it, may never do so, or may do so later.              *)
(***************************************************************************)
EXTENDS Naturals, FiniteSets

CONSTANTS Conns,     \* WebSocket connections to the channel
          Users,     \* their users; a user may have several connections
          UserOf,    \* the user of each connection
          MaxLate    \* bound: commands under way at a time whose senders wait no more

ASSUME PresenceAssumption == UserOf \in [Conns -> Users] /\ MaxLate \in Nat

VARIABLES
    pc,        \* program point of each connection's handler
    presence,  \* the set channel_presence:<channel>; an empty set has no key
    active,    \* the channel is in the set active_channels
    late,      \* commands under way whose senders no longer wait for them
    \* history
    failed,    \* connections one of whose commands has failed
    owing,     \* connections that are gone, or came late, and whose entries nobody has removed since
    disturbed  \* connections whose entries another's departure may have taken away

ghosts == <<failed, owing, disturbed>>
vars == <<pc, presence, active, late, ghosts>>

\* The points at which a connection waits for a command that changes Redis.
Commands == {"addUser", "addActive", "removeUser", "deleteKey", "removeActive"}
Points == {"new", "addUser", "addActive", "online",
           "removeUser", "count", "deleteKey", "removeActive", "done"}

TypeOK ==
    /\ pc \in [Conns -> Points]
    /\ presence \in SUBSET Users
    /\ active \in BOOLEAN
    /\ late \in SUBSET (Conns \X Commands)
    /\ failed \in SUBSET Conns
    /\ owing \in SUBSET Conns
    /\ disturbed \in SUBSET Conns

Init ==
    /\ pc = [c \in Conns |-> "new"]
    /\ presence = {}
    /\ active = FALSE
    /\ late = {}
    /\ failed = {}
    /\ owing = {}
    /\ disturbed = {}

Goto(c, point) == pc' = [pc EXCEPT ![c] = point]

\* Redis will still execute such a command, or may.
UnderWay(command) == \E c \in Conns : pc[c] = command \/ <<c, command>> \in late

-----------------------------------------------------------------------------
(* The commands, when Redis executes them                                  *)

\* SADD of the user.  An entry added while somebody is about to delete the key
\* will go with it.
AddsUser(c) ==
    /\ presence' = presence \cup {UserOf[c]}
    /\ disturbed' = disturbed \cup {d \in {c} : UnderWay("deleteKey")}
    /\ UNCHANGED active

\* SADD of the channel, and likewise.
AddsActive(c) ==
    /\ active' = TRUE
    /\ disturbed' = disturbed \cup
            {d \in {c} : UnderWay("deleteKey") \/ UnderWay("removeActive")}
    /\ UNCHANGED <<presence, owing>>

\* SREM of the user.  The entry is the user's, and so is gone for the user's
\* other connections too.
RemovesUser(c) ==
    /\ presence' = presence \ {UserOf[c]}
    /\ owing' = {d \in owing : UserOf[d] # UserOf[c]}
    /\ disturbed' = disturbed \cup
            {d \in Conns \ {c} : UserOf[d] = UserOf[c] /\ pc[d] \in {"addActive", "online"}}
    /\ UNCHANGED active

\* DEL of the key, whatever it holds by now.
DeletesKey ==
    /\ presence' = {}
    /\ owing' = {}
    /\ UNCHANGED <<active, disturbed>>

\* SREM of the channel.
RemovesActive ==
    /\ active' = FALSE
    /\ UNCHANGED <<presence, owing, disturbed>>

-----------------------------------------------------------------------------
(* trackChannelPresence(..., true)                                         *)

\* The connection has been registered with the hub.
Connect(c) ==
    /\ pc[c] = "new"
    /\ Goto(c, "addUser")
    /\ UNCHANGED <<presence, active, late, ghosts>>

\* Mutant: the connection is listed, not its user.
AddUserByConn(c) ==
    /\ pc[c] = "addUser"
    /\ presence' = presence \cup {c}
    /\ Goto(c, "addActive")
    /\ UNCHANGED <<active, late, ghosts>>

AddUser(c) ==
    /\ pc[c] = "addUser"
    /\ AddsUser(c)
    /\ Goto(c, "addActive")
    /\ UNCHANGED <<late, failed, owing>>

AddActive(c) ==
    /\ pc[c] = "addActive"
    /\ AddsActive(c)
    /\ Goto(c, "online")
    /\ UNCHANGED <<late, failed>>

-----------------------------------------------------------------------------
(* trackChannelPresence(..., false)                                        *)

\* readPump ends.
Disconnect(c) ==
    /\ pc[c] = "online"
    /\ Goto(c, "removeUser")
    /\ UNCHANGED <<presence, active, late, ghosts>>

\* Mutant: the user is not removed, only counted.
RemoveUserForgotten(c) ==
    /\ pc[c] = "removeUser"
    /\ Goto(c, "count")
    /\ UNCHANGED <<presence, active, late, ghosts>>

RemoveUser(c) ==
    /\ pc[c] = "removeUser"
    /\ RemovesUser(c)
    /\ Goto(c, "count")
    /\ UNCHANGED <<late, failed>>

\* Mutant: the count is taken before the removal, so the last one out sees 1.
CountOffByOne(c) ==
    /\ pc[c] = "count"
    /\ Goto(c, IF Cardinality(presence \cup {UserOf[c]}) = 0 THEN "deleteKey" ELSE "done")
    /\ UNCHANGED <<presence, active, late, ghosts>>

\* Mutant: the comparison is with one, not zero.
CountUpToOne(c) ==
    /\ pc[c] = "count"
    /\ Goto(c, IF Cardinality(presence) <= 1 THEN "deleteKey" ELSE "done")
    /\ UNCHANGED <<presence, active, late, ghosts>>

CountUsers(c) ==
    /\ pc[c] = "count"
    /\ Goto(c, IF Cardinality(presence) = 0 THEN "deleteKey" ELSE "done")
    /\ UNCHANGED <<presence, active, late, ghosts>>

\* The count was zero then; the key is deleted now.
DeleteKey(c) ==
    /\ pc[c] = "deleteKey"
    /\ DeletesKey
    /\ Goto(c, "removeActive")
    /\ UNCHANGED <<late, failed>>

RemoveActive(c) ==
    /\ pc[c] = "removeActive"
    /\ RemovesActive
    /\ Goto(c, "done")
    /\ UNCHANGED <<late, failed>>

-----------------------------------------------------------------------------
(* Errors                                                                  *)

\* No answer comes to a command; the client library sends it again, while the
\* first one is still on its way.
CommandLost(c) ==
    /\ pc[c] \in Commands /\ Cardinality(late) < MaxLate
    /\ late' = late \cup {<<c, pc[c]>>}
    /\ failed' = failed \cup {c}
    /\ UNCHANGED <<pc, presence, active, owing, disturbed>>

\* Redis executes it after all, whatever has happened since.
LateCommand(c) ==
    \E command \in Commands :
        /\ <<c, command>> \in late
        /\ late' = late \ {<<c, command>>}
        /\ \/ command = "addUser" /\ AddsUser(c) /\ owing' = owing \cup {c}
           \/ command = "addActive" /\ AddsActive(c)
           \/ command = "removeUser" /\ RemovesUser(c)
           \/ command = "deleteKey" /\ DeletesKey
           \/ command = "removeActive" /\ RemovesActive
        /\ UNCHANGED <<pc, failed>>

\* The command has failed: trackChannelPresence logs it and returns.
CommandFails(c) ==
    /\ \/ pc[c] \in {"addUser", "addActive"} /\ Goto(c, "online")
       \/ pc[c] \in {"removeUser", "count", "deleteKey", "removeActive"} /\ Goto(c, "done")
    /\ failed' = failed \cup {c}
    /\ owing' = owing \cup {d \in {c} : pc[d] = "removeUser"}
    /\ UNCHANGED <<presence, active, late, disturbed>>

\* The process dies.  Its connections are gone without their deferred calls;
\* Redis keeps what it has, and nothing clears it when the service is back.
Crash ==
    /\ \E c \in Conns : pc[c] \notin {"new", "done"}
    /\ pc' = [c \in Conns |-> IF pc[c] = "new" THEN "new" ELSE "done"]
    /\ failed' = failed \cup {c \in Conns : pc[c] \notin {"new", "done"}}
    /\ owing' = owing \cup {c \in Conns : pc[c] \in {"addActive", "online", "removeUser"}}
    /\ UNCHANGED <<presence, active, late, disturbed>>

Track(c) ==
    \/ Connect(c) \/ AddUser(c) \/ AddActive(c) \/ Disconnect(c)
    \/ RemoveUser(c) \/ CountUsers(c) \/ DeleteKey(c) \/ RemoveActive(c)
    \/ CommandLost(c) \/ LateCommand(c) \/ CommandFails(c)

AllGone == (\A c \in Conns : pc[c] = "done") /\ UNCHANGED vars

Next == (\E c \in Conns : Track(c)) \/ Crash \/ AllGone

Spec == Init /\ [][Next]_vars

-----------------------------------------------------------------------------
(* Properties                                                              *)

\* A user is listed only because of a connection of theirs that has been added
\* and not removed yet; or because one died or failed before its removal, or its
\* addition came late.  Such a ghost lasts until another connection of the user
\* leaves in an orderly way, or the key is deleted, and no orderly disconnect
\* leaves one behind, whatever other connections do.
NoGhost ==
    \A u \in presence : \E c \in Conns :
        UserOf[c] = u /\ (pc[c] \in {"addActive", "online", "removeUser"} \/ c \in owing)

\* When the last connection is gone and no command has failed, nothing is left
\* in Redis: neither a user nor the channel's mark, although the count, the
\* deletion and the removal of the mark are separate commands and a join may
\* come between any two of them.
LastOneOut ==
    (failed = {} /\ \A c \in Conns : pc[c] \in {"new", "done"}) => presence = {} /\ ~active

\* Whoever is online, and none of whose own commands has failed, is listed and
\* the channel marked, however many others have left, except in the three cases
\* the code leaves open: the removal for another connection of the same user has
\* been executed, be it late or answered by an error; the user was added when
\* another's count had come out as zero and the deletion of the key was still
\* to come; the mark was set when its removal was still to come.
OnlineIsListed ==
    \A c \in Conns :
        pc[c] = "online" /\ c \notin failed \cup disturbed => UserOf[c] \in presence /\ active
=============================================================================
