---------------------------- MODULE NodePresence ----------------------------
(***************************************************************************)
(* Who is online, and the delivery of direct messages, in the Node service *)
(* (backend/chat): the handlers of login_me, disconnect and send_message.  *)
(* Each runs up to its next await, where the others come in between.  The  *)
(* commands of one process go to Redis over one connection, in the order   *)
(* the handlers issue them, so that a command takes effect when it is      *)
(* issued; presence.js swallows an error of Redis, so that a command that  *)
(* took effect and was answered by an error is one that succeeded.         *)
(* join_channel, leave_channel and typing only pass packets on, and have   *)
(* no part here; nor have channel messages, which the browser never sends  *)
(* this way.                                                               *)
(***************************************************************************)
EXTENDS Naturals

CONSTANTS Users,
          Sockets,    \* bound: the Socket.IO connections, each used once
          Logins,     \* bound: the login_me events, each sent once
          Messages,   \* bound: the direct messages sent, each once,
          From, To,   \* in whose name and to whom
          MaxFaults,  \* bound: errors of Redis or Mongo, expiries and crashes
          None

ASSUME PresenceAssumption ==
    /\ None \notin Sockets \cup Users
    /\ From \in [Messages -> Users] /\ To \in [Messages -> Users]
    /\ MaxFaults \in Nat

VARIABLES
    sock,       \* the connections
    entry,      \* Redis online:<user>: the socket_id, or None when there is no key
    login,      \* the handlers of login_me
    leave,      \* the handlers of disconnect, one per connection
    seek,       \* the keys that getUserBySocketId has still to look at, or the one it found
    keys,       \* the keys that getOnlineUsers has still to get, for a handler
    list,       \* what it has got
    shown,      \* the last get_connected_users that was emitted
    send,       \* the handlers of send_message
    faults,     \* the faults so far
    received,   \* which connection has got which message
    \* history
    had,        \* the users whose entries named the connection when it was closed
    latest,     \* the connection whose login_me came last, for a user
    raced,      \* users whose entry was set between the look and the deletion of a disconnect
    lapsed,     \* users whose entry has expired, or could not be set
    botched,    \* connections whose disconnect met an error or a crash
    reader,     \* the handler that asked for the keys last
    inOrder,    \* its list is the one that was emitted last
    blurred,    \* since it asked an entry has expired, a reply was an error, or Node has crashed
    steady,     \* for a message: its recipient's connection, while listed and up since it was sent
    misread     \* messages whose recipient was taken for offline because of an error

presenceGhosts == <<had, latest, raced, lapsed, botched>>
leaveVars == <<leave, seek>>
listVars == <<keys, list, shown, reader, inOrder, blurred>>
sendVars == <<send, received, steady, misread>>
vars == <<sock, entry, login, leaveVars, faults, listVars, sendVars, presenceGhosts>>

Handlers == (Logins \X {"login"}) \cup (Sockets \X {"leave"})
SendPoints == {"idle", "save", "from", "emit", "done", "refused"}
SendTypes == [pc : SendPoints, targets : SUBSET Sockets]

TypeOK ==
    /\ sock \in [Sockets -> {"new", "connected", "gone"}]
    /\ entry \in [Users -> Sockets \cup {None}]
    /\ login \in [Logins -> {"idle", "keys", "list", "done"}]
    /\ leave \in [Sockets -> {"idle", "find", "delete", "keys", "list", "done"}]
    /\ seek \in [Sockets -> SUBSET Users] /\ had \in [Sockets -> SUBSET Users]
    /\ keys \in [Handlers -> SUBSET Users] /\ list \in [Handlers -> SUBSET Users]
    /\ shown \in SUBSET Users
    /\ send \in [Messages -> SendTypes]
    /\ received \in SUBSET (Messages \X Sockets)
    /\ latest \in [Users -> Sockets \cup {None}]
    /\ raced \in SUBSET Users /\ lapsed \in SUBSET Users /\ botched \in SUBSET Sockets
    /\ reader \in Handlers \cup {None} /\ inOrder \in BOOLEAN /\ blurred \in BOOLEAN
    /\ faults \in 0..MaxFaults
    /\ steady \in [Messages -> SUBSET Sockets] /\ misread \in SUBSET Messages

NotSent == [pc |-> "idle", targets |-> {}]

Init ==
    /\ sock = [s \in Sockets |-> "new"] /\ entry = [u \in Users |-> None]
    /\ login = [l \in Logins |-> "idle"] /\ leave = [s \in Sockets |-> "idle"]
    /\ seek = [s \in Sockets |-> {}] /\ had = [s \in Sockets |-> {}]
    /\ keys = [h \in Handlers |-> {}] /\ list = [h \in Handlers |-> {}] /\ shown = {}
    /\ send = [m \in Messages |-> NotSent] /\ received = {}
    /\ latest = [u \in Users |-> None] /\ raced = {} /\ lapsed = {} /\ botched = {}
    /\ reader = None /\ inOrder = TRUE /\ blurred = FALSE /\ faults = 0
    /\ steady = [m \in Messages |-> {}] /\ misread = {}

Online == {u \in Users : entry[u] # None}

\* The users whose entries name the connection.
Named(s) == {u \in Users : entry[u] = s}

Fault == faults < MaxFaults /\ faults' = faults + 1

\* A recipient's connection is steady as long as it is up and in the recipient's entry.
KeepSteady ==
    steady' = [m \in Messages |->
                  {s \in steady[m] : sock'[s] = "connected" /\ entry'[To[m]] = s}]

-----------------------------------------------------------------------------
(* login_me                                                                *)

Connect(s) ==
    /\ sock[s] = "new"
    /\ sock' = [sock EXCEPT ![s] = "connected"]
    /\ UNCHANGED <<faults, entry, login, leaveVars, listVars, sendVars, presenceGhosts>>

\* A disconnect has found the user's entry and is about to delete it.
Deleting(u) == \E x \in Sockets : leave[x] = "delete" /\ u \in seek[x]

\* A browser emits login_me whenever it is connected or its user changes, so that one
\* connection may log in repeatedly and as several users; setUserOnline writes the user's
\* entry, over whatever is there, and leaves those of the connection's other users.
LoginMe(l, s, u) ==
    /\ sock[s] = "connected" /\ login[l] = "idle"
    /\ login' = [login EXCEPT ![l] = "keys"]
    /\ latest' = [latest EXCEPT ![u] = s]
    /\ \/ /\ entry' = [entry EXCEPT ![u] = s]
          /\ lapsed' = lapsed \ {u}
          /\ raced' = IF Deleting(u) THEN raced \cup {u} ELSE raced \ {u}
          /\ UNCHANGED faults
       \/ /\ Fault
          /\ lapsed' = lapsed \cup {u}
          /\ UNCHANGED <<entry, raced>>
    /\ UNCHANGED <<sock, leaveVars, listVars, send, received, misread, had, botched>>
    /\ KeepSteady

\* The entry's 24 hours are over, although its user may still be there.
Expire(u) ==
    /\ entry[u] # None /\ Fault
    /\ entry' = [entry EXCEPT ![u] = None]
    /\ lapsed' = lapsed \cup {u}
    /\ blurred' = TRUE
    /\ UNCHANGED <<sock, login, leaveVars, keys, list, shown, reader, inOrder, send,
                   received, misread, had, latest, raced, botched>>
    /\ KeepSteady

-----------------------------------------------------------------------------
(* getOnlineUsers, and the emission of its list                            *)

Keys(h) ==
    /\ \/ keys' = [keys EXCEPT ![h] = Online] /\ blurred' = FALSE /\ UNCHANGED faults
       \/ keys' = [keys EXCEPT ![h] = {}] /\ blurred' = TRUE /\ Fault
    /\ reader' = h
    /\ UNCHANGED <<list, shown, inOrder>>

\* Mutant: a key that has gone is taken for a user.
GetNull(h) ==
    /\ keys[h] # {}
    /\ keys' = [keys EXCEPT ![h] = {}]
    /\ list' = [list EXCEPT ![h] = {IF u \in Online THEN u ELSE None : u \in keys[h]}]
    /\ UNCHANGED <<faults, shown, reader, inOrder, blurred>>

\* A key that has gone is passed over; after an error the list is empty.  The replies of
\* one list are taken together.
Get(h) ==
    /\ keys[h] # {}
    /\ keys' = [keys EXCEPT ![h] = {}]
    /\ \/ list' = [list EXCEPT ![h] = keys[h] \cap Online] /\ UNCHANGED <<faults, blurred>>
       \/ blurred' = (blurred \/ h = reader) /\ Fault /\ UNCHANGED list
    /\ UNCHANGED <<shown, reader, inOrder>>

\* io.emit of get_connected_users, to every browser.
Emit(h) ==
    /\ keys[h] = {}
    /\ shown' = list[h] /\ list' = [list EXCEPT ![h] = {}]
    /\ inOrder' = (h = reader)
    /\ UNCHANGED <<faults, keys, reader, blurred>>

LoginList(l) ==
    /\ \/ /\ login[l] = "keys" /\ Keys(<<l, "login">>)
          /\ login' = [login EXCEPT ![l] = "list"]
       \/ /\ login[l] = "list" /\ Get(<<l, "login">>)
          /\ UNCHANGED login
       \/ /\ login[l] = "list" /\ Emit(<<l, "login">>)
          /\ login' = [login EXCEPT ![l] = "done"]
    /\ UNCHANGED <<sock, entry, leaveVars, sendVars, presenceGhosts>>

LeaveList(s) ==
    /\ \/ /\ leave[s] = "keys" /\ Keys(<<s, "leave">>)
          /\ leave' = [leave EXCEPT ![s] = "list"]
       \/ /\ leave[s] = "list" /\ Get(<<s, "leave">>)
          /\ UNCHANGED leave
       \/ /\ leave[s] = "list" /\ Emit(<<s, "leave">>)
          /\ leave' = [leave EXCEPT ![s] = "done"]
    /\ UNCHANGED <<sock, entry, login, seek, sendVars, presenceGhosts>>

-----------------------------------------------------------------------------
(* disconnect                                                              *)

\* getUserBySocketId asks for the keys.
Disconnect(s) ==
    /\ sock[s] = "connected"
    /\ sock' = [sock EXCEPT ![s] = "gone"]
    /\ had' = [had EXCEPT ![s] = Named(s)]
    /\ \/ /\ leave' = [leave EXCEPT ![s] = IF Online = {} THEN "done" ELSE "find"]
          /\ seek' = [seek EXCEPT ![s] = Online]
          /\ UNCHANGED <<faults, botched>>
       \/ /\ Fault
          /\ leave' = [leave EXCEPT ![s] = "done"]
          /\ botched' = botched \cup {s}
          /\ UNCHANGED seek
    /\ UNCHANGED <<entry, login, listVars, send, received, misread, latest, raced, lapsed>>
    /\ KeepSteady

\* Mutant: the entry is taken for the connection's without a look at its socket_id.
FindAnyone(s) ==
    /\ leave[s] = "find"
    /\ \E u \in seek[s] : seek' = [seek EXCEPT ![s] = {u}]
    /\ leave' = [leave EXCEPT ![s] = "delete"]
    /\ UNCHANGED <<faults, sock, entry, login, listVars, sendVars, presenceGhosts>>

\* Its look at the entry of the next key, in Redis' order: the first one that names the
\* connection is all it looks for.
Find(s) ==
    /\ leave[s] = "find"
    /\ \/ \E u \in seek[s] :
             /\ seek' = [seek EXCEPT ![s] = IF entry[u] = s THEN {u} ELSE @ \ {u}]
             /\ leave' = [leave EXCEPT ![s] = CASE entry[u] = s -> "delete"
                                                [] entry[u] # s /\ seek[s] = {u} -> "done"
                                                [] OTHER -> "find"]
             /\ UNCHANGED <<faults, botched>>
       \/ /\ Fault
          /\ leave' = [leave EXCEPT ![s] = "done"]
          /\ seek' = [seek EXCEPT ![s] = {}]
          /\ botched' = botched \cup {s}
    /\ UNCHANGED <<sock, entry, login, listVars, sendVars, had, latest, raced, lapsed>>

\* Mutant: the entry is left until it expires.
DeleteLater(s) ==
    /\ leave[s] = "delete"
    /\ leave' = [leave EXCEPT ![s] = "keys"]
    /\ seek' = [seek EXCEPT ![s] = {}]
    /\ UNCHANGED <<faults, sock, entry, login, listVars, sendVars, presenceGhosts>>

\* The entries without that of the user the disconnect has found.
WithoutFound(s) == [u \in Users |-> IF u \in seek[s] THEN None ELSE entry[u]]

\* Mutant: the browsers are not told.
DeleteQuietly(s) ==
    /\ leave[s] = "delete"
    /\ entry' = WithoutFound(s)
    /\ leave' = [leave EXCEPT ![s] = "done"]
    /\ seek' = [seek EXCEPT ![s] = {}]
    /\ UNCHANGED <<faults, sock, login, listVars, send, received, misread, presenceGhosts>>
    /\ KeepSteady

\* setUserOffline deletes the user's entry, whoever's connection it names by now.
Delete(s) ==
    /\ leave[s] = "delete"
    /\ leave' = [leave EXCEPT ![s] = "keys"]
    /\ seek' = [seek EXCEPT ![s] = {}]
    /\ \/ /\ entry' = WithoutFound(s)
          /\ UNCHANGED <<faults, botched>>
       \/ /\ Fault
          /\ botched' = botched \cup {s}
          /\ UNCHANGED entry
    /\ UNCHANGED <<sock, login, listVars, send, received, misread, had, latest, raced, lapsed>>
    /\ KeepSteady

-----------------------------------------------------------------------------
(* send_message                                                            *)

\* Any connection may send in anybody's name; the recipient need not be online.
SendMessage(m) ==
    /\ send[m].pc = "idle"
    /\ \E s \in Sockets : sock[s] = "connected"
    /\ send' = [send EXCEPT ![m].pc = "save"]
    /\ steady' = [steady EXCEPT ![m] = {x \in Sockets : sock[x] = "connected" /\ entry[To[m]] = x}]
    /\ UNCHANGED <<faults, sock, entry, login, leaveVars, listVars, received, misread, presenceGhosts>>

\* getSocketId; None becomes no target.
SocketOf(u) == {entry[u]} \ {None}

\* Mutant: the recipient's connection is not asked for.
SaveMessageOnly(m) ==
    /\ send[m].pc = "save"
    /\ send' = [send EXCEPT ![m].pc = "from"]
    /\ UNCHANGED <<faults, sock, entry, login, leaveVars, listVars, received, steady, misread, presenceGhosts>>

\* The message is saved and the recipient's entry read, or one of the two answers with an
\* error: then the message is refused, or the recipient taken for offline.
SaveMessage(m) ==
    /\ send[m].pc = "save"
    /\ \/ /\ send' = [send EXCEPT ![m].pc = "from", ![m].targets = SocketOf(To[m])]
          /\ UNCHANGED <<faults, misread>>
       \/ /\ Fault
          /\ send' = [send EXCEPT ![m].pc = "refused"]
          /\ UNCHANGED misread
       \/ /\ Fault
          /\ send' = [send EXCEPT ![m].pc = "from"]
          /\ misread' = misread \cup {m}
    /\ UNCHANGED <<sock, entry, login, leaveVars, listVars, received, steady, presenceGhosts>>

\* The sender's entry; not found after an error.
LookUpSender(m) ==
    /\ send[m].pc = "from"
    /\ \/ /\ send' = [send EXCEPT ![m].pc = "emit",
                                  ![m].targets = @ \cup SocketOf(From[m])]
          /\ UNCHANGED faults
       \/ send' = [send EXCEPT ![m].pc = "emit"] /\ Fault
    /\ UNCHANGED <<sock, entry, login, leaveVars, listVars, received, steady, misread, presenceGhosts>>

\* Emission to the targets that are still there, and the sender's callback.
EmitMessage(m) ==
    /\ send[m].pc = "emit"
    /\ received' = received \cup {<<m, s>> : s \in {x \in send[m].targets : sock[x] = "connected"}}
    /\ send' = [send EXCEPT ![m].pc = "done"]
    /\ UNCHANGED <<faults, sock, entry, login, leaveVars, listVars, steady, misread, presenceGhosts>>

-----------------------------------------------------------------------------
\* Node stops and starts again: connections and handlers are gone, entries stay.
Crash ==
    /\ \E s \in Sockets : sock[s] # "new"
    /\ Fault
    /\ sock' = [s \in Sockets |-> IF sock[s] = "new" THEN "new" ELSE "gone"]
    /\ botched' = botched \cup {s \in Sockets : sock[s] # "new" /\ leave[s] # "done"}
    /\ login' = [l \in Logins |-> IF login[l] = "idle" THEN "idle" ELSE "done"]
    /\ seek' = [s \in Sockets |-> {}]
    /\ leave' = [s \in Sockets |-> IF sock[s] = "new" THEN "idle" ELSE "done"]
    /\ keys' = [h \in Handlers |-> {}] /\ list' = [h \in Handlers |-> {}] /\ blurred' = TRUE
    /\ send' = [m \in Messages |-> IF send[m].pc \in {"save", "from", "emit"}
                                    THEN [send[m] EXCEPT !.pc = "refused"] ELSE send[m]]
    /\ UNCHANGED <<entry, shown, reader, inOrder, received, misread, had, latest, raced, lapsed>>
    /\ KeepSteady

Next ==
    \/ \E s \in Sockets : \/ Connect(s)
                          \/ Disconnect(s) \/ Find(s) \/ Delete(s) \/ LeaveList(s)
    \/ \E l \in Logins, s \in Sockets, u \in Users : LoginMe(l, s, u)
    \/ \E l \in Logins : LoginList(l)
    \/ \E u \in Users : Expire(u)
    \/ \E m \in Messages : SendMessage(m) \/ SaveMessage(m) \/ LookUpSender(m) \/ EmitMessage(m)
    \/ Crash

Spec == Init /\ [][Next]_vars

-----------------------------------------------------------------------------
\* When a disconnect has been handled without an error or a crash, no entry names the
\* connection any more, in whatever order disconnects and logins come; unless it had logged
\* in as several users, of whom getUserBySocketId finds one: that one's entry is gone, and
\* the others, listed when it was closed, stay listed under a connection that is not there.
NoGhostEntry ==
    \A s \in Sockets \ botched :
        leave[s] = "done" /\ Named(s) # {} =>
            Named(s) \subseteq had[s] /\ had[s] \ Named(s) # {}

\* A user who is there is listed under the connection that logged in last, unless the entry
\* expired, could not be written, or was written just before the disconnect of an older
\* connection, which had seen its own, deleted it.
LatestIsListed ==
    \A u \in Users :
        LET s == latest[u]
        IN s # None =>
              (sock[s] = "connected" => entry[u] = s \/ u \in raced \cup lapsed)

Quiet ==
    /\ \A l \in Logins : login[l] \in {"idle", "done"}
    /\ \A s \in Sockets : leave[s] \in {"idle", "done"}

\* When every login and disconnect has been handled, the list the browsers have is that of
\* the entries, if the handler that asked for them last was the last to emit too.
ListFresh ==
    Quiet /\ inOrder /\ ~blurred => shown = Online

\* A direct message that its sender is told has been sent reaches the connection that the
\* recipient's entry named, and that was up, from the moment the message came in to its
\* emission, whatever others did between the lookups; unless Redis answered the look at
\* that entry with an error, which getSocketId takes for nobody being there.  (One who
\* reconnects, or logs in elsewhere, meanwhile may miss it.)
SteadyRecipientGets ==
    \A m \in Messages \ misread :
        send[m].pc = "done" => \A s \in steady[m] : <<m, s>> \in received

=============================================================================
