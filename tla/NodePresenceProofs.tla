------------------------- MODULE NodePresenceProofs -------------------------
(***************************************************************************)
(* Proofs about module NodePresence, for any users, connections, messages  *)
(* and number of faults.                                                   *)
(***************************************************************************)
EXTENDS NodePresence, TLAPS

\* The handlers of a connection and its socket: disconnect is handled when the
\* connection is gone, and login_me is taken only before.
Gone == \A s \in Sockets : leave[s] # "idle" => sock[s] = "gone"

\* Why no entry is left behind but those of further users: a connection that is gone does
\* not log in again, the entries that name it are among those still to be looked at, and
\* the one found is one it had.
Clean(s) ==
    leave[s] # "idle" =>
        /\ Named(s) \subseteq had[s]
        /\ leave[s] = "find" => Named(s) \subseteq seek[s]
        /\ leave[s] = "delete" => \E u \in had[s] : seek[s] = {u}
        /\ leave[s] \in {"keys", "list", "done"} /\ Named(s) # {} => had[s] \ Named(s) # {}

Cleared == \A s \in Sockets \ botched : Clean(s)

\* Whoever logged in last has been connected, and a disconnect that is about to delete
\* the entry of a user who is there was overtaken by a login_me.
Overtaken ==
    /\ \A u \in Users : latest[u] # None => sock[latest[u]] # "new"
    /\ \A s \in Sockets, u \in Users :
           (/\ leave[s] = "delete" /\ u \in seek[s]
            /\ latest[u] # None /\ sock[latest[u]] = "connected")
               => u \in raced \cup lapsed

\* A steady connection is up, and in its recipient's entry.
Listed ==
    \A m \in Messages : \A s \in steady[m] : sock[s] = "connected" /\ entry[To[m]] = s

\* The handler of a message has found the steady connections before it emits, unless it
\* has met an error.
Aimed ==
    \A m \in Messages \ misread : \A s \in steady[m] :
        /\ send[m].pc \in {"from", "emit"} => s \in send[m].targets
        /\ send[m].pc = "done" => <<m, s>> \in received

\* Where the handlers are.
At == [h \in Handlers |-> IF h[2] = "login" THEN login[h[1]] ELSE leave[h[1]]]

\* A handler has keys and a list only while it is getting and emitting them.
Drawn == \A h \in Handlers : At[h] # "list" => keys[h] = {} /\ list[h] = {}

\* A login or a disconnect has changed an entry and its handler has not asked for the
\* keys yet.
Unread == \E h \in Handlers : At[h] = "keys"

\* Unless somebody has still to ask for the keys, the handler that asked last has the
\* entries of now, or is about to get them, or has shown them; or nobody has been here.
Fresh ==
    ~blurred /\ ~Unread =>
        \/ (\A h \in Handlers : At[h] # "list") /\ Online = {} /\ shown = {}
        \/ /\ reader \in Handlers /\ At[reader] = "list"
           /\ keys[reader] = Online /\ list[reader] = {}
        \/ /\ reader \in Handlers /\ At[reader] = "list"
           /\ keys[reader] = {} /\ list[reader] = Online
        \/ reader \in Handlers /\ At[reader] = "done" /\ (inOrder => shown = Online)

-----------------------------------------------------------------------------
(* Types                                                                   *)

\* Dropping connections from the steady ones leaves steady ones.
LEMMA SteadyTyped ==
    ASSUME TypeOK, KeepSteady PROVE steady' \in [Messages -> SUBSET Sockets]
  BY DEF TypeOK, KeepSteady

\* The entry of a user leads to that connection or to none.
LEMMA SocketOfTyped == ASSUME TypeOK, NEW u \in Users PROVE SocketOf(u) \subseteq Sockets
  BY DEF TypeOK, SocketOf

\* A fault is counted up to the bound.
LEMMA FaultTyped == ASSUME TypeOK, Fault PROVE faults' \in 0..MaxFaults
  BY PresenceAssumption DEF TypeOK, Fault

\* A message goes on to another point, with targets that are connections.
LEMMA SendTyped ==
    ASSUME NEW q \in [Messages -> SendTypes], NEW m \in Messages, NEW pc \in SendPoints,
           NEW T \in SUBSET Sockets
    PROVE  /\ [q EXCEPT ![m].pc = pc] \in [Messages -> SendTypes]
           /\ [q EXCEPT ![m].pc = pc, ![m].targets = T] \in [Messages -> SendTypes]
  <1>1. [q[m] EXCEPT !.pc = pc] \in SendTypes
    BY DEF SendTypes
  <1>2. [q[m] EXCEPT !.pc = pc, !.targets = T] \in SendTypes
    BY DEF SendTypes
  <1> HIDE DEF SendTypes
  <1> QED BY <1>1, <1>2

\* Nobody has come yet.
LEMMA TypingInit == Init => TypeOK
  <1> SUFFICES ASSUME Init PROVE TypeOK
    OBVIOUS
  <1>1. send \in [Messages -> SendTypes]
    BY DEF Init, NotSent, SendTypes, SendPoints
  <1>2. inOrder \in BOOLEAN /\ blurred \in BOOLEAN
    BY DEF Init
  <1>3. faults \in 0..MaxFaults
    BY PresenceAssumption DEF Init
  <1> QED BY <1>1, <1>2, <1>3 DEF Init, TypeOK

\* The parts of getOnlineUsers keep the keys and the lists well formed.
LEMMA ListTyped ==
    ASSUME TypeOK, NEW h \in Handlers, Keys(h) \/ Get(h) \/ Emit(h)
    PROVE  /\ keys' \in [Handlers -> SUBSET Users] /\ list' \in [Handlers -> SUBSET Users]
           /\ shown' \in SUBSET Users /\ reader' \in Handlers \cup {None}
           /\ inOrder' \in BOOLEAN /\ blurred' \in BOOLEAN /\ faults' \in 0..MaxFaults
  <1>1. CASE Keys(h)
    <2>1. faults' \in 0..MaxFaults
      BY <1>1, FaultTyped DEF Keys, TypeOK
    <2> QED BY <1>1, <2>1 DEF Keys, Online, TypeOK
  <1>2. CASE Get(h)
    <2>1. faults' \in 0..MaxFaults
      BY <1>2, FaultTyped DEF Get, TypeOK
    <2>2. blurred' \in BOOLEAN
      BY <1>2 DEF Get, TypeOK
    <2> QED BY <1>2, <2>1, <2>2 DEF Get, Online, TypeOK
  <1>3. CASE Emit(h)
    BY <1>3 DEF Emit, TypeOK
  <1> QED BY <1>1, <1>2, <1>3

\* Every step of a handler keeps the state well formed.
LEMMA TypingStep == TypeOK /\ [Next]_vars => TypeOK'
  <1> SUFFICES ASSUME TypeOK, [Next]_vars PROVE TypeOK'
    OBVIOUS
  <1> USE DEF listVars, sendVars, leaveVars, presenceGhosts
  <1>1. ASSUME NEW s \in Sockets, Connect(s) PROVE TypeOK'
    BY <1>1 DEF Connect, TypeOK
  <1>2. ASSUME NEW l \in Logins, NEW s \in Sockets, NEW u \in Users, LoginMe(l, s, u)
        PROVE  TypeOK'
    <2>1. faults' \in 0..MaxFaults /\ steady' \in [Messages -> SUBSET Sockets]
      BY <1>2, FaultTyped, SteadyTyped DEF LoginMe, TypeOK
    <2>2. /\ login' \in [Logins -> {"idle", "keys", "list", "done"}]
          /\ latest' \in [Users -> Sockets \cup {None}]
          /\ entry' \in [Users -> Sockets \cup {None}]
      BY <1>2 DEF LoginMe, TypeOK
    <2>3. raced' \in SUBSET Users /\ lapsed' \in SUBSET Users
      BY <1>2 DEF LoginMe, TypeOK
    <2> QED BY <1>2, <2>1, <2>2, <2>3 DEF LoginMe, TypeOK
  <1>3. ASSUME NEW l \in Logins, LoginList(l) PROVE TypeOK'
    <2>1. <<l, "login">> \in Handlers
      BY DEF Handlers
    <2>2. Keys(<<l, "login">>) \/ Get(<<l, "login">>) \/ Emit(<<l, "login">>)
      BY <1>3 DEF LoginList
    <2> QED BY <1>3, <2>1, <2>2, ListTyped DEF LoginList, TypeOK
  <1>4. ASSUME NEW s \in Sockets, LeaveList(s) PROVE TypeOK'
    <2>1. <<s, "leave">> \in Handlers
      BY DEF Handlers
    <2>2. Keys(<<s, "leave">>) \/ Get(<<s, "leave">>) \/ Emit(<<s, "leave">>)
      BY <1>4 DEF LeaveList
    <2> QED BY <1>4, <2>1, <2>2, ListTyped DEF LeaveList, TypeOK
  <1>5. ASSUME NEW s \in Sockets, Disconnect(s) \/ Find(s) \/ Delete(s) PROVE TypeOK'
    <2>1. faults' \in 0..MaxFaults /\ steady' \in [Messages -> SUBSET Sockets]
      BY <1>5, FaultTyped, SteadyTyped DEF Disconnect, Find, Delete, TypeOK
    <2>2. CASE Disconnect(s)
      BY <2>1, <2>2 DEF Disconnect, Online, Named, TypeOK
    <2>3. CASE Find(s)
      <3>1. seek' \in [Sockets -> SUBSET Users]
        BY <2>3 DEF Find, TypeOK
      <3>2. leave' \in [Sockets -> {"idle", "find", "delete", "keys", "list", "done"}]
        BY <2>3 DEF Find, TypeOK
      <3> QED BY <2>1, <2>3, <3>1, <3>2 DEF Find, TypeOK
    <2>4. CASE Delete(s)
      BY <2>1, <2>4 DEF Delete, WithoutFound, TypeOK
    <2> QED BY <1>5, <2>2, <2>3, <2>4
  <1>6. ASSUME NEW u \in Users, Expire(u) PROVE TypeOK'
    <2>1. faults' \in 0..MaxFaults /\ steady' \in [Messages -> SUBSET Sockets]
      BY <1>6, FaultTyped, SteadyTyped DEF Expire
    <2> QED BY <1>6, <2>1 DEF Expire, TypeOK
  <1>7. ASSUME NEW m \in Messages, SendMessage(m) PROVE TypeOK'
    BY <1>7 DEF SendMessage, TypeOK, SendTypes, SendPoints
  <1>8. ASSUME NEW m \in Messages, SaveMessage(m) PROVE TypeOK'
    <2>1. faults' \in 0..MaxFaults /\ misread' \in SUBSET Messages
      BY <1>8, FaultTyped DEF SaveMessage, TypeOK
    <2>2. SocketOf(To[m]) \subseteq Sockets
      BY SocketOfTyped, PresenceAssumption
    <2>3. send' \in [Messages -> SendTypes]
      <3>1. send \in [Messages -> SendTypes] /\ {"from", "refused"} \subseteq SendPoints
        BY DEF TypeOK, SendPoints
      <3>2. ASSUME send' = [send EXCEPT ![m].pc = "from", ![m].targets = SocketOf(To[m])]
            PROVE  send' \in [Messages -> SendTypes]
        BY <2>2, <3>1, <3>2, SendTyped
      <3>3. ASSUME NEW pc \in {"from", "refused"}, send' = [send EXCEPT ![m].pc = pc]
            PROVE  send' \in [Messages -> SendTypes]
        BY <3>1, <3>3, SendTyped
      <3> QED BY <1>8, <3>2, <3>3 DEF SaveMessage
    <2> QED BY <1>8, <2>1, <2>3 DEF SaveMessage, TypeOK
  <1>9. ASSUME NEW m \in Messages, LookUpSender(m) PROVE TypeOK'
    <2>1. faults' \in 0..MaxFaults
      BY <1>9, FaultTyped DEF LookUpSender, TypeOK
    <2>2. SocketOf(From[m]) \subseteq Sockets
      BY SocketOfTyped, PresenceAssumption
    <2>3. send' \in [Messages -> SendTypes]
      <3>1. send \in [Messages -> SendTypes] /\ "emit" \in SendPoints
        BY DEF TypeOK, SendPoints
      <3>2. send[m].targets \cup SocketOf(From[m]) \subseteq Sockets
        BY <2>2, <3>1 DEF SendTypes
      <3>3. ASSUME NEW T \in SUBSET Sockets,
                   send' = [send EXCEPT ![m].pc = "emit", ![m].targets = T]
            PROVE  send' \in [Messages -> SendTypes]
        BY <3>1, <3>3, SendTyped
      <3>4. ASSUME send' = [send EXCEPT ![m].pc = "emit"]
            PROVE  send' \in [Messages -> SendTypes]
        BY <3>1, <3>4, SendTyped
      <3>5. \/ send' = [send EXCEPT ![m].pc = "emit",
                                   ![m].targets = send[m].targets \cup SocketOf(From[m])]
            \/ send' = [send EXCEPT ![m].pc = "emit"]
        BY <1>9, <3>1 DEF LookUpSender, SendTypes
      <3> QED BY <3>2, <3>3, <3>4, <3>5
    <2> QED BY <1>9, <2>1, <2>3 DEF LookUpSender, TypeOK
  <1>10. ASSUME NEW m \in Messages, EmitMessage(m) PROVE TypeOK'
    BY <1>10 DEF EmitMessage, TypeOK, SendTypes, SendPoints
  <1>11. CASE Crash
    <2>1. faults' \in 0..MaxFaults /\ steady' \in [Messages -> SUBSET Sockets]
      BY <1>11, FaultTyped, SteadyTyped DEF Crash
    <2>2. send' \in [Messages -> SendTypes]
      <3>1. send \in [Messages -> SendTypes] /\ "refused" \in SendPoints
        BY DEF TypeOK, SendPoints
      <3>2. ASSUME NEW m \in Messages PROVE [send[m] EXCEPT !.pc = "refused"] \in SendTypes
        BY <3>1 DEF SendTypes
      <3> QED BY <1>11, <3>1, <3>2 DEF Crash
    <2>3. sock' \in [Sockets -> {"new", "connected", "gone"}]
      BY <1>11 DEF Crash, TypeOK
    <2>4. login' \in [Logins -> {"idle", "keys", "list", "done"}]
      BY <1>11 DEF Crash, TypeOK
    <2>5. leave' \in [Sockets -> {"idle", "find", "delete", "keys", "list", "done"}]
      BY <1>11 DEF Crash, TypeOK
    <2>6. seek' \in [Sockets -> SUBSET Users] /\ botched' \in SUBSET Sockets
      BY <1>11 DEF Crash, TypeOK
    <2>7. keys' \in [Handlers -> SUBSET Users] /\ list' \in [Handlers -> SUBSET Users]
      BY <1>11 DEF Crash
    <2>8. blurred' \in BOOLEAN
      BY <1>11 DEF Crash
    <2> QED BY <1>11, <2>1, <2>2, <2>3, <2>4, <2>5, <2>6, <2>7, <2>8 DEF Crash, TypeOK
  <1>12. CASE UNCHANGED vars
    BY <1>12 DEF vars, TypeOK
  <1> QED
    BY <1>1, <1>2, <1>3, <1>4, <1>5, <1>6, <1>7, <1>8, <1>9, <1>10, <1>11, <1>12 DEF Next

\* Type correctness: every variable stays in its type, so that, for one, a message is
\* only ever emitted to connections.
THEOREM TypeCorrect == Spec => []TypeOK
  <1> QED BY TypingInit, TypingStep, PTL DEF Spec

-----------------------------------------------------------------------------
(* No entry is left behind                                                 *)

\* The steps that touch neither a socket, an entry, a login, a disconnect nor what is
\* remembered of them, except in steady and blurred.
Elsewhere == UNCHANGED <<sock, entry, leaveVars, presenceGhosts>>

\* All the steps of messages are elsewhere, and so are those of the lists but for the
\* point of a disconnect.
LEMMA StepsElsewhere ==
    ASSUME NEW m \in Messages,
           SendMessage(m) \/ SaveMessage(m) \/ LookUpSender(m) \/ EmitMessage(m)
    PROVE  Elsewhere /\ UNCHANGED <<login, listVars>>
  BY DEF Elsewhere, SendMessage, SaveMessage, LookUpSender, EmitMessage

\* A disconnect that is past its deletion stays so.
LEMMA LeaveListMoves ==
    ASSUME TypeOK, NEW s \in Sockets, LeaveList(s)
    PROVE  /\ UNCHANGED <<sock, entry, login, seek, sendVars, presenceGhosts>>
           /\ leave[s] \in {"keys", "list"} /\ leave'[s] \in {"list", "done"}
           /\ \A t \in Sockets \ {s} : leave'[t] = leave[t]
  BY DEF LeaveList, TypeOK

\* Only a disconnect, whose connection is then gone, leaves the idle point.
LEMMA GoneStep == TypeOK /\ Gone /\ [Next]_vars => Gone'
  <1> SUFFICES ASSUME TypeOK, Gone, [Next]_vars PROVE Gone'
    OBVIOUS
  <1>t. /\ sock \in [Sockets -> {"new", "connected", "gone"}]
        /\ leave \in [Sockets -> {"idle", "find", "delete", "keys", "list", "done"}]
    BY DEF TypeOK
  <1>1. ASSUME NEW s \in Sockets, Connect(s) \/ Disconnect(s) \/ Find(s) \/ Delete(s)
        PROVE  Gone'
    BY <1>1, <1>t DEF Gone, Connect, Disconnect, Find, Delete, leaveVars
  <1>2. ASSUME NEW s \in Sockets, LeaveList(s) PROVE Gone'
    BY <1>2, LeaveListMoves DEF Gone
  <1>3. ASSUME UNCHANGED <<sock, leave>> PROVE Gone'
    BY <1>3 DEF Gone
  <1>4. CASE Crash
    BY <1>4, <1>t DEF Gone, Crash
  <1>5. ASSUME Elsewhere PROVE Gone'
    BY <1>3, <1>5 DEF Elsewhere, leaveVars
  <1> QED
    BY <1>1, <1>2, <1>3, <1>4, <1>5, StepsElsewhere
       DEF Next, vars, Elsewhere, LoginMe, LoginList, Expire, leaveVars

\* A connection whose disconnect does not move, and that no further entry names, stays
\* clean.
LEMMA CleanKept ==
    ASSUME NEW s, Clean(s), leave'[s] = leave[s], seek'[s] = seek[s], had'[s] = had[s],
           Named(s)' \subseteq Named(s)
    PROVE  Clean(s)'
  BY DEF Clean

\* A disconnect looks at every entry that names it until it finds one, deletes that, or is
\* botched; and only a connection that is up is named by an entry again.
LEMMA ClearedStep == TypeOK /\ Gone /\ Cleared /\ [Next]_vars => Cleared'
  <1> SUFFICES ASSUME TypeOK, Gone, Cleared, [Next]_vars PROVE Cleared'
    OBVIOUS
  <1>t. /\ sock \in [Sockets -> {"new", "connected", "gone"}]
        /\ leave \in [Sockets -> {"idle", "find", "delete", "keys", "list", "done"}]
        /\ seek \in [Sockets -> SUBSET Users] /\ had \in [Sockets -> SUBSET Users]
        /\ entry \in [Users -> Sockets \cup {None}] /\ None \notin Sockets
    BY PresenceAssumption DEF TypeOK
  <1>1. ASSUME UNCHANGED <<entry, leave, seek, had, botched>> PROVE Cleared'
    BY <1>1 DEF Cleared, Clean, Named
  <1>2. ASSUME NEW l \in Logins, NEW s \in Sockets, NEW u \in Users, LoginMe(l, s, u)
        PROVE  Cleared'
    <2>1. leave[s] = "idle"
      BY <1>2 DEF LoginMe, Gone
    <2>2. UNCHANGED <<leave, seek, had, botched>>
      BY <1>2 DEF LoginMe, leaveVars
    <2>3. entry' = [entry EXCEPT ![u] = s] \/ entry' = entry
      BY <1>2 DEF LoginMe
    <2>4. ASSUME NEW t \in Sockets, t # s PROVE Named(t)' \subseteq Named(t)
      BY <1>t, <2>3, <2>4 DEF Named
    <2>5. Clean(s)'
      BY <2>1, <2>2 DEF Clean
    <2> QED BY <2>2, <2>4, <2>5, CleanKept DEF Cleared
  <1>3. ASSUME NEW s \in Sockets, Disconnect(s) PROVE Cleared'
    <2>1. /\ entry' = entry /\ botched \subseteq botched' /\ had' = [had EXCEPT ![s] = Named(s)]
          /\ \A t \in Sockets \ {s} : leave'[t] = leave[t] /\ seek'[t] = seek[t]
      BY <1>3, <1>t DEF Disconnect
    <2>2. Named(s)' = Named(s) /\ had'[s] = Named(s) /\ Named(s) \subseteq Online
      BY <1>t, <2>1 DEF Named, Online
    <2>3. \/ s \in botched'
          \/ leave'[s] = "find" /\ seek'[s] = Online
          \/ leave'[s] = "done" /\ Online = {}
      BY <1>3, <1>t DEF Disconnect
    <2>4. s \in botched' \/ Clean(s)'
      BY <2>2, <2>3 DEF Clean
    <2>5. \A t \in Sockets \ {s} : Named(t)' = Named(t) /\ had'[t] = had[t]
      BY <1>t, <2>1 DEF Named
    <2> QED BY <2>1, <2>4, <2>5, CleanKept DEF Cleared
  <1>4. ASSUME NEW s \in Sockets, Find(s) PROVE Cleared'
    <2>1. /\ UNCHANGED <<entry, had>> /\ botched \subseteq botched' /\ leave[s] = "find"
          /\ \A t \in Sockets \ {s} : leave'[t] = leave[t] /\ seek'[t] = seek[t]
      BY <1>4, <1>t DEF Find
    <2>2. \A t \in Sockets : Named(t)' = Named(t)
      BY <2>1 DEF Named
    <2>3. s \in botched' \/ Clean(s)'
      <3>1. CASE s \in botched
        BY <2>1, <3>1
      <3>2. ASSUME s \notin botched, NEW u \in seek[s],
                   seek' = [seek EXCEPT ![s] = IF entry[u] = s THEN {u} ELSE @ \ {u}],
                   leave' = [leave EXCEPT ![s] = CASE entry[u] = s -> "delete"
                                                   [] entry[u] # s /\ seek[s] = {u} -> "done"
                                                   [] OTHER -> "find"]
            PROVE  Clean(s)'
        <4>1. /\ Named(s) \subseteq had[s] /\ Named(s) \subseteq seek[s]
              /\ u \in Users /\ (u \in Named(s) <=> entry[u] = s)
          BY <1>t, <2>1, <3>2 DEF Cleared, Clean, Named
        <4>2. CASE entry[u] = s
          <5>1. leave'[s] = "delete" /\ seek'[s] = {u}
            BY <1>t, <3>2, <4>2
          <5> QED BY <2>1, <2>2, <4>1, <4>2, <5>1 DEF Clean
        <4>3. CASE entry[u] # s /\ seek[s] = {u}
          <5>1. leave'[s] = "done" /\ Named(s) = {}
            BY <1>t, <3>2, <4>1, <4>3
          <5> QED BY <2>1, <2>2, <4>1, <5>1 DEF Clean
        <4>4. CASE entry[u] # s /\ seek[s] # {u}
          <5>1. leave'[s] = "find" /\ seek'[s] = seek[s] \ {u}
            BY <1>t, <3>2, <4>4
          <5> QED BY <2>1, <2>2, <4>1, <4>4, <5>1 DEF Clean
        <4> QED BY <4>2, <4>3, <4>4
      <3>3. \/ s \in botched'
            \/ \E u \in seek[s] :
                  /\ seek' = [seek EXCEPT ![s] = IF entry[u] = s THEN {u} ELSE @ \ {u}]
                  /\ leave' = [leave EXCEPT ![s] = CASE entry[u] = s -> "delete"
                                                     [] entry[u] # s /\ seek[s] = {u} -> "done"
                                                     [] OTHER -> "find"]
        BY <1>4 DEF Find
      <3> QED BY <3>1, <3>2, <3>3
    <2> QED BY <2>1, <2>2, <2>3, CleanKept DEF Cleared
  <1>5. ASSUME NEW s \in Sockets, Delete(s) PROVE Cleared'
    <2>1. /\ had' = had /\ botched \subseteq botched' /\ leave[s] = "delete"
          /\ leave'[s] = "keys"
          /\ \A t \in Sockets \ {s} : leave'[t] = leave[t] /\ seek'[t] = seek[t]
      BY <1>5, <1>t DEF Delete
    <2>2. entry' = WithoutFound(s) \/ (entry' = entry /\ s \in botched')
      BY <1>5 DEF Delete
    <2>3. \A t \in Sockets : Named(t)' \subseteq Named(t)
      BY <1>t, <2>2 DEF Named, WithoutFound
    <2>4. ASSUME s \notin botched' PROVE Clean(s)'
      <3>1. PICK u \in had[s] : seek[s] = {u}
        BY <2>1, <2>4 DEF Cleared, Clean
      <3>2. entry' = WithoutFound(s) /\ u \in Users
        BY <1>t, <2>2, <2>4, <3>1
      <3>3. u \notin Named(s)'
        BY <1>t, <3>1, <3>2 DEF Named, WithoutFound
      <3>4. Named(s) \subseteq had[s]
        BY <2>1, <2>4 DEF Cleared, Clean
      <3> QED BY <2>1, <2>3, <3>1, <3>3, <3>4 DEF Clean
    <2> QED BY <2>1, <2>3, <2>4, CleanKept DEF Cleared
  <1>6. ASSUME NEW s \in Sockets, LeaveList(s) PROVE Cleared'
    <2>1. /\ UNCHANGED <<entry, seek, had, botched>> /\ leave[s] \in {"keys", "list"}
          /\ leave'[s] \in {"list", "done"} /\ \A t \in Sockets \ {s} : leave'[t] = leave[t]
      BY <1>6, LeaveListMoves DEF presenceGhosts
    <2>2. \A t \in Sockets : Named(t)' = Named(t)
      BY <2>1 DEF Named
    <2>3. s \notin botched => Clean(s)'
      BY <2>1, <2>2 DEF Cleared, Clean
    <2> QED BY <2>1, <2>2, <2>3, CleanKept DEF Cleared
  <1>7. ASSUME NEW u \in Users, Expire(u) PROVE Cleared'
    <2>1. entry' = [entry EXCEPT ![u] = None] /\ UNCHANGED <<leave, seek, had, botched>>
      BY <1>7 DEF Expire, leaveVars
    <2>2. \A t \in Sockets : Named(t)' \subseteq Named(t)
      BY <1>t, <2>1 DEF Named
    <2> QED BY <2>1, <2>2, CleanKept DEF Cleared
  <1>8. CASE Crash
    <2>1. /\ UNCHANGED <<entry, had>>
          /\ leave' = [s \in Sockets |-> IF sock[s] = "new" THEN "idle" ELSE "done"]
          /\ botched' = botched \cup {s \in Sockets : sock[s] # "new" /\ leave[s] # "done"}
      BY <1>8 DEF Crash
    <2>2. ASSUME NEW s \in Sockets \ botched' PROVE Clean(s)'
      <3>1. Named(s)' = Named(s)
        BY <2>1 DEF Named
      <3>2. CASE sock[s] = "new"
        BY <2>1, <3>2 DEF Clean
      <3>3. CASE sock[s] # "new"
        <4>1. leave[s] = "done" /\ leave'[s] = "done" /\ s \notin botched
          BY <2>1, <2>2, <3>3
        <4> QED BY <2>1, <3>1, <4>1 DEF Cleared, Clean
      <3> QED BY <3>2, <3>3
    <2> QED BY <2>2 DEF Cleared
  <1>9. ASSUME Elsewhere PROVE Cleared'
    BY <1>1, <1>9 DEF Elsewhere, leaveVars, presenceGhosts
  <1> QED
    BY <1>1, <1>2, <1>3, <1>4, <1>5, <1>6, <1>7, <1>8, <1>9, StepsElsewhere
       DEF Next, vars, Elsewhere, Connect, LoginList, leaveVars, presenceGhosts

\* Once a disconnect has been handled without an error or a crash, the connection is named
\* by no entry, in whatever order other connections come and go; or, if it had logged in as
\* several users, by fewer than it had been (presence.js getUserBySocketId).
THEOREM NoEntryOfTheGone == Spec => []NoGhostEntry
  <1> DEFINE Inv == TypeOK /\ Gone /\ Cleared
  <1>1. Init => Inv
    <2>1. Init => Gone /\ Cleared
      BY DEF Init, Gone, Cleared, Clean
    <2> QED BY <2>1, TypingInit
  <1>2. Inv /\ [Next]_vars => Inv'
    BY TypingStep, GoneStep, ClearedStep
  <1>3. Inv => NoGhostEntry
    BY DEF Cleared, Clean, NoGhostEntry
  <1> HIDE DEF Inv
  <1> QED BY <1>1, <1>2, <1>3, PTL DEF Spec

-----------------------------------------------------------------------------
(* Who is there is listed                                                  *)

\* Only login_me changes what is remembered as latest, raced and lapsed; and a user whose
\* login was written meanwhile stays raced while a disconnect is about to delete.
LEMMA OvertakenStep ==
    TypeOK /\ Gone /\ Overtaken /\ LatestIsListed /\ [Next]_vars
        => Overtaken' /\ LatestIsListed'
  <1> SUFFICES ASSUME TypeOK, Gone, Overtaken, LatestIsListed, [Next]_vars
               PROVE  Overtaken' /\ LatestIsListed'
    OBVIOUS
  <1>t. /\ sock \in [Sockets -> {"new", "connected", "gone"}]
        /\ leave \in [Sockets -> {"idle", "find", "delete", "keys", "list", "done"}]
        /\ entry \in [Users -> Sockets \cup {None}]
        /\ latest \in [Users -> Sockets \cup {None}]
        /\ seek \in [Sockets -> SUBSET Users] /\ None \notin Sockets
    BY PresenceAssumption DEF TypeOK
  <1>1. ASSUME NEW s \in Sockets, Connect(s) PROVE Overtaken' /\ LatestIsListed'
    <2>1. sock[s] = "new" /\ sock' = [sock EXCEPT ![s] = "connected"]
          /\ UNCHANGED <<entry, leave, seek, latest, raced, lapsed>>
      BY <1>1 DEF Connect, leaveVars, presenceGhosts
    <2>2. \A u \in Users : latest[u] # s
      BY <1>t, <2>1 DEF Overtaken
    <2> QED BY <1>t, <2>1, <2>2 DEF Overtaken, LatestIsListed
  <1>2. ASSUME NEW l \in Logins, NEW s \in Sockets, NEW u \in Users, LoginMe(l, s, u)
        PROVE  Overtaken' /\ LatestIsListed'
    <2>1. /\ sock[s] = "connected" /\ UNCHANGED <<sock, leave, seek>>
          /\ latest' = [latest EXCEPT ![u] = s]
      BY <1>2, <1>t DEF LoginMe, leaveVars
    <2>2. \A v \in Users \ {u} : /\ entry'[v] = entry[v]
                                 /\ (v \in raced' \cup lapsed') = (v \in raced \cup lapsed)
      BY <1>2, <1>t DEF LoginMe
    <2>3. entry'[u] = s \/ u \in lapsed'
      BY <1>2, <1>t DEF LoginMe
    <2>4. Deleting(u) => u \in raced' \cup lapsed'
      BY <1>2, <1>t DEF LoginMe
    <2>5. LatestIsListed'
      BY <1>t, <2>1, <2>2, <2>3 DEF LatestIsListed
    <2>6. \A v \in Users : latest'[v] # None => sock'[latest'[v]] # "new"
      BY <1>t, <2>1 DEF Overtaken
    <2>7. ASSUME NEW x \in Sockets, NEW v \in Users, leave'[x] = "delete", v \in seek'[x],
                 latest'[v] # None, sock'[latest'[v]] = "connected"
          PROVE  v \in raced' \cup lapsed'
      <3>1. CASE v = u
        BY <2>1, <2>4, <2>7, <3>1 DEF Deleting
      <3>2. CASE v # u
        BY <1>t, <2>1, <2>2, <2>7, <3>2 DEF Overtaken
      <3> QED BY <3>1, <3>2
    <2> QED BY <2>5, <2>6, <2>7 DEF Overtaken
  <1>3. ASSUME NEW s \in Sockets, Disconnect(s) PROVE Overtaken' /\ LatestIsListed'
    <2>1. /\ sock' = [sock EXCEPT ![s] = "gone"] /\ UNCHANGED <<entry, latest, raced, lapsed>>
          /\ \A t \in Sockets : leave'[t] = "delete" => leave[t] = "delete" /\ seek'[t] = seek[t]
      BY <1>3, <1>t DEF Disconnect
    <2> QED BY <1>t, <2>1 DEF Overtaken, LatestIsListed
  <1>4. ASSUME NEW s \in Sockets, Find(s) PROVE Overtaken' /\ LatestIsListed'
    <2>1. UNCHANGED <<sock, entry, latest, raced, lapsed>>
      BY <1>4 DEF Find
    <2>2. /\ \A t \in Sockets \ {s} : leave'[t] = leave[t] /\ seek'[t] = seek[t]
          /\ \A u \in Users : leave'[s] = "delete" /\ u \in seek'[s] => entry[u] = s
      <3>1. CASE leave'[s] = "done"
        BY <1>4, <1>t, <3>1 DEF Find
      <3>2. ASSUME NEW u \in seek[s],
                   seek' = [seek EXCEPT ![s] = IF entry[u] = s THEN {u} ELSE @ \ {u}],
                   leave' = [leave EXCEPT ![s] = CASE entry[u] = s -> "delete"
                                                   [] entry[u] # s /\ seek[s] = {u} -> "done"
                                                   [] OTHER -> "find"]
            PROVE  /\ \A t \in Sockets \ {s} : leave'[t] = leave[t] /\ seek'[t] = seek[t]
                   /\ \A v \in Users : leave'[s] = "delete" /\ v \in seek'[s] => entry[v] = s
        <4>1. CASE entry[u] = s
          BY <1>t, <3>2, <4>1
        <4>2. CASE entry[u] # s
          BY <1>t, <3>2, <4>2
        <4> QED BY <4>1, <4>2
      <3> QED BY <1>4, <1>t, <3>1, <3>2 DEF Find
    <2>3. sock[s] = "gone"
      BY <1>4 DEF Find, Gone
    <2>4. LatestIsListed'
      BY <2>1 DEF LatestIsListed
    <2>5. ASSUME NEW u \in Users, leave'[s] = "delete", u \in seek'[s],
                 latest[u] # None, sock[latest[u]] = "connected"
          PROVE  u \in raced \cup lapsed
      BY <1>t, <2>2, <2>3, <2>5 DEF LatestIsListed
    <2> QED BY <2>1, <2>2, <2>4, <2>5 DEF Overtaken
  <1>5. ASSUME NEW s \in Sockets, Delete(s) PROVE Overtaken' /\ LatestIsListed'
    <2>1. UNCHANGED <<sock, latest, raced, lapsed>> /\ leave[s] = "delete"
      BY <1>5 DEF Delete
    <2>2. \A t \in Sockets : leave'[t] = "delete" => leave[t] = "delete" /\ seek'[t] = seek[t]
      BY <1>5, <1>t DEF Delete
    <2>3. \A v \in Users : v \notin seek[s] => entry'[v] = entry[v]
      BY <1>5, <1>t DEF Delete, WithoutFound
    <2>4. LatestIsListed'
      BY <1>t, <2>1, <2>3 DEF Overtaken, LatestIsListed
    <2> QED BY <2>1, <2>2, <2>4 DEF Overtaken
  <1>6. ASSUME NEW s \in Sockets, LeaveList(s) PROVE Overtaken' /\ LatestIsListed'
    <2>1. UNCHANGED <<sock, entry, seek, latest, raced, lapsed>>
      BY <1>6 DEF LeaveList, presenceGhosts
    <2>2. \A t \in Sockets : leave'[t] = "delete" => leave[t] = "delete"
      BY <1>6, LeaveListMoves
    <2> QED BY <2>1, <2>2 DEF Overtaken, LatestIsListed
  <1>7. ASSUME NEW u \in Users, Expire(u) PROVE Overtaken' /\ LatestIsListed'
    <2>1. /\ entry' = [entry EXCEPT ![u] = None] /\ lapsed' = lapsed \cup {u}
          /\ UNCHANGED <<sock, leave, seek, latest, raced>>
      BY <1>7 DEF Expire, leaveVars
    <2> QED BY <1>t, <2>1 DEF Overtaken, LatestIsListed
  <1>8. CASE Crash
    <2>1. /\ sock' = [s \in Sockets |-> IF sock[s] = "new" THEN "new" ELSE "gone"]
          /\ latest' = latest
      BY <1>8 DEF Crash
    <2>2. \A u \in Users : latest'[u] # None => sock'[latest'[u]] = "gone"
      BY <1>t, <2>1 DEF Overtaken
    <2>3. LatestIsListed'
      BY <2>2 DEF LatestIsListed
    <2>4. \A u \in Users : latest'[u] # None => sock'[latest'[u]] # "connected"
      BY <2>2
    <2> QED BY <2>2, <2>3, <2>4 DEF Overtaken
  <1>9. ASSUME UNCHANGED <<sock, entry, leave, seek, latest, raced, lapsed>>
        PROVE  Overtaken' /\ LatestIsListed'
    BY <1>9 DEF Overtaken, LatestIsListed
  <1> QED
    BY <1>1, <1>2, <1>3, <1>4, <1>5, <1>6, <1>7, <1>8, <1>9, StepsElsewhere
       DEF Next, vars, Elsewhere, LoginList, leaveVars, presenceGhosts

\* A user who is there is listed under the connection that logged in last, but for a lost
\* entry and the one race of presence.js: an older connection's disconnect that has seen
\* its own entry deletes the newer one.
THEOREM LoggedInIsListed == Spec => []LatestIsListed
  <1> DEFINE Inv == TypeOK /\ Gone /\ Overtaken /\ LatestIsListed
  <1>1. Init => Inv
    <2>1. Init => Gone /\ Overtaken /\ LatestIsListed
      BY DEF Init, Gone, Overtaken, LatestIsListed
    <2> QED BY <2>1, TypingInit
  <1>2. Inv /\ [Next]_vars => Inv'
    BY TypingStep, GoneStep, OvertakenStep
  <1>3. Inv => LatestIsListed
    OBVIOUS
  <1> HIDE DEF Inv
  <1> QED BY <1>1, <1>2, <1>3, PTL DEF Spec

-----------------------------------------------------------------------------
(* Direct messages                                                         *)

\* Whatever changes a socket or an entry forgets the connections that are no longer
\* steady.
LEMMA ListedStep == TypeOK /\ Listed /\ [Next]_vars => Listed'
  <1> SUFFICES ASSUME TypeOK, Listed, [Next]_vars PROVE Listed'
    OBVIOUS
  <1>t. /\ sock \in [Sockets -> {"new", "connected", "gone"}]
        /\ steady \in [Messages -> SUBSET Sockets]
    BY DEF TypeOK
  <1>1. ASSUME NEW s \in Sockets, Connect(s) PROVE Listed'
    <2>1. sock[s] = "new" /\ sock' = [sock EXCEPT ![s] = "connected"]
          /\ UNCHANGED <<entry, steady>>
      BY <1>1 DEF Connect, sendVars
    <2> QED BY <1>t, <2>1 DEF Listed
  <1>2. ASSUME KeepSteady PROVE Listed'
    BY <1>2 DEF KeepSteady, Listed
  <1>3. ASSUME NEW m \in Messages, SendMessage(m) PROVE Listed'
    <2>1. /\ steady' = [steady EXCEPT ![m] =
                           {x \in Sockets : sock[x] = "connected" /\ entry[To[m]] = x}]
          /\ UNCHANGED <<sock, entry>>
      BY <1>3 DEF SendMessage
    <2> QED BY <1>t, <2>1 DEF Listed
  <1>4. ASSUME UNCHANGED <<sock, entry, steady>> PROVE Listed'
    BY <1>4 DEF Listed
  <1> QED
    BY <1>1, <1>2, <1>3, <1>4
       DEF Next, vars, sendVars, LoginMe, LoginList, LeaveList, Disconnect, Find, Delete, Expire,
       SaveMessage, LookUpSender, EmitMessage, Crash

\* A step that neither moves nor retargets a message, takes nothing back and makes no
\* connection steady keeps Aimed.
LEMMA AimedKept ==
    ASSUME Aimed, send' = send, received' = received, misread' = misread,
           \A m \in Messages : steady'[m] \subseteq steady[m]
    PROVE  Aimed'
  BY DEF Aimed

\* The lookups of send_message see the entry the steady connections are listed under.
LEMMA AimedStep == TypeOK /\ Listed /\ Aimed /\ [Next]_vars => Aimed'
  <1> SUFFICES ASSUME TypeOK, Listed, Aimed, [Next]_vars PROVE Aimed'
    OBVIOUS
  <1>t. send \in [Messages -> SendTypes] /\ steady \in [Messages -> SUBSET Sockets]
        /\ None \notin Sockets
    BY PresenceAssumption DEF TypeOK
  <1>1. ASSUME KeepSteady, UNCHANGED <<send, received, misread>> PROVE Aimed'
    <2>1. \A m \in Messages : steady'[m] \subseteq steady[m]
      BY <1>1 DEF KeepSteady
    <2> QED BY <1>1, <2>1, AimedKept
  <1>2. ASSUME NEW m \in Messages, SendMessage(m) PROVE Aimed'
    BY <1>2, <1>t DEF SendMessage, SendTypes, Aimed
  <1>3. ASSUME NEW m \in Messages, SaveMessage(m) PROVE Aimed'
    <2>1. \A s \in steady[m] : s \in SocketOf(To[m])
      BY <1>t DEF Listed, SocketOf
    <2>2. steady' = steady /\ received' = received
      BY <1>3 DEF SaveMessage
    <2>3. CASE /\ send' = [send EXCEPT ![m].pc = "from", ![m].targets = SocketOf(To[m])]
               /\ misread' = misread
      BY <2>1, <2>2, <2>3, <1>t DEF SendTypes, Aimed
    <2>4. CASE send' = [send EXCEPT ![m].pc = "refused"] /\ misread' = misread
      BY <2>2, <2>4, <1>t DEF SendTypes, Aimed
    <2>5. CASE send' = [send EXCEPT ![m].pc = "from"] /\ misread' = misread \cup {m}
      BY <2>2, <2>5, <1>t DEF SendTypes, Aimed
    <2> QED BY <1>3, <2>3, <2>4, <2>5 DEF SaveMessage
  <1>4. ASSUME NEW m \in Messages, LookUpSender(m) PROVE Aimed'
    <2>1. send[m].pc = "from" /\ UNCHANGED <<received, steady, misread>>
      BY <1>4 DEF LookUpSender
    <2>2. \/ send' = [send EXCEPT ![m].pc = "emit",
                                  ![m].targets = send[m].targets \cup SocketOf(From[m])]
          \/ send' = [send EXCEPT ![m].pc = "emit"]
      BY <1>4 DEF LookUpSender
    <2>3. send[m].targets \subseteq send'[m].targets /\ send'[m].pc = "emit"
      <3>1. send[m].targets \subseteq Sockets
        BY <1>t DEF SendTypes
      <3> QED BY <2>2, <3>1, <1>t DEF SendTypes
    <2>4. \A n \in Messages \ {m} : send'[n] = send[n]
      BY <2>2, <1>t
    <2> QED BY <2>1, <2>3, <2>4 DEF Aimed
  <1>5. ASSUME NEW m \in Messages, EmitMessage(m) PROVE Aimed'
    <2>1. /\ send[m].pc = "emit" /\ send' = [send EXCEPT ![m].pc = "done"]
          /\ UNCHANGED <<steady, misread>> /\ received \subseteq received'
          /\ \A s \in send[m].targets : sock[s] = "connected" => <<m, s>> \in received'
      BY <1>5 DEF EmitMessage
    <2>2. m \notin misread => \A s \in steady[m] : <<m, s>> \in received'
      BY <2>1 DEF Aimed, Listed
    <2> QED BY <2>1, <2>2, <1>t DEF SendTypes, Aimed
  <1>6. CASE Crash
    <2>1. \A n \in Messages : steady'[n] = {}
      <3>1. \A s \in Sockets : sock'[s] # "connected"
        BY <1>6 DEF Crash
      <3> QED BY <1>6, <1>t, <3>1 DEF Crash, KeepSteady
    <2> QED BY <2>1 DEF Aimed
  <1>7. ASSUME UNCHANGED <<send, received, steady, misread>> PROVE Aimed'
    BY <1>7 DEF Aimed
  <1> QED
    BY <1>1, <1>2, <1>3, <1>4, <1>5, <1>6, <1>7
       DEF Next, vars, sendVars, Connect, LoginMe, LoginList, LeaveList, Disconnect, Find, Delete,
       Expire

\* A direct message reaches the connection of its recipient that is listed and up from its
\* arrival to its emission, whatever else logs in, leaves or expires between the saving and
\* the two lookups, unless the look at the recipient's entry met an error that
\* getSocketId swallows.
THEOREM SteadyOnesGetIt == Spec => []SteadyRecipientGets
  <1> DEFINE Inv == TypeOK /\ Listed /\ Aimed
  <1>1. Init => Inv
    <2>1. Init => Listed /\ Aimed
      BY DEF Init, Listed, Aimed
    <2> QED BY <2>1, TypingInit
  <1>2. Inv /\ [Next]_vars => Inv'
    BY TypingStep, ListedStep, AimedStep
  <1>3. Inv => SteadyRecipientGets
    BY DEF Aimed, SteadyRecipientGets
  <1> HIDE DEF Inv
  <1> QED BY <1>1, <1>2, <1>3, PTL DEF Spec

-----------------------------------------------------------------------------
(* The list of those online                                                *)

\* The handlers of a connection by name.
LEMMA HandlersOf ==
    /\ \A l \in Logins : /\ <<l, "login">> \in Handlers
                         /\ At[<<l, "login">>] = login[l] /\ At'[<<l, "login">>] = login'[l]
    /\ \A s \in Sockets : /\ <<s, "leave">> \in Handlers
                          /\ At[<<s, "leave">>] = leave[s] /\ At'[<<s, "leave">>] = leave'[s]
  BY DEF Handlers, At

\* The handler h does the next part of getOnlineUsers, or emits its list, and everybody
\* else stays where they are.
ListStep(h) ==
    /\ UNCHANGED entry
    /\ \A k \in Handlers \ {h} : At'[k] = At[k]
    /\ \/ At[h] = "keys" /\ Keys(h) /\ At'[h] = "list"
       \/ At[h] = "list" /\ Get(h) /\ At'[h] = "list"
       \/ At[h] = "list" /\ Emit(h) /\ At'[h] = "done"

\* That is what LoginList and LeaveList are.
LEMMA ListSteps ==
    ASSUME TypeOK
    PROVE  /\ \A l \in Logins : LoginList(l) => \E h \in Handlers : ListStep(h)
           /\ \A s \in Sockets : LeaveList(s) => \E h \in Handlers : ListStep(h)
  <1>t. /\ login \in [Logins -> {"idle", "keys", "list", "done"}]
        /\ leave \in [Sockets -> {"idle", "find", "delete", "keys", "list", "done"}]
    BY DEF TypeOK
  <1>1. ASSUME NEW l \in Logins, LoginList(l) PROVE \E h \in Handlers : ListStep(h)
    <2> DEFINE h == <<l, "login">>
    <2>1. h \in Handlers
      BY HandlersOf
    <2>2. \A k \in Handlers \ {h} : At'[k] = At[k]
      <3>1. leave' = leave /\ \A t \in Logins \ {l} : login'[t] = login[t]
        BY <1>1, <1>t DEF LoginList, leaveVars
      <3> QED BY <3>1 DEF Handlers, At
    <2>3. entry' = entry
      BY <1>1 DEF LoginList
    <2>4. At[h] = login[l] /\ At'[h] = login'[l]
      BY HandlersOf
    <2>5. \/ login[l] = "keys" /\ Keys(h) /\ login'[l] = "list"
          \/ login[l] = "list" /\ Get(h) /\ login'[l] = "list"
          \/ login[l] = "list" /\ Emit(h) /\ login'[l] = "done"
      BY <1>1, <1>t DEF LoginList
    <2> HIDE DEF h
    <2>6. ListStep(h)
      BY <2>2, <2>3, <2>4, <2>5 DEF ListStep
    <2> QED BY <2>1, <2>6
  <1>2. ASSUME NEW s \in Sockets, LeaveList(s) PROVE \E h \in Handlers : ListStep(h)
    <2> DEFINE h == <<s, "leave">>
    <2>1. h \in Handlers
      BY HandlersOf
    <2>2. \A k \in Handlers \ {h} : At'[k] = At[k]
      <3>1. login' = login /\ \A t \in Sockets \ {s} : leave'[t] = leave[t]
        BY <1>2, <1>t DEF LeaveList
      <3> QED BY <3>1 DEF Handlers, At
    <2>3. entry' = entry
      BY <1>2 DEF LeaveList
    <2>4. At[h] = leave[s] /\ At'[h] = leave'[s]
      BY HandlersOf
    <2>5. \/ leave[s] = "keys" /\ Keys(h) /\ leave'[s] = "list"
          \/ leave[s] = "list" /\ Get(h) /\ leave'[s] = "list"
          \/ leave[s] = "list" /\ Emit(h) /\ leave'[s] = "done"
      BY <1>2, <1>t DEF LeaveList
    <2> HIDE DEF h
    <2>6. ListStep(h)
      BY <2>2, <2>3, <2>4, <2>5 DEF ListStep
    <2> QED BY <2>1, <2>6
  <1> QED BY <1>1, <1>2

\* Keys are asked for by a handler that has none, and the list is handed over whole.
LEMMA DrawnList ==
    ASSUME TypeOK, Drawn, NEW h \in Handlers, ListStep(h) PROVE Drawn'
  <1>t. keys \in [Handlers -> SUBSET Users] /\ list \in [Handlers -> SUBSET Users]
    BY DEF TypeOK
  <1>1. CASE At[h] = "keys" /\ Keys(h) /\ At'[h] = "list"
    <2>1. \A k \in Handlers \ {h} : keys'[k] = keys[k] /\ list'[k] = list[k]
      BY <1>1, <1>t DEF Keys
    <2> QED BY <1>1, <2>1 DEF ListStep, Drawn
  <1>2. CASE At[h] = "list" /\ Get(h) /\ At'[h] = "list"
    <2>1. \A k \in Handlers \ {h} : keys'[k] = keys[k] /\ list'[k] = list[k]
      BY <1>2, <1>t DEF Get
    <2> QED BY <1>2, <2>1 DEF ListStep, Drawn
  <1>3. CASE At[h] = "list" /\ Emit(h) /\ At'[h] = "done"
    <2>1. /\ \A k \in Handlers \ {h} : keys'[k] = keys[k] /\ list'[k] = list[k]
          /\ keys'[h] = {} /\ list'[h] = {}
      BY <1>3, <1>t DEF Emit
    <2> QED BY <1>3, <2>1 DEF ListStep, Drawn
  <1> QED BY <1>1, <1>2, <1>3 DEF ListStep

\* The handler that asked last carries the entries of now from Redis to the browsers, and
\* another one that emits after it is not in order.
LEMMA FreshList ==
    ASSUME TypeOK, Drawn, Fresh, NEW h \in Handlers, ListStep(h) PROVE Fresh'
  <1>t. keys \in [Handlers -> SUBSET Users] /\ list \in [Handlers -> SUBSET Users]
    BY DEF TypeOK
  <1>o. Online' = Online
    BY DEF ListStep, Online
  <1> SUFFICES ASSUME ~blurred', ~Unread'
               PROVE  \/ /\ reader' \in Handlers /\ At'[reader'] = "list"
                         /\ keys'[reader'] = Online /\ list'[reader'] = {}
                      \/ /\ reader' \in Handlers /\ At'[reader'] = "list"
                         /\ keys'[reader'] = {} /\ list'[reader'] = Online
                      \/ /\ reader' \in Handlers /\ At'[reader'] = "done"
                         /\ (inOrder' => shown' = Online)
    BY <1>o DEF Fresh
  <1>1. CASE At[h] = "keys" /\ Keys(h) /\ At'[h] = "list"
    <2>1. reader' = h /\ keys'[h] = Online /\ list'[h] = list[h]
      BY <1>1, <1>t DEF Keys
    <2>2. list[h] = {}
      BY <1>1 DEF Drawn
    <2> QED BY <1>1, <2>1, <2>2
  <1>2. ASSUME At[h] # "keys", ~blurred
        PROVE  \/ /\ reader \in Handlers /\ At[reader] = "list"
                  /\ keys[reader] = Online /\ list[reader] = {}
               \/ /\ reader \in Handlers /\ At[reader] = "list"
                  /\ keys[reader] = {} /\ list[reader] = Online
               \/ reader \in Handlers /\ At[reader] = "done" /\ (inOrder => shown = Online)
    <2>1. ~Unread
      BY <1>2 DEF Unread, ListStep
    <2>2. At[h] = "list"
      BY <1>2 DEF ListStep
    <2> QED BY <1>2, <2>1, <2>2 DEF Fresh
  <1>3. CASE At[h] = "list" /\ Get(h) /\ At'[h] = "list"
    <2>a. ~blurred
      BY <1>3, Zenon DEF Get
    <2>1. /\ keys[h] # {} /\ UNCHANGED <<shown, reader, inOrder>>
          /\ \A k \in Handlers \ {h} : keys'[k] = keys[k] /\ list'[k] = list[k]
      BY <1>3, <1>t DEF Get
    <2>2. h = reader => keys'[h] = {} /\ list'[h] = keys[h] \cap Online
      BY <1>3, <1>t DEF Get
    <2>3. CASE h = reader
      BY <1>2, <1>3, <2>a, <2>1, <2>2, <2>3 DEF ListStep
    <2>4. CASE h # reader
      BY <1>2, <1>3, <2>a, <2>1, <2>4 DEF ListStep
    <2> QED BY <2>3, <2>4
  <1>4. CASE At[h] = "list" /\ Emit(h) /\ At'[h] = "done"
    <2>1. /\ ~blurred /\ keys[h] = {} /\ shown' = list[h]
          /\ (inOrder' <=> h = reader) /\ reader' = reader
          /\ \A k \in Handlers \ {h} : keys'[k] = keys[k] /\ list'[k] = list[k]
      BY <1>4, <1>t DEF Emit
    <2>2. CASE h = reader
      BY <1>2, <1>4, <2>1, <2>2 DEF ListStep
    <2>3. CASE h # reader
      BY <1>2, <1>4, <2>1, <2>3 DEF ListStep
    <2> QED BY <2>2, <2>3
  <1> QED BY <1>1, <1>3, <1>4 DEF ListStep

\* A step of a disconnect before its deletion, or one elsewhere, has no part in the lists.
LEMMA FreshKept ==
    ASSUME Drawn, Fresh, UNCHANGED <<entry, listVars>>,
           \A h \in Handlers : \/ At'[h] = At[h]
                               \/ /\ At[h] \in {"idle", "find"}
                                  /\ At'[h] \in {"find", "delete", "done"}
    PROVE  Drawn' /\ Fresh'
  <1>1. UNCHANGED <<keys, list, shown, reader, inOrder, blurred, Online>>
    BY DEF listVars, Online
  <1>2. Drawn'
    BY <1>1 DEF Drawn
  <1>3. Unread' <=> Unread
    BY DEF Unread
  <1>4. Fresh'
    BY <1>1, <1>3 DEF Fresh
  <1> QED BY <1>2, <1>4

\* A step after which a handler has still to ask, or the list is blurred, promises nothing.
LEMMA FreshLater ==
    ASSUME Unread' \/ blurred' = TRUE PROVE Fresh'
  BY DEF Fresh

\* The list of those online is kept fresh by every step.
LEMMA FreshStep == TypeOK /\ Gone /\ Drawn /\ Fresh /\ [Next]_vars => Drawn' /\ Fresh'
  <1> SUFFICES ASSUME TypeOK, Gone, Drawn, Fresh, [Next]_vars PROVE Drawn' /\ Fresh'
    OBVIOUS
  <1>t. /\ login \in [Logins -> {"idle", "keys", "list", "done"}]
        /\ leave \in [Sockets -> {"idle", "find", "delete", "keys", "list", "done"}]
    BY DEF TypeOK
  <1>1. ASSUME UNCHANGED <<login, leave, entry, listVars>> PROVE Drawn' /\ Fresh'
    <2>1. \A h \in Handlers : At'[h] = At[h]
      BY <1>1 DEF At
    <2> QED BY <1>1, <2>1, FreshKept
  <1>2. ASSUME NEW l \in Logins, NEW s \in Sockets, NEW u \in Users, LoginMe(l, s, u)
        PROVE  Drawn' /\ Fresh'
    <2>1. /\ login[l] = "idle" /\ login' = [login EXCEPT ![l] = "keys"]
          /\ UNCHANGED <<leave, keys, list>>
      BY <1>2 DEF LoginMe, listVars, leaveVars
    <2>2. At'[<<l, "login">>] = "keys"
      BY <2>1, <1>t, HandlersOf
    <2>3. Unread'
      BY <2>2, HandlersOf DEF Unread
    <2>4. \A h \in Handlers : At'[h] # "list" => At[h] # "list"
      BY <2>1, <1>t DEF Handlers, At
    <2> QED BY <2>1, <2>3, <2>4, FreshLater DEF Drawn
  <1>3. ASSUME NEW s \in Sockets, Delete(s) PROVE Drawn' /\ Fresh'
    <2>1. /\ leave[s] = "delete" /\ leave' = [leave EXCEPT ![s] = "keys"]
          /\ UNCHANGED <<login, keys, list>>
      BY <1>3 DEF Delete, listVars
    <2>2. At'[<<s, "leave">>] = "keys"
      BY <2>1, <1>t, HandlersOf
    <2>3. Unread'
      BY <2>2, HandlersOf DEF Unread
    <2>4. \A h \in Handlers : At'[h] # "list" => At[h] # "list"
      BY <2>1, <1>t DEF Handlers, At
    <2> QED BY <2>1, <2>3, <2>4, FreshLater DEF Drawn
  <1>4. ASSUME \/ \E l \in Logins : LoginList(l)
               \/ \E s \in Sockets : LeaveList(s)
        PROVE  Drawn' /\ Fresh'
    BY <1>4, ListSteps, DrawnList, FreshList
  <1>5. ASSUME NEW s \in Sockets, Disconnect(s) \/ Find(s) PROVE Drawn' /\ Fresh'
    <2>1. /\ leave[s] \in {"idle", "find"} /\ leave'[s] \in {"find", "delete", "done"}
          /\ \A t \in Sockets \ {s} : leave'[t] = leave[t]
          /\ UNCHANGED <<login, entry, listVars>>
      <3>1. CASE Disconnect(s)
        BY <1>t, <3>1 DEF Disconnect, Gone
      <3>2. CASE Find(s)
        BY <1>t, <3>2 DEF Find
      <3> QED BY <1>5, <3>1, <3>2
    <2>2. \A h \in Handlers : \/ At'[h] = At[h]
                              \/ /\ At[h] \in {"idle", "find"}
                                 /\ At'[h] \in {"find", "delete", "done"}
      BY <2>1 DEF Handlers, At
    <2> QED BY <2>1, <2>2, FreshKept
  <1>6. ASSUME NEW u \in Users, Expire(u) PROVE Drawn' /\ Fresh'
    <2>1. blurred' = TRUE /\ UNCHANGED <<login, leave, keys, list>>
      BY <1>6 DEF Expire, leaveVars
    <2> QED BY <2>1, FreshLater DEF Drawn, At
  <1>7. CASE Crash
    <2>1. blurred' = TRUE /\ keys' = [h \in Handlers |-> {}] /\ list' = [h \in Handlers |-> {}]
      BY <1>7 DEF Crash
    <2> QED BY <2>1, FreshLater DEF Drawn
  <1> QED
    BY <1>1, <1>2, <1>3, <1>4, <1>5, <1>6, <1>7, StepsElsewhere
       DEF Next, vars, Connect, Elsewhere, leaveVars

\* When all is quiet the browsers' list is that of the entries, if the handler that asked
\* for the keys last was also the last to emit and nothing was lost meanwhile: concurrent
\* logins and disconnects leave no stale list behind in any other way.
THEOREM QuietListIsFresh == Spec => []ListFresh
  <1> DEFINE Inv == TypeOK /\ Gone /\ Drawn /\ Fresh
  <1>1. Init => Inv
    <2> SUFFICES ASSUME Init PROVE Gone /\ Drawn /\ Fresh
      BY TypingInit
    <2>1. Gone /\ Drawn /\ Online = {} /\ shown = {}
      BY DEF Init, Gone, Drawn, Online
    <2>2. \A h \in Handlers : At[h] # "list"
      BY DEF Init, At, Handlers
    <2> QED BY <2>1, <2>2 DEF Fresh
  <1>2. Inv /\ [Next]_vars => Inv'
    BY TypingStep, GoneStep, FreshStep
  <1>3. Inv => ListFresh
    <2> SUFFICES ASSUME Inv, Quiet, inOrder, ~blurred PROVE shown = Online
      BY DEF ListFresh
    <2>1. \A h \in Handlers : At[h] \in {"idle", "done"}
      BY DEF Quiet, Handlers, At
    <2>2. ~Unread
      BY <2>1 DEF Unread
    <2> QED BY <2>1, <2>2 DEF Fresh
  <1> HIDE DEF Inv
  <1> QED BY <1>1, <1>2, <1>3, PTL DEF Spec
=============================================================================
