------------------------ MODULE ChannelPresenceProofs ------------------------
(***************************************************************************)
(* The properties of ChannelPresence, for any number of connections and    *)
(* users.                                                                  *)
(***************************************************************************)
EXTENDS ChannelPresence, FiniteSetTheorems, TLAPS

-----------------------------------------------------------------------------
(* Type correctness                                                        *)

\* Every state the commands reach is well formed.
THEOREM TypeCorrect == Spec => []TypeOK
<1>1. Init => TypeOK
  BY DEF Init, TypeOK, Points
<1>2. TypeOK /\ [Next]_vars => TypeOK'
  <2> SUFFICES ASSUME TypeOK, [Next]_vars PROVE TypeOK'
    OBVIOUS
  <2> USE PresenceAssumption
      DEF TypeOK, Points, Commands, Goto, ghosts,
          AddsUser, AddsActive, RemovesUser, DeletesKey, RemovesActive
  <2>1. ASSUME NEW c \in Conns, Connect(c) PROVE TypeOK'
    BY <2>1 DEF Connect
  <2>2. ASSUME NEW c \in Conns, AddUser(c) PROVE TypeOK'
    BY <2>2 DEF AddUser
  <2>3. ASSUME NEW c \in Conns, AddActive(c) PROVE TypeOK'
    BY <2>3 DEF AddActive
  <2>4. ASSUME NEW c \in Conns, Disconnect(c) PROVE TypeOK'
    BY <2>4 DEF Disconnect
  <2>5. ASSUME NEW c \in Conns, RemoveUser(c) PROVE TypeOK'
    BY <2>5 DEF RemoveUser
  <2>6. ASSUME NEW c \in Conns, CountUsers(c) PROVE TypeOK'
    BY <2>6 DEF CountUsers
  <2>7. ASSUME NEW c \in Conns, DeleteKey(c) PROVE TypeOK'
    BY <2>7 DEF DeleteKey
  <2>8. ASSUME NEW c \in Conns, RemoveActive(c) PROVE TypeOK'
    BY <2>8 DEF RemoveActive
  <2>9. ASSUME NEW c \in Conns, CommandFails(c) PROVE TypeOK'
    BY <2>9 DEF CommandFails
  <2>10. CASE Crash
    BY <2>10 DEF Crash
  <2>11. CASE UNCHANGED vars
    BY <2>11 DEF vars
  <2>12. ASSUME NEW c \in Conns, CommandLost(c) PROVE TypeOK'
    BY <2>12 DEF CommandLost
  <2>13. ASSUME NEW c \in Conns, LateCommand(c) PROVE TypeOK'
    BY <2>13 DEF LateCommand
  <2> QED
    BY <2>1, <2>2, <2>3, <2>4, <2>5, <2>6, <2>7, <2>8, <2>9, <2>10, <2>11, <2>12, <2>13
       DEF Next, Track, AllGone
<1> QED
  BY <1>1, <1>2, PTL DEF Spec

-----------------------------------------------------------------------------
(* Ghosts                                                                  *)

\* What the entry of user u is there for.
Accounts(c, u) == /\ UserOf[c] = u
                  /\ pc[c] \in {"addActive", "online", "removeUser"} \/ c \in owing

\* An entry is accounted for by a connection that is listed, or gone and owing its
\* removal: NoGhost is inductive as it stands.
THEOREM NoGhosts == Spec => []NoGhost
<1>1. Init => NoGhost
  BY DEF Init, NoGhost
<1>2. TypeOK /\ NoGhost /\ [Next]_vars => NoGhost'
  <2> SUFFICES ASSUME TypeOK, NoGhost, [Next]_vars, NEW u \in presence'
               PROVE  \E c \in Conns : Accounts(c, u)'
    BY DEF NoGhost, Accounts
  <2>0. u \in presence => \E c \in Conns : Accounts(c, u)
    BY DEF NoGhost, Accounts
  <2> USE PresenceAssumption DEF TypeOK, Goto, Accounts
  <2>1. ASSUME NEW c \in Conns, AddUser(c) PROVE \E d \in Conns : Accounts(d, u)'
    <3>1. CASE u = UserOf[c]
      BY <2>1, <3>1 DEF AddUser
    <3>2. CASE u \in presence
      BY <2>0, <2>1, <3>2 DEF AddUser
    <3> QED
      BY <2>1, <3>1, <3>2 DEF AddUser, AddsUser
  <2>2. ASSUME NEW c \in Conns, RemoveUser(c) PROVE \E d \in Conns : Accounts(d, u)'
    <3>1. u \in presence /\ u # UserOf[c]
      BY <2>2 DEF RemoveUser, RemovesUser
    <3>2. PICK d \in Conns : Accounts(d, u)
      BY <2>0, <3>1
    <3> QED
      BY <2>2, <3>1, <3>2 DEF RemoveUser, RemovesUser
  <2>3. ASSUME NEW c \in Conns,
               Connect(c) \/ AddActive(c) \/ Disconnect(c) \/ CountUsers(c) \/ RemoveActive(c)
                          \/ CommandFails(c) \/ CommandLost(c)
        PROVE  \E d \in Conns : Accounts(d, u)'
    <3>1. u \in presence
      BY <2>3 DEF Connect, AddActive, AddsActive, Disconnect, CountUsers, RemoveActive,
                  RemovesActive, CommandFails, CommandLost
    <3>2. PICK d \in Conns : Accounts(d, u)
      BY <2>0, <3>1
    <3>3. Accounts(d, u)'
      BY <2>3, <3>2 DEF Connect, AddActive, AddsActive, Disconnect, CountUsers, RemoveActive,
                        RemovesActive, CommandFails, CommandLost, ghosts
    <3> QED
      BY <3>3
  <2>4. ASSUME NEW c \in Conns, DeleteKey(c) PROVE FALSE
    BY <2>4 DEF DeleteKey, DeletesKey
  <2>5. ASSUME NEW c \in Conns, LateCommand(c) PROVE \E d \in Conns : Accounts(d, u)'
    <3>1. pc' = pc
      BY <2>5 DEF LateCommand
    <3>2. CASE AddsUser(c) /\ owing' = owing \cup {c}
      <4>1. CASE u = UserOf[c]
        BY <3>2, <4>1
      <4>2. CASE u \in presence
        BY <2>0, <3>1, <3>2, <4>2
      <4> QED
        BY <3>2, <4>1, <4>2 DEF AddsUser
    <3>3. CASE RemovesUser(c)
      <4>1. u \in presence /\ u # UserOf[c]
        BY <3>3 DEF RemovesUser
      <4>2. PICK d \in Conns : Accounts(d, u)
        BY <2>0, <4>1
      <4> QED
        BY <3>1, <3>3, <4>1, <4>2 DEF RemovesUser
    <3>4. CASE AddsActive(c) \/ RemovesActive
      BY <2>0, <3>1, <3>4 DEF AddsActive, RemovesActive
    <3>5. CASE DeletesKey
      BY <3>5 DEF DeletesKey
    <3> QED
      BY <2>5, <3>2, <3>3, <3>4, <3>5 DEF LateCommand
  <2>6. CASE Crash
    BY <2>0, <2>6 DEF Crash
  <2>7. CASE UNCHANGED vars
    BY <2>0, <2>7 DEF vars, ghosts
  <2> QED
    BY <2>1, <2>2, <2>3, <2>4, <2>5, <2>6, <2>7 DEF Next, Track, AllGone
<1> QED
  BY <1>1, <1>2, TypeCorrect, PTL DEF Spec

-----------------------------------------------------------------------------
(* The last one out                                                        *)

\* A command that its sender no longer waits for counts as failed, and so does
\* the connection whose removal is owed.
LateHaveFailed == (\A p \in late : p[1] \in failed) /\ owing \subseteq failed

\* Whoever enters late or owing has failed, or fails with that step.
LEMMA LateStep == TypeOK /\ LateHaveFailed /\ [Next]_vars => LateHaveFailed'
<1> SUFFICES ASSUME TypeOK, LateHaveFailed, [Next]_vars PROVE LateHaveFailed'
  OBVIOUS
<1> USE DEF LateHaveFailed, TypeOK
<1>1. ASSUME NEW c \in Conns, CommandLost(c) PROVE LateHaveFailed'
  BY <1>1 DEF CommandLost
<1>2. ASSUME NEW c \in Conns, LateCommand(c) PROVE LateHaveFailed'
  BY <1>2 DEF LateCommand, AddsUser, AddsActive, RemovesUser, DeletesKey, RemovesActive
<1>3. ASSUME NEW c \in Conns, CommandFails(c) PROVE LateHaveFailed'
  BY <1>3 DEF CommandFails
<1>4. CASE Crash
  BY <1>4 DEF Crash
<1>5. ASSUME late' = late, failed' = failed, owing' \subseteq owing PROVE LateHaveFailed'
  BY <1>5
<1> QED
  BY <1>1, <1>2, <1>3, <1>4, <1>5
     DEF Next, Track, Connect, AddUser, AddsUser, AddActive, AddsActive, Disconnect, RemoveUser,
         RemovesUser, CountUsers, DeleteKey, DeletesKey, RemoveActive, RemovesActive, AllGone,
         vars, ghosts

\* What Redis holds while no command has failed, some connection will still
\* look at: it is between its first addition and its last command.
Busy(c) == pc[c] \in Points \ {"new", "addUser", "done"}
LookedAfter == failed = {} /\ (presence # {} \/ active) => \E c \in Conns : Busy(c)

\* The set is finite, so that a count of zero means that it is empty.
PresenceFinite == IsFiniteSet(presence)

\* The set stays finite: it is only ever extended by one user.
LEMMA FiniteStep == PresenceFinite /\ [Next]_vars => PresenceFinite'
<1> SUFFICES ASSUME PresenceFinite, [Next]_vars PROVE PresenceFinite'
  OBVIOUS
<1>1. ASSUME NEW c \in Conns, AddsUser(c) PROVE PresenceFinite'
  BY <1>1, FS_AddElement DEF AddsUser, PresenceFinite
<1>2. ASSUME NEW c \in Conns, RemovesUser(c) PROVE PresenceFinite'
  BY <1>2, FS_RemoveElement DEF RemovesUser, PresenceFinite
<1>3. CASE DeletesKey
  BY <1>3, FS_EmptySet DEF DeletesKey, PresenceFinite
<1>4. ASSUME presence' = presence PROVE PresenceFinite'
  BY <1>4 DEF PresenceFinite
<1>5. ASSUME NEW c \in Conns, LateCommand(c) PROVE PresenceFinite'
  BY <1>1, <1>2, <1>3, <1>4, <1>5 DEF LateCommand, AddsActive, RemovesActive
<1> QED
  BY <1>1, <1>2, <1>3, <1>4, <1>5
     DEF Next, Track, Connect, AddUser, AddActive, AddsActive, Disconnect, RemoveUser, CountUsers,
         DeleteKey, RemoveActive, RemovesActive, CommandFails, CommandLost, Crash, AllGone, vars

\* The connection that decides that nothing is left to do leaves somebody behind
\* who is still listed (NoGhost), and otherwise somebody is always on the way.
LEMMA LookedAfterStep ==
  TypeOK /\ PresenceFinite /\ NoGhost /\ LateHaveFailed /\ LookedAfter /\ [Next]_vars
    => LookedAfter'
<1> SUFFICES ASSUME TypeOK, PresenceFinite, NoGhost, LateHaveFailed, LookedAfter, [Next]_vars,
                    failed' = {}, presence' # {} \/ active'
             PROVE  \E c \in Conns : Busy(c)'
  BY DEF LookedAfter
<1> USE DEF TypeOK, Points, Goto, Busy
<1>1. ASSUME NEW c \in Conns, Connect(c) PROVE \E d \in Conns : Busy(d)'
  BY <1>1 DEF Connect, LookedAfter, ghosts
<1>2. ASSUME NEW c \in Conns, AddUser(c) \/ AddActive(c) \/ Disconnect(c) \/ RemoveUser(c)
                              \/ DeleteKey(c)
      PROVE \E d \in Conns : Busy(d)'
  BY <1>2 DEF AddUser, AddActive, Disconnect, RemoveUser, DeleteKey
<1>3. ASSUME NEW c \in Conns, CountUsers(c) PROVE \E d \in Conns : Busy(d)'
  <2>1. CASE presence = {}
    BY <1>3, <2>1, FS_EmptySet DEF CountUsers
  <2>2. CASE presence # {}
    <3>1. PICK d \in Conns : pc[d] \in {"addActive", "online", "removeUser"}
      BY <1>3, <2>2 DEF CountUsers, NoGhost, LateHaveFailed, ghosts
    <3> QED
      BY <1>3, <3>1 DEF CountUsers
  <2> QED
    BY <2>1, <2>2
<1>4. ASSUME NEW c \in Conns, RemoveActive(c) PROVE \E d \in Conns : Busy(d)'
  <2>1. PICK d \in Conns : pc[d] \in {"addActive", "online", "removeUser"}
    BY <1>4 DEF RemoveActive, RemovesActive, NoGhost, LateHaveFailed
  <2> QED
    BY <1>4, <2>1 DEF RemoveActive
<1>5. ASSUME NEW c \in Conns, CommandFails(c) \/ CommandLost(c) PROVE FALSE
  BY <1>5 DEF CommandFails, CommandLost
<1>6. ASSUME NEW c \in Conns, LateCommand(c) PROVE FALSE
  BY <1>6 DEF LateCommand, LateHaveFailed
<1>7. CASE Crash
  BY <1>7 DEF Crash
<1>8. CASE UNCHANGED vars
  BY <1>8 DEF vars, ghosts, LookedAfter
<1> QED
  BY <1>1, <1>2, <1>3, <1>4, <1>5, <1>6, <1>7, <1>8 DEF Next, Track, AllGone

\* When the last connection has left and no command has failed, neither a user
\* nor the channel's mark is left in Redis.
THEOREM LastOneOutClearsAll == Spec => []LastOneOut
<1>1. Init => PresenceFinite /\ LateHaveFailed /\ LookedAfter
  BY FS_EmptySet DEF Init, PresenceFinite, LateHaveFailed, LookedAfter
<1>2. LookedAfter => LastOneOut
  BY DEF LookedAfter, LastOneOut, Busy, Points
<1> QED
  BY <1>1, <1>2, FiniteStep, LateStep, LookedAfterStep, TypeCorrect, NoGhosts, PTL DEF Spec

-----------------------------------------------------------------------------
(* Who is online is listed                                                 *)

Undisturbed(c) == c \notin failed \cup disturbed

\* OnlineIsListed, with what holds on the way there ...
Listed ==
    \A c \in Conns : Undisturbed(c) =>
        /\ pc[c] \in {"addActive", "online"} => UserOf[c] \in presence
        /\ pc[c] = "online" => active

\* ... and with whom a deletion of the key, or a removal of the mark, that is
\* under way or late can still harm: nobody.
NobodyInTheWay ==
    \A c \in Conns : Undisturbed(c) =>
        /\ UnderWay("deleteKey") => pc[c] \notin {"addActive", "online"}
        /\ UnderWay("removeActive") => pc[c] # "online"

\* Every step keeps the undisturbed listed and out of harm's way.
LEMMA ListedStep ==
  TypeOK /\ PresenceFinite /\ LateHaveFailed /\ Listed /\ NobodyInTheWay /\ [Next]_vars
    => Listed' /\ NobodyInTheWay'
<1> SUFFICES ASSUME TypeOK, PresenceFinite, LateHaveFailed, Listed, NobodyInTheWay, [Next]_vars
             PROVE  Listed' /\ NobodyInTheWay'
  OBVIOUS
<1> USE PresenceAssumption
    DEF TypeOK, Points, Goto, Undisturbed, Listed, NobodyInTheWay, UnderWay, ghosts
<1>1. ASSUME NEW c \in Conns, Connect(c) PROVE Listed' /\ NobodyInTheWay'
  BY <1>1 DEF Connect
<1>2. ASSUME NEW c \in Conns, AddUser(c) PROVE Listed' /\ NobodyInTheWay'
  BY <1>2 DEF AddUser, AddsUser
<1>3. ASSUME NEW c \in Conns, AddActive(c) PROVE Listed' /\ NobodyInTheWay'
  BY <1>3 DEF AddActive, AddsActive
<1>4. ASSUME NEW c \in Conns, Disconnect(c) PROVE Listed' /\ NobodyInTheWay'
  BY <1>4 DEF Disconnect
<1>5. ASSUME NEW c \in Conns, RemoveUser(c) PROVE Listed' /\ NobodyInTheWay'
  <2>1. Listed'
    BY <1>5 DEF RemoveUser, RemovesUser
  <2>2. NobodyInTheWay'
    BY <1>5 DEF RemoveUser, RemovesUser
  <2> QED
    BY <2>1, <2>2
<1>6. ASSUME NEW c \in Conns, CountUsers(c) PROVE Listed' /\ NobodyInTheWay'
  <2>1. pc'[c] = "deleteKey" => presence = {}
    BY <1>6, FS_EmptySet DEF CountUsers, PresenceFinite
  <2> QED
    BY <1>6, <2>1 DEF CountUsers
<1>7. ASSUME NEW c \in Conns, DeleteKey(c) PROVE Listed' /\ NobodyInTheWay'
  BY <1>7 DEF DeleteKey, DeletesKey
<1>8. ASSUME NEW c \in Conns, RemoveActive(c) PROVE Listed' /\ NobodyInTheWay'
  BY <1>8 DEF RemoveActive, RemovesActive
<1>9. ASSUME NEW c \in Conns, CommandFails(c) PROVE Listed' /\ NobodyInTheWay'
  BY <1>9 DEF CommandFails
<1>10. ASSUME NEW c \in Conns, CommandLost(c) PROVE Listed' /\ NobodyInTheWay'
  <2>1. UnderWay("deleteKey")' => UnderWay("deleteKey")
    BY <1>10 DEF CommandLost
  <2>2. UnderWay("removeActive")' => UnderWay("removeActive")
    BY <1>10 DEF CommandLost
  <2> QED
    BY <1>10, <2>1, <2>2 DEF CommandLost
<1>11. ASSUME NEW c \in Conns, LateCommand(c) PROVE Listed' /\ NobodyInTheWay'
  <2>1. PICK command \in Commands : /\ <<c, command>> \in late
                                    /\ late' = late \ {<<c, command>>}
                                    /\ UNCHANGED <<pc, failed>>
                                    /\ \/ AddsUser(c) \/ AddsActive(c)
                                       \/ command = "removeUser" /\ RemovesUser(c)
                                       \/ command = "deleteKey" /\ DeletesKey
                                       \/ command = "removeActive" /\ RemovesActive
    BY <1>11 DEF LateCommand
  <2>2. c \in failed
    BY <2>1 DEF LateHaveFailed
  <2>3. NobodyInTheWay'
    BY <2>1 DEF AddsUser, AddsActive, RemovesUser, DeletesKey, RemovesActive
  <2>4. CASE AddsUser(c) \/ AddsActive(c)
    BY <2>1, <2>3, <2>4 DEF AddsUser, AddsActive
  <2>5. CASE RemovesUser(c)
    BY <2>1, <2>2, <2>3, <2>5 DEF RemovesUser
  <2>6. CASE command = "deleteKey" /\ DeletesKey
    BY <2>1, <2>3, <2>6 DEF DeletesKey
  <2>7. CASE command = "removeActive" /\ RemovesActive
    BY <2>1, <2>3, <2>7 DEF RemovesActive
  <2> QED
    BY <2>1, <2>4, <2>5, <2>6, <2>7
<1>12. CASE Crash
  BY <1>12 DEF Crash
<1>13. CASE UNCHANGED vars
  BY <1>13 DEF vars
<1> QED
  BY <1>1, <1>2, <1>3, <1>4, <1>5, <1>6, <1>7, <1>8, <1>9, <1>10, <1>11, <1>12, <1>13
     DEF Next, Track, AllGone

\* Whoever is online is listed, but for the cases OnlineIsListed names.
THEOREM OnlineAreListed == Spec => []OnlineIsListed
<1>1. Init => PresenceFinite /\ LateHaveFailed /\ Listed /\ NobodyInTheWay
  BY FS_EmptySet DEF Init, PresenceFinite, LateHaveFailed, Listed, NobodyInTheWay
<1>2. Listed => OnlineIsListed
  BY DEF Listed, OnlineIsListed, Undisturbed
<1> QED
  BY <1>1, <1>2, FiniteStep, LateStep, ListedStep, TypeCorrect, PTL DEF Spec
=============================================================================
