---------------------------- MODULE ConnRegistry ----------------------------
(***************************************************************************)
(* How a connection finds its hub and its socket: HubManager.GetOrCreate   *)
(* under the manager's lock, and the package-level map connStore, written  *)
(* by the handler and read by writePump under the lock of the connection's *)
(* own hub.  A Go map does not survive two overlapping accesses of which   *)
(* one is a write: from then on its contents are anything (or the runtime  *)
(* ends the process), which torn stands for.                               *)
(***************************************************************************)
EXTENDS Naturals, FiniteSets

CONSTANTS Conns,      \* WebSocket connections being set up
          Channels,   \* channels
          ChannelOf,  \* the channel each connection asks for
          NoHub       \* not a hub

ASSUME RegistryAssumption ==
    /\ IsFiniteSet(Conns) /\ ChannelOf \in [Conns -> Channels]
    /\ NoHub \notin Nat

VARIABLES
    hubs,      \* HubManager.hubs: the hub of each channel, a number, or NoHub
    created,   \* number of hubs made so far, each with its run goroutine
    manager,   \* who holds HubManager.mu: at most one connection's handler
    handler,   \* program point of WsHandler, per connection
    hub,       \* Client.hub, per connection
    pump,      \* program point of writePump, per connection
    writing,   \* connections whose handler holds its hub's mu for writing
    reading,   \* connections whose writePump holds its hub's mu for reading
    stored,    \* connections with an entry in connStore
    found,     \* what getConn has answered to each writePump
    torn       \* two accesses of connStore have overlapped, one of them a write

vars == <<hubs, created, manager, handler, hub, pump, writing, reading, stored, found, torn>>

HandlerPoints == {"start", "lookup", "create", "lock", "store", "register", "done"}
PumpPoints == {"none", "rlock", "fetch", "pump"}
Hubs == 1..Cardinality(Conns)

TypeOK ==
    /\ hubs \in [Channels -> Hubs \cup {NoHub}]
    /\ created \in 0..Cardinality(Conns)
    /\ manager \in SUBSET Conns
    /\ handler \in [Conns -> HandlerPoints]
    /\ hub \in [Conns -> Hubs \cup {NoHub}]
    /\ pump \in [Conns -> PumpPoints]
    /\ writing \in SUBSET Conns
    /\ reading \in SUBSET Conns
    /\ stored \in SUBSET Conns
    /\ found \in [Conns -> {"unasked", "conn", "nil"}]
    /\ torn \in BOOLEAN

Init ==
    /\ hubs = [ch \in Channels |-> NoHub]
    /\ created = 0
    /\ manager = {}
    /\ handler = [c \in Conns |-> "start"]
    /\ hub = [c \in Conns |-> NoHub]
    /\ pump = [c \in Conns |-> "none"]
    /\ writing = {} /\ reading = {}
    /\ stored = {}
    /\ found = [c \in Conns |-> "unasked"]
    /\ torn = FALSE

Goto(c, point) == handler' = [handler EXCEPT ![c] = point]

-----------------------------------------------------------------------------
(* HubManager.GetOrCreate                                                  *)

\* Mutant: GetOrCreate does not take the manager's lock.
LockManagerNever(c) ==
    /\ handler[c] = "start"
    /\ manager' = manager \cup {c}
    /\ Goto(c, "lookup")
    /\ UNCHANGED <<hubs, created, hub, pump, writing, reading, stored, found, torn>>

LockManager(c) ==
    /\ handler[c] = "start"
    /\ manager = {}
    /\ manager' = {c}
    /\ Goto(c, "lookup")
    /\ UNCHANGED <<hubs, created, hub, pump, writing, reading, stored, found, torn>>

\* Mutant: an early return without an Unlock.
ReuseHubLocked(c) ==
    /\ handler[c] = "lookup"
    /\ hubs[ChannelOf[c]] # NoHub
    /\ hub' = [hub EXCEPT ![c] = hubs[ChannelOf[c]]]
    /\ Goto(c, "lock")
    /\ UNCHANGED <<hubs, created, manager, pump, writing, reading, stored, found, torn>>

\* The channel has a hub: it is returned and the deferred Unlock runs.
ReuseHub(c) ==
    /\ handler[c] = "lookup"
    /\ hubs[ChannelOf[c]] # NoHub
    /\ hub' = [hub EXCEPT ![c] = hubs[ChannelOf[c]]]
    /\ manager' = manager \ {c}
    /\ Goto(c, "lock")
    /\ UNCHANGED <<hubs, created, pump, writing, reading, stored, found, torn>>

MissHub(c) ==
    /\ handler[c] = "lookup"
    /\ hubs[ChannelOf[c]] = NoHub
    /\ Goto(c, "create")
    /\ UNCHANGED <<hubs, created, manager, hub, pump, writing, reading, stored, found, torn>>

\* Mutant: making the hub is retried.
CreateHubRetried(c) ==
    /\ handler[c] = "create"
    /\ created' = created + 1
    /\ hubs' = [hubs EXCEPT ![ChannelOf[c]] = created + 1]
    /\ hub' = [hub EXCEPT ![c] = created + 1]
    /\ \/ manager' = manager \ {c} /\ Goto(c, "lock")
       \/ UNCHANGED <<manager, handler>>
    /\ UNCHANGED <<pump, writing, reading, stored, found, torn>>

\* The hub is made, entered in the map and its goroutine started.
CreateHub(c) ==
    /\ handler[c] = "create"
    /\ created' = created + 1
    /\ hubs' = [hubs EXCEPT ![ChannelOf[c]] = created + 1]
    /\ hub' = [hub EXCEPT ![c] = created + 1]
    /\ manager' = manager \ {c}
    /\ Goto(c, "lock")
    /\ UNCHANGED <<pump, writing, reading, stored, found, torn>>

-----------------------------------------------------------------------------
(* connStore                                                               *)

\* hub.mu.Lock() and the beginning of the map assignment.  The lock excludes
\* the goroutines of this hub, and only those.
LockHub(c) ==
    /\ handler[c] = "lock"
    /\ \A d \in writing \cup reading : hub[d] # hub[c]
    /\ writing' = writing \cup {c}
    /\ torn' = (torn \/ writing \cup reading # {})
    /\ Goto(c, "store")
    /\ UNCHANGED <<hubs, created, manager, hub, pump, reading, stored, found>>

\* The assignment ends and hub.mu is unlocked.  In a torn map it may be lost.
StoreConn(c) ==
    /\ handler[c] = "store"
    /\ stored' \in {stored \cup {c}} \cup IF torn THEN {stored} ELSE {}
    /\ writing' = writing \ {c}
    /\ Goto(c, "register")
    /\ UNCHANGED <<hubs, created, manager, hub, pump, reading, found, torn>>

\* Mutant: writePump is started before the socket is stored.
StartPumpEarly(c) ==
    /\ handler[c] \in {"lock", "register"} /\ pump[c] = "none"
    /\ pump' = [pump EXCEPT ![c] = "rlock"]
    /\ IF handler[c] = "register" THEN Goto(c, "done") ELSE UNCHANGED handler
    /\ UNCHANGED <<hubs, created, manager, hub, writing, reading, stored, found, torn>>

\* The client is registered, its presence tracked, and writePump started.
StartPump(c) ==
    /\ handler[c] = "register"
    /\ pump' = [pump EXCEPT ![c] = "rlock"]
    /\ Goto(c, "done")
    /\ UNCHANGED <<hubs, created, manager, hub, writing, reading, stored, found, torn>>

\* Mutant: getConn reads without hub.mu.
RLockHubNever(c) ==
    /\ pump[c] = "rlock"
    /\ pump' = [pump EXCEPT ![c] = "fetch"]
    /\ reading' = reading \cup {c}
    /\ torn' = (torn \/ writing # {})
    /\ UNCHANGED <<hubs, created, manager, handler, hub, writing, stored, found>>

\* getConn: hub.mu.RLock() and the beginning of the map access.
RLockHub(c) ==
    /\ pump[c] = "rlock"
    /\ \A d \in writing : hub[d] # hub[c]
    /\ pump' = [pump EXCEPT ![c] = "fetch"]
    /\ reading' = reading \cup {c}
    /\ torn' = (torn \/ writing # {})
    /\ UNCHANGED <<hubs, created, manager, handler, hub, writing, stored, found>>

\* getConn returns the entry, or nil when there is none.
FetchConn(c) ==
    /\ pump[c] = "fetch"
    /\ \E answer \in {"conn", "nil"} :
        /\ torn \/ (answer = "conn" <=> c \in stored)
        /\ found' = [found EXCEPT ![c] = answer]
    /\ pump' = [pump EXCEPT ![c] = "pump"]
    /\ reading' = reading \ {c}
    /\ UNCHANGED <<hubs, created, manager, handler, hub, writing, stored, torn>>

-----------------------------------------------------------------------------

Setup(c) ==
    \/ LockManager(c) \/ ReuseHub(c) \/ MissHub(c) \/ CreateHub(c)
    \/ LockHub(c) \/ StoreConn(c) \/ StartPump(c)
    \/ RLockHub(c) \/ FetchConn(c)

\* Every connection is set up.
AllSetUp ==
    /\ \A c \in Conns : handler[c] = "done" /\ pump[c] = "pump"
    /\ UNCHANGED vars

Next == (\E c \in Conns : Setup(c)) \/ AllSetUp

Spec == Init /\ [][Next]_vars

\* Each goroutine goes on, and a mutex is handed to every goroutine that waits
\* (Go's mutexes are fair to a goroutine that has waited for a millisecond).
FairSpec == Spec /\ \A c \in Conns : SF_vars(Setup(c))

-----------------------------------------------------------------------------
(* Properties                                                              *)

\* Two connections to one channel never end up on different hubs, which would
\* never see each other's messages; and no channel has a second hub goroutine
\* running that nobody can reach.
OneHubPerChannel ==
    /\ \A c, d \in Conns :
          (ChannelOf[c] = ChannelOf[d] /\ hub[c] # NoHub /\ hub[d] # NoHub) => hub[c] = hub[d]
    /\ created = Cardinality({ch \in Channels : hubs[ch] # NoHub})

\* A connection's writePump always finds its socket.  (If it did not it would
\* just return, and the connection would read but never be written to.)
WriterFindsConn == \A c \in Conns : found[c] # "nil"

\* "a simple package-level map protected by the hub's own goroutine": no two
\* accesses of connStore overlap when one of them is a write.
ConnStoreProtected == ~torn

\* Every connection is set up in the end: the two locks are never held in a
\* circle nor kept by a goroutine that waits.
SetUpCompletes == \A c \in Conns : <>(pump[c] = "pump")
=============================================================================
