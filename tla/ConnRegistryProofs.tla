------------------------- MODULE ConnRegistryProofs -------------------------
(***************************************************************************)
(* The safety properties of ConnRegistry, for any finite set of            *)
(* connections and any channels.                                           *)
(***************************************************************************)
EXTENDS ConnRegistry, FiniteSetTheorems, TLAPS

\* The channels that have a hub, and the connections that have been given one.
Served == {ch \in Channels : hubs[ch] # NoHub}
Housed == {c \in Conns : hub[c] # NoHub}

\* The manager's mutex is held by the one handler inside GetOrCreate.
Locking ==
    /\ \A c \in Conns : c \in manager <=> handler[c] \in {"lookup", "create"}
    /\ \A c, d \in manager : c = d

\* A handler that is about to make a hub has found none, and nobody can have made one
\* since; whoever is past GetOrCreate has the hub of the map.
Looking ==
    \A c \in Conns :
        /\ hub[c] = NoHub <=> handler[c] \in {"start", "lookup", "create"}
        /\ handler[c] = "create" => hubs[ChannelOf[c]] = NoHub
        /\ hub[c] # NoHub => hubs[ChannelOf[c]] = hub[c]

\* Each hub that was made is in the map, and some connection has it.
Counted ==
    /\ IsFiniteSet(Served)
    /\ created = Cardinality(Served)
    /\ created <= Cardinality(Housed)

RegistryInv == TypeOK /\ Locking /\ Looking /\ Counted

-----------------------------------------------------------------------------

\* The connections that have a hub are finitely many, at most all.
LEMMA HousedFinite == IsFiniteSet(Housed) /\ Cardinality(Housed) \in Nat
                      /\ Cardinality(Conns) \in Nat /\ Cardinality(Housed) <= Cardinality(Conns)
BY RegistryAssumption, FS_Subset, FS_CardinalityType DEF Housed

\* A connection that is given a hub makes one more, and leaves room for it.
LEMMA HousedGrows ==
  ASSUME NEW c \in Conns, hub[c] = NoHub, Housed' = Housed \cup {c}
  PROVE  /\ Cardinality(Housed') = Cardinality(Housed) + 1
         /\ Cardinality(Housed) < Cardinality(Conns)
<1>1. c \notin Housed /\ Housed \cup {c} \subseteq Conns
  BY DEF Housed
<1>2. IsFiniteSet(Housed \cup {c}) /\ Cardinality(Housed \cup {c}) = Cardinality(Housed) + 1
  BY <1>1, HousedFinite, FS_AddElement
<1>3. Cardinality(Housed \cup {c}) <= Cardinality(Conns)
  BY <1>1, RegistryAssumption, FS_Subset
<1> QED
  BY <1>2, <1>3, HousedFinite

\* What the invariant needs of Hubs: NoHub is none of them, and the next number is one
\* while some connection has no hub.
LEMMA NextHub ==
  ASSUME created \in Nat, created < Cardinality(Conns)
  PROVE  created + 1 \in Hubs /\ created + 1 # NoHub
BY RegistryAssumption, HousedFinite DEF Hubs

LEMMA RegistryInit == Init => RegistryInv
<1> SUFFICES ASSUME Init PROVE RegistryInv
  OBVIOUS
<1>1. Served = {} /\ Housed = {}
  BY RegistryAssumption DEF Init, Served, Housed
<1>2. Counted
  BY <1>1, FS_EmptySet DEF Counted, Init
<1>3. 0 \in 0..Cardinality(Conns)
  BY HousedFinite
<1>4. TypeOK
  BY <1>3 DEF Init, TypeOK, HandlerPoints, PumpPoints
<1> QED
  BY <1>2, <1>4 DEF Init, RegistryInv, Locking, Looking

\* The making of a hub.
LEMMA CreateHubStep ==
  ASSUME RegistryInv, NEW c \in Conns, CreateHub(c) PROVE RegistryInv'
<1> USE DEF RegistryInv, CreateHub, Goto
<1>1. hub[c] = NoHub /\ hubs[ChannelOf[c]] = NoHub /\ ChannelOf[c] \in Channels
  BY RegistryAssumption DEF Looking
<1>2. created \in Nat /\ created <= Cardinality(Housed)
  BY HousedFinite DEF Counted, TypeOK
<1>3. created < Cardinality(Conns) => created + 1 \in Hubs /\ created + 1 # NoHub
  BY <1>2, NextHub
<1>4. created + 1 # NoHub
  BY <1>2, RegistryAssumption
<1>5. Housed' = Housed \cup {c}
  BY <1>4 DEF Housed, TypeOK
<1>6. Cardinality(Housed') = Cardinality(Housed) + 1 /\ Cardinality(Housed) < Cardinality(Conns)
  BY <1>1, <1>5, HousedGrows
<1>7. created + 1 \in Hubs /\ created + 1 <= Cardinality(Conns)
  BY <1>2, <1>3, <1>6, HousedFinite
<1>8. TypeOK'
  <2>1. created + 1 \in 0..Cardinality(Conns)
    BY <1>7, <1>2, HousedFinite
  <2> QED
    BY <2>1, <1>7 DEF TypeOK, HandlerPoints
<1>9. Locking'
  BY DEF Locking, TypeOK
<1>10. Looking'
  <2>1. \A d \in Conns \ {c} : handler[d] # "create"
    BY DEF Locking
  <2>2. \A d \in Conns \ {c} : ChannelOf[d] = ChannelOf[c] => hub[d] = NoHub
    BY <1>1 DEF Looking
  <2> QED
    BY <2>1, <2>2, <1>1, <1>4 DEF Looking, TypeOK
<1>11. Counted'
  <2>1. Served' = Served \cup {ChannelOf[c]} /\ ChannelOf[c] \notin Served
    BY <1>1, <1>4 DEF Served, TypeOK
  <2>2. IsFiniteSet(Served') /\ Cardinality(Served') = Cardinality(Served) + 1
    BY <2>1, FS_AddElement DEF Counted
  <2>3. created' = created + 1
    OBVIOUS
  <2> QED
    BY <2>2, <2>3, <1>2, <1>6, HousedFinite DEF Counted
<1> QED
  BY <1>8, <1>9, <1>10, <1>11

\* Taking the hub that is there.
LEMMA ReuseHubStep ==
  ASSUME RegistryInv, NEW c \in Conns, ReuseHub(c) PROVE RegistryInv'
<1> USE DEF RegistryInv, ReuseHub, Goto
<1>1. hub[c] = NoHub /\ ChannelOf[c] \in Channels /\ hubs[ChannelOf[c]] \in Hubs
  BY RegistryAssumption DEF Looking, TypeOK
<1>2. Housed' = Housed \cup {c}
  BY DEF Housed, TypeOK
<1>3. Cardinality(Housed') = Cardinality(Housed) + 1
  BY <1>1, <1>2, HousedGrows
<1>4. TypeOK' /\ Locking' /\ Looking'
  BY <1>1 DEF TypeOK, Locking, Looking, HandlerPoints
<1>5. Served' = Served
  BY DEF Served
<1>6. created \in Nat
  BY HousedFinite DEF TypeOK
<1> QED
  BY <1>3, <1>4, <1>5, <1>6, HousedFinite DEF Counted

\* The steps that give nobody a hub.
LEMMA OtherStep ==
  ASSUME RegistryInv, NEW c \in Conns,
         LockManager(c) \/ MissHub(c) \/ LockHub(c) \/ StoreConn(c) \/ StartPump(c)
            \/ RLockHub(c) \/ FetchConn(c)
  PROVE  RegistryInv'
<1> USE DEF RegistryInv, Goto
<1>1. UNCHANGED <<hubs, created, hub>>
  BY DEF LockManager, MissHub, LockHub, StoreConn, StartPump, RLockHub, FetchConn
<1>2. Counted'
  BY <1>1 DEF Counted, Served, Housed
<1>3. CASE LockManager(c)
  BY <1>2, <1>3 DEF LockManager, TypeOK, Locking, Looking, HandlerPoints
<1>4. CASE MissHub(c)
  BY <1>2, <1>4 DEF MissHub, TypeOK, Locking, Looking, HandlerPoints
<1>5. CASE LockHub(c)
  BY <1>2, <1>5 DEF LockHub, TypeOK, Locking, Looking, HandlerPoints
<1>6. CASE StoreConn(c)
  BY <1>2, <1>6 DEF StoreConn, TypeOK, Locking, Looking, HandlerPoints
<1>7. CASE StartPump(c)
  BY <1>2, <1>7 DEF StartPump, TypeOK, Locking, Looking, HandlerPoints, PumpPoints
<1>8. CASE RLockHub(c)
  BY <1>2, <1>8 DEF RLockHub, TypeOK, Locking, Looking, PumpPoints
<1>9. CASE FetchConn(c)
  BY <1>2, <1>9 DEF FetchConn, TypeOK, Locking, Looking, PumpPoints
<1> QED
  BY <1>3, <1>4, <1>5, <1>6, <1>7, <1>8, <1>9

LEMMA RegistryStep == RegistryInv /\ [Next]_vars => RegistryInv'
<1> SUFFICES ASSUME RegistryInv, [Next]_vars PROVE RegistryInv'
  OBVIOUS
<1>1. ASSUME NEW c \in Conns, Setup(c) PROVE RegistryInv'
  BY <1>1, CreateHubStep, ReuseHubStep, OtherStep DEF Setup
<1>2. CASE UNCHANGED vars
  BY <1>2 DEF vars, RegistryInv, TypeOK, Locking, Looking, Counted, Served, Housed
<1> QED
  BY <1>1, <1>2 DEF Next, AllSetUp

LEMMA RegistryAlways == Spec => []RegistryInv
BY RegistryInit, RegistryStep, PTL DEF Spec

\* GetOrCreate, connStore and the locks stay within their types; in particular no more hubs
\* are made than connections ask for one.
THEOREM TypeCorrect == Spec => []TypeOK
BY RegistryAlways, PTL DEF RegistryInv

\* However many connections call GetOrCreate at once, those of one channel get the same hub,
\* and there is no hub goroutine that the map does not hold.
THEOREM HubsAreUnique == Spec => []OneHubPerChannel
<1>1. RegistryInv => OneHubPerChannel
  BY DEF RegistryInv, Looking, Counted, Served, OneHubPerChannel
<1> QED
  BY <1>1, RegistryAlways, PTL

-----------------------------------------------------------------------------
(* connStore                                                               *)

\* Who accesses the map when.  An access under way has its hub's mutex, which lets no
\* write overlap anything of the same hub.  While the map is whole, the handlers that
\* have stored their socket find it there, and nobody has found none.
StoreInv ==
    /\ \A c \in Conns :
          /\ c \in writing <=> handler[c] = "store"
          /\ c \in reading <=> pump[c] = "fetch"
          /\ pump[c] # "none" => handler[c] = "done"
          /\ ~torn => /\ handler[c] \in {"register", "done"} => c \in stored
                      /\ found[c] # "nil"

LEMMA StoreStep == RegistryInv /\ StoreInv /\ [Next]_vars => StoreInv'
<1> SUFFICES ASSUME TypeOK, StoreInv, [Next]_vars PROVE StoreInv'
  BY DEF RegistryInv
<1> USE DEF TypeOK, StoreInv, Goto
<1>1. ASSUME NEW c \in Conns, LockManager(c) \/ ReuseHub(c) \/ MissHub(c) \/ CreateHub(c)
      PROVE StoreInv'
  BY <1>1 DEF LockManager, ReuseHub, MissHub, CreateHub
<1>2. ASSUME NEW c \in Conns, LockHub(c) PROVE StoreInv'
  BY <1>2 DEF LockHub
<1>3. ASSUME NEW c \in Conns, StoreConn(c) PROVE StoreInv'
  BY <1>3 DEF StoreConn
<1>4. ASSUME NEW c \in Conns, StartPump(c) PROVE StoreInv'
  BY <1>4 DEF StartPump
<1>5. ASSUME NEW c \in Conns, RLockHub(c) PROVE StoreInv'
  BY <1>5 DEF RLockHub
<1>6. ASSUME NEW c \in Conns, FetchConn(c) PROVE StoreInv'
  BY <1>6 DEF FetchConn
<1>7. CASE UNCHANGED vars
  BY <1>7 DEF vars
<1> QED
  BY <1>1, <1>2, <1>3, <1>4, <1>5, <1>6, <1>7 DEF Next, Setup, AllSetUp

LEMMA StoreAlways == Spec => []StoreInv
<1>1. Init => StoreInv
  BY DEF Init, StoreInv
<1> QED
  BY <1>1, RegistryAlways, StoreStep, PTL DEF Spec

\* With connections of one channel only, their hub's mutex does protect connStore.
THEOREM OneChannelProtects ==
  ASSUME \A c, d \in Conns : ChannelOf[c] = ChannelOf[d]
  PROVE  Spec => []ConnStoreProtected
<1>1. Init => ConnStoreProtected
  BY DEF Init, ConnStoreProtected
<1>2. RegistryInv /\ StoreInv /\ ConnStoreProtected /\ [Next]_vars => ConnStoreProtected'
  <2> SUFFICES ASSUME RegistryInv, StoreInv, ~torn, [Next]_vars PROVE ~torn'
    BY DEF ConnStoreProtected
  <2>1. \A c, d \in Conns : hub[c] # NoHub /\ hub[d] # NoHub => hub[c] = hub[d]
    BY DEF RegistryInv, Looking
  <2>2. \A d \in writing \cup reading : d \in Conns /\ hub[d] # NoHub
    BY DEF RegistryInv, Looking, StoreInv, TypeOK
  <2>3. ASSUME NEW c \in Conns, LockHub(c) PROVE ~torn'
    <3>1. hub[c] # NoHub
      BY <2>3 DEF LockHub, RegistryInv, Looking
    <3> QED
      BY <3>1, <2>1, <2>2, <2>3 DEF LockHub
  <2>4. ASSUME NEW c \in Conns, RLockHub(c) PROVE ~torn'
    <3>1. hub[c] # NoHub
      BY <2>4 DEF RLockHub, RegistryInv, Looking, StoreInv
    <3> QED
      BY <3>1, <2>1, <2>2, <2>4 DEF RLockHub
  <2> QED
    BY <2>3, <2>4 DEF Next, Setup, AllSetUp, LockManager, ReuseHub, MissHub, CreateHub, StoreConn,
       StartPump, FetchConn, vars
<1> QED
  BY <1>1, <1>2, RegistryAlways, StoreAlways, PTL DEF Spec

\* ... and every writePump then finds its socket; with more channels it does for as long as
\* the map is whole.
THEOREM WritersFindConns == Spec => [](ConnStoreProtected => WriterFindsConn)
<1>1. StoreInv => (ConnStoreProtected => WriterFindsConn)
  BY DEF StoreInv, ConnStoreProtected, WriterFindsConn
<1> QED
  BY <1>1, StoreAlways, PTL

=============================================================================
