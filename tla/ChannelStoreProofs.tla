------------------------- MODULE ChannelStoreProofs -------------------------
(***************************************************************************)
(* The safety properties of ChannelStore, for any number of requests and   *)
(* users.                                                                  *)
(***************************************************************************)
EXTENDS ChannelStore, FiniteSetTheorems, TLAPS

-----------------------------------------------------------------------------
(* Type correctness                                                        *)

Done == {r \in Requests : req[r].pc = "done"}

\* All but the bound on row ids, which counts.
Typed ==
    /\ created \in BOOLEAN /\ archived \in BOOLEAN /\ recent \in BOOLEAN
    /\ name \in {"given"} \cup Requests
    /\ messages \in SUBSET Requests
    /\ req \in [Requests -> RequestTypes]
    /\ \A r \in Requests : req[r].pc # "idle" => req[r].op # "none"
    /\ swept \in BOOLEAN
    /\ raced \in SUBSET Users /\ granted \in SUBSET Users
    /\ stirred \in BOOLEAN

\* Nothing happens before the channel is there.
Unborn ==
    ~created => /\ nextRow = 1 /\ members = {} /\ ~swept /\ ~archived
                /\ \A r \in Requests : req[r].pc = "idle"

\* The owner's row apart, a row takes a request that is then done.
Spent ==
    /\ members \in SUBSET Rows
    /\ nextRow \in Nat \ {0} /\ nextRow <= Cardinality(Done) + 2

StoreInv == Typed /\ Unborn /\ Spent

\* A step of r leaves the other requests alone, and of its own moves only pc and ok.
Serves(r) ==
    /\ req' \in [Requests -> RequestTypes]
    /\ \A q \in Requests \ {r} : req'[q] = req[q]
    /\ req'[r].op = req[r].op /\ req'[r].user = req[r].user
    /\ req'[r].row = req[r].row /\ req'[r].late = req[r].late

LEMMA GotoEffect ==
  ASSUME req \in [Requests -> RequestTypes], NEW r \in Requests, NEW point \in Points, Goto(r, point)
  PROVE  Serves(r) /\ req'[r].pc = point
BY DEF Goto, RequestTypes, Serves

LEMMA AnswerEffect ==
  ASSUME req \in [Requests -> RequestTypes], NEW r \in Requests, NEW success \in BOOLEAN,
         Answer(r, success)
  PROVE  Serves(r) /\ req'[r].pc = "done"
<1>1. "done" \in Points
  BY DEF Points
<1> QED
  BY <1>1 DEF Answer, RequestTypes, Serves

\* The requests that are done are finitely many, at most all.
LEMMA DoneFinite ==
  /\ IsFiniteSet(Done) /\ Cardinality(Done) \in Nat /\ Cardinality(Requests) \in Nat
  /\ Cardinality(Done) <= Cardinality(Requests)
BY StoreAssumption, FS_Subset, FS_CardinalityType DEF Done

\* The bound of TypeOK on row ids follows.
LEMMA NextRowBound ==
  ASSUME Spent PROVE nextRow \in RowIds \cup {Cardinality(Requests) + 2}
<1>1. nextRow \in Nat /\ 1 <= nextRow /\ nextRow <= Cardinality(Requests) + 2
  BY DoneFinite DEF Spent
<1> QED
  BY <1>1, DoneFinite DEF RowIds

\* A request that is done stays done, which leaves the count of rows within its bound.
LEMMA SpentKept ==
  ASSUME Spent, members' \in SUBSET Rows, nextRow' = nextRow, Done \subseteq Done'
  PROVE  Spent'
<1>1. Done' \subseteq Requests
  BY DEF Done
<1>2. IsFiniteSet(Done') /\ Cardinality(Done') \in Nat /\ Cardinality(Done) <= Cardinality(Done')
  BY <1>1, StoreAssumption, FS_Subset, FS_CardinalityType
<1> QED
  BY <1>2, DoneFinite DEF Spent

\* A request that is not done leaves room for one more row.
LEMMA RoomForRow ==
  ASSUME Spent, NEW r \in Requests, r \notin Done
  PROVE  /\ nextRow \in RowIds
         /\ Done' = Done \cup {r} => nextRow + 1 <= Cardinality(Done') + 2
<1>1. IsFiniteSet(Done \cup {r}) /\ Cardinality(Done \cup {r}) = Cardinality(Done) + 1
  BY DoneFinite, FS_AddElement
<1>2. Done \cup {r} \subseteq Requests
  BY DEF Done
<1>3. Cardinality(Done \cup {r}) <= Cardinality(Requests)
  BY <1>2, StoreAssumption, FS_Subset
<1>4. nextRow \in Nat /\ 1 <= nextRow /\ nextRow <= Cardinality(Requests) + 1
  BY <1>1, <1>3, DoneFinite DEF Spent
<1>5. nextRow \in RowIds
  BY <1>4, DoneFinite DEF RowIds
<1>6. ASSUME Done' = Done \cup {r} PROVE nextRow + 1 <= Cardinality(Done') + 2
  <2>1. Cardinality(Done') = Cardinality(Done) + 1
    BY <1>1, <1>6
  <2> QED
    BY <2>1, <1>4, DoneFinite DEF Spent
<1> QED
  BY <1>5, <1>6

LEMMA StoreInit == Init => StoreInv
<1> SUFFICES ASSUME Init PROVE StoreInv
  OBVIOUS
<1>1. Idle \in RequestTypes
  BY StoreAssumption DEF Idle, RequestTypes, Ops, Points
<1>3. Idle.pc = "idle"
  BY DEF Idle
<1>2. Typed
  BY <1>1, <1>3 DEF Init, Typed
<1>4. Unborn
  BY <1>3 DEF Init, Unborn
<1>5. 1 <= Cardinality(Done) + 2
  BY DoneFinite
<1>6. Spent
  BY <1>5 DEF Init, Spent
<1> QED
  BY <1>2, <1>4, <1>6 DEF StoreInv

\* An approval changes the status of the rows with the id, and nothing else.
LEMMA ApproveEffect ==
  ASSUME members \in SUBSET Rows, NEW r \in Requests, ApproveMember(r)
  PROVE  /\ members' \in SUBSET Rows
         /\ \A n \in members' :
               \/ n \in members /\ n.id # req[r].row
               \/ \E m \in members :
                     /\ m.id = req[r].row
                     /\ n = [id |-> m.id, user |-> m.user, status |-> "approved"]
         /\ \A m \in members : m.id = req[r].row => m.user \in granted'
         /\ granted \subseteq granted'
         /\ \A u \in granted' \ granted : \E m \in members : m.user = u
         /\ UNCHANGED <<created, archived, recent, name, messages, swept, nextRow, raced, stirred>>
<1> DEFINE Approved(m) == [m EXCEPT !.status = "approved"]
           named == {m \in members : m.id = req[r].row}
<1>1. \A m \in Rows : /\ Approved(m) \in Rows
                      /\ Approved(m) = [id |-> m.id, user |-> m.user, status |-> "approved"]
  BY DEF Rows
<1>2. /\ members' = (members \ named) \cup {Approved(m) : m \in named}
      /\ granted' = granted \cup {m.user : m \in named}
  BY DEF ApproveMember
<1>3. UNCHANGED <<created, archived, recent, name, messages, swept, nextRow, raced, stirred>>
  BY DEF ApproveMember, channelVars
<1>4. \A m \in members : m \in Rows /\ (m \in named <=> m.id = req[r].row)
  OBVIOUS
<1> HIDE DEF Approved
<1>5. members' \in SUBSET Rows
  <2>1. named \subseteq members /\ \A m \in named : Approved(m) \in Rows
    BY <1>1
  <2> HIDE DEF named
  <2> QED
    BY <1>2, <2>1
<1> HIDE DEF named
<1>6. ASSUME NEW n \in members'
      PROVE  \/ n \in members /\ n.id # req[r].row
             \/ \E m \in members :
                   /\ m.id = req[r].row
                   /\ n = [id |-> m.id, user |-> m.user, status |-> "approved"]
  <2>1. CASE n \in members \ named
    BY <1>4, <2>1
  <2>2. CASE \E m \in named : n = Approved(m)
    BY <1>1, <1>4, <2>2 DEF named
  <2> QED
    BY <1>2, <1>6, <2>1, <2>2
<1>7. /\ \A m \in members : m.id = req[r].row => m.user \in granted'
      /\ granted \subseteq granted'
      /\ \A u \in granted' \ granted : \E m \in members : m.user = u
  BY <1>2 DEF named
<1> QED
  BY <1>3, <1>5, <1>6, <1>7

\* Where the steps of a request take it from and to.
LEMMA RequestMoves ==
  ASSUME Typed, NEW r \in Requests,
         RequestFails(r) \/ CheckRequest(r) \/ FindMember(r) \/ InsertMember(r) \/ ApproveMember(r)
            \/ RemoveMember(r) \/ RenameChannel(r) \/ InsertMessage(r) \/ TouchActivity(r)
  PROVE  Serves(r) /\ req[r].pc \notin {"idle", "done"} /\ req'[r].pc # "idle"
<1> USE DEF Typed, At
<1>1. {"exists", "insert", "write", "touch"} \subseteq Points
  BY DEF Points
<1>2. ASSUME req[r].pc \notin {"idle", "done"}, NEW success \in BOOLEAN, Answer(r, success)
      PROVE  Serves(r) /\ req[r].pc \notin {"idle", "done"} /\ req'[r].pc # "idle"
  BY <1>2, AnswerEffect
<1>3. ASSUME req[r].pc \notin {"idle", "done"},
             NEW point \in {"exists", "insert", "write", "touch"}, Goto(r, point)
      PROVE  Serves(r) /\ req[r].pc \notin {"idle", "done"} /\ req'[r].pc # "idle"
  BY <1>1, <1>3, GotoEffect
<1>4. CASE RequestFails(r)
  BY <1>2, <1>4 DEF RequestFails
<1>5. CASE CheckRequest(r)
  <2>1. req[r].op \in Ops \ {"none"}
    BY <1>5 DEF CheckRequest, RequestTypes
  <2>2. AfterChecks(r) \in {"exists", "insert", "write"}
    BY <2>1 DEF AfterChecks, Ops
  <2> QED
    BY <1>2, <1>3, <1>5, <2>2 DEF CheckRequest
<1>6. CASE FindMember(r)
  BY <1>2, <1>3, <1>6 DEF FindMember
<1>7. CASE InsertMember(r)
  BY <1>2, <1>7 DEF InsertMember
<1>8. CASE ApproveMember(r)
  BY <1>2, <1>8 DEF ApproveMember
<1>9. CASE RemoveMember(r)
  BY <1>2, <1>9 DEF RemoveMember
<1>10. CASE RenameChannel(r)
  BY <1>2, <1>10 DEF RenameChannel
<1>11. CASE InsertMessage(r)
  BY <1>3, <1>11 DEF InsertMessage
<1>12. CASE TouchActivity(r)
  BY <1>2, <1>12 DEF TouchActivity
<1> QED
  BY <1>4, <1>5, <1>6, <1>7, <1>8, <1>9, <1>10, <1>11, <1>12

\* A request under way stays under way or is done: Done grows, by that request at most.
LEMMA DoneGrows ==
  ASSUME NEW r \in Requests, Serves(r), req[r].pc # "done"
  PROVE  /\ Done \subseteq Done' /\ r \notin Done
         /\ req'[r].pc = "done" => Done' = Done \cup {r}
BY DEF Serves, Done

\* The types of everything but the members, whichever request is served.
LEMMA ServeTyped ==
  ASSUME StoreInv, NEW r \in Requests, Serve(r) PROVE Typed' /\ Unborn'
<1> USE DEF StoreInv, channelVars
<1>1. CASE Arrive(r)
  <2>1. PICK op \in Ops \ {"none"}, u \in Users, id \in {0} \cup 1..(nextRow - 1) :
           req' = [req EXCEPT ![r] = [op |-> op, pc |-> "check", user |-> u, row |-> id,
                                      late |-> archived, ok |-> FALSE]]
    BY <1>1 DEF Arrive
  <2>2. id \in RowIds \cup {0}
    <3>1. nextRow \in Nat /\ nextRow <= Cardinality(Requests) + 2
      BY DoneFinite DEF Spent
    <3> QED
      BY <3>1, DoneFinite DEF RowIds
  <2> DEFINE arrived == [op |-> op, pc |-> "check", user |-> u, row |-> id,
                         late |-> archived, ok |-> FALSE]
  <2>3. arrived \in RequestTypes
    <3>1. archived \in BOOLEAN
      BY DEF Typed
    <3> QED
      BY <2>2, <3>1 DEF RequestTypes, Points
  <2>4. arrived.op # "none"
    OBVIOUS
  <2> HIDE DEF arrived
  <2>5. /\ req' \in [Requests -> RequestTypes]
        /\ \A q \in Requests : req'[q].pc # "idle" => req'[q].op # "none"
    BY <2>1, <2>3, <2>4 DEF Typed, arrived
  <2>6. created /\ UNCHANGED <<created, archived, recent, name, messages, swept, raced, granted, stirred>>
    BY <1>1 DEF Arrive
  <2> QED
    BY <2>5, <2>6 DEF Typed, Unborn
<1>2. CASE ~Arrive(r)
  <2>1. Serves(r) /\ req[r].pc \notin {"idle", "done"} /\ req'[r].pc # "idle"
    BY <1>2, RequestMoves DEF Serve
  <2>2. created
    BY <2>1 DEF Unborn
  <2>3. /\ req' \in [Requests -> RequestTypes]
        /\ \A q \in Requests : req'[q].pc # "idle" => req'[q].op # "none"
    BY <2>1 DEF Typed, Serves
  <2>4. UNCHANGED <<created, archived, swept>>
    BY <1>2 DEF Serve, RequestFails, CheckRequest, FindMember, InsertMember, ApproveMember,
                RemoveMember, RenameChannel, InsertMessage, TouchActivity
  <2>5. recent' \in BOOLEAN /\ stirred' \in BOOLEAN
    <3>1. UNCHANGED <<recent, stirred>> \/ (recent' = TRUE /\ stirred' = TRUE)
      BY <1>2 DEF Serve, RequestFails, CheckRequest, FindMember, InsertMember, ApproveMember,
                  RemoveMember, RenameChannel, InsertMessage, TouchActivity
    <3> QED
      BY <3>1 DEF Typed
  <2>6. name' \in {"given"} \cup Requests /\ messages' \in SUBSET Requests
    <3>1. CASE ApproveMember(r)
      BY <3>1, ApproveEffect DEF Typed, Spent
    <3> QED
      BY <1>2, <3>1 DEF Typed, Serve, RequestFails, CheckRequest, FindMember, InsertMember,
                        RemoveMember, RenameChannel, InsertMessage, TouchActivity
  <2>7. raced' \in SUBSET Users
    <3>1. raced' = raced \/ raced' \in SUBSET (raced \cup {req[r].user})
      BY <1>2 DEF Serve, RequestFails, CheckRequest, FindMember, InsertMember, ApproveMember,
                  RemoveMember, RenameChannel, InsertMessage, TouchActivity
    <3> QED
      BY <3>1 DEF Typed, RequestTypes
  <2>8. granted' \in SUBSET Users
    <3>1. \A m \in members : m.user \in Users
      BY DEF Spent, Rows
    <3>2. req[r].user \in Users
      BY DEF Typed, RequestTypes
    <3>3. CASE ApproveMember(r)
      BY <3>1, <3>3, ApproveEffect DEF Typed, Spent
    <3> QED
      BY <1>2, <3>2, <3>3 DEF Typed, Serve, RequestFails, CheckRequest, FindMember, InsertMember,
          RemoveMember, RenameChannel, InsertMessage, TouchActivity
  <2> QED
    BY <2>2, <2>3, <2>4, <2>5, <2>6, <2>7, <2>8 DEF Typed, Unborn
<1> QED
  BY <1>1, <1>2

\* The rows, whichever request is served.
LEMMA ServeSpent ==
  ASSUME StoreInv, NEW r \in Requests, Serve(r) PROVE Spent'
<1> USE DEF StoreInv
<1>1. CASE Arrive(r)
  <2>1. members' = members /\ nextRow' = nextRow /\ req[r] = Idle
    BY <1>1 DEF Arrive
  <2>2. \A q \in Requests \ {r} : req'[q] = req[q]
    BY <1>1 DEF Arrive, Typed
  <2>3. r \notin Done
    BY <2>1 DEF Done, Idle
  <2>4. Done \subseteq Done'
    BY <2>2, <2>3 DEF Done
  <2> QED
    BY <2>1, <2>4, SpentKept DEF Spent
<1>2. CASE ~Arrive(r)
  <2>1. Serves(r) /\ req[r].pc \notin {"idle", "done"}
    BY <1>2, RequestMoves DEF Serve
  <2>2. /\ Done \subseteq Done' /\ r \notin Done
        /\ req'[r].pc = "done" => Done' = Done \cup {r}
    BY <2>1, DoneGrows
  <2>3. CASE InsertMember(r)
    <3>1. req'[r].pc = "done"
      BY <2>3, AnswerEffect DEF InsertMember, Typed
    <3>2. nextRow \in RowIds /\ nextRow + 1 <= Cardinality(Done') + 2
      BY <2>2, <3>1, RoomForRow
    <3>3. req[r].user \in Users
      BY DEF Typed, RequestTypes
    <3>4. [id |-> nextRow, user |-> req[r].user, status |-> JoinStatus(r)] \in Rows
      BY <3>2, <3>3 DEF Rows, JoinStatus
    <3>5. members' \in SUBSET Rows
      BY <2>3, <3>4 DEF InsertMember, Spent
    <3>6. nextRow' = nextRow + 1
      BY <2>3 DEF InsertMember
    <3> QED
      BY <3>2, <3>5, <3>6 DEF Spent
  <2>4. CASE ~InsertMember(r)
    <3>1. nextRow' = nextRow
      BY <1>2, <2>4 DEF Serve, RequestFails, CheckRequest, FindMember, ApproveMember,
                        RemoveMember, RenameChannel, InsertMessage, TouchActivity
    <3>2. members' \in SUBSET Rows
      <4>1. CASE ApproveMember(r)
        BY <4>1, ApproveEffect DEF Spent
      <4>2. CASE ~ApproveMember(r)
        <5>1. members' \subseteq members
          BY <1>2, <2>4, <4>2 DEF Serve, RequestFails, CheckRequest, FindMember, RemoveMember,
                                  RenameChannel, InsertMessage, TouchActivity, channelVars
        <5> QED
          BY <5>1 DEF Spent
      <4> QED
        BY <4>1, <4>2
    <3> QED
      BY <2>2, <3>1, <3>2, SpentKept
  <2> QED
    BY <2>3, <2>4
<1> QED
  BY <1>1, <1>2

LEMMA StoreStep == StoreInv /\ [StoreNext]_vars => StoreInv'
<1> SUFFICES ASSUME StoreInv, [StoreNext]_vars PROVE StoreInv'
  OBVIOUS
<1> USE DEF StoreInv
<1>1. CASE \E r \in Requests : Serve(r)
  BY <1>1, ServeTyped, ServeSpent
<1>2. CASE CreateChannel
  <2>1. UNCHANGED req /\ Done' = Done
    BY <1>2 DEF CreateChannel, Done
  <2>2. Typed'
    BY <1>2, StoreAssumption DEF CreateChannel, Typed
  <2>3. Unborn'
    BY <1>2 DEF CreateChannel, Unborn
  <2>4. nextRow = 1 /\ members = {}
    BY <1>2 DEF CreateChannel, Unborn
  <2>5. 1 \in RowIds
    BY DoneFinite DEF RowIds
  <2>6. members' \in SUBSET Rows
    BY <1>2, <2>4, <2>5, StoreAssumption DEF CreateChannel, Rows
  <2>7. nextRow' \in {1, 2}
    BY <1>2, <2>4 DEF CreateChannel
  <2> QED
    BY <2>1, <2>2, <2>3, <2>6, <2>7, DoneFinite DEF Spent
<1>3. CASE GoQuiet \/ SweepQuery \/ SweepUpdate \/ UNCHANGED vars
  <2>1. UNCHANGED <<created, name, messages, members, nextRow, req, raced, granted>>
    BY <1>3 DEF GoQuiet, SweepQuery, SweepUpdate, vars, channelVars
  <2>2. /\ archived' \in BOOLEAN /\ recent' \in BOOLEAN
        /\ swept' \in BOOLEAN /\ stirred' \in BOOLEAN
    BY <1>3 DEF Typed, GoQuiet, SweepQuery, SweepUpdate, vars, channelVars
  <2>3. Typed'
    BY <2>1, <2>2 DEF Typed
  <2>4. ~created => ~swept' /\ ~archived'
    BY <1>3 DEF Unborn, GoQuiet, SweepQuery, SweepUpdate, vars, channelVars
  <2>5. Unborn'
    BY <2>1, <2>4 DEF Unborn
  <2>6. Done' = Done
    BY <2>1 DEF Done
  <2> QED
    BY <2>1, <2>3, <2>5, <2>6 DEF Spent
<1> QED
  BY <1>1, <1>2, <1>3 DEF StoreNext, Next, AllServed

\* Every variable keeps its type, and a row never takes an id beyond what the
\* requests of the behaviour account for.
THEOREM TypeCorrect == Spec => []TypeOK
<1>1. StoreInv => TypeOK
  BY NextRowBound DEF StoreInv, Typed, Spent, TypeOK
<1> QED
  BY <1>1, StoreInit, StoreStep, PTL DEF Spec

-----------------------------------------------------------------------------
(* Rows of one user                                                        *)

\* r has found no row of its user, and is about to insert one.
Inserting(r) == At(r, {"join", "add"}, "insert")

\* What the existence check of JoinChannel is worth: unless joins of the user have
\* overlapped, there is still no row, and nobody else is about to make one.
CheckHolds ==
    \A r \in Requests : Inserting(r) /\ req[r].user \notin raced =>
        /\ RowsOf(req[r].user) = {}
        /\ \A q \in Requests \ {r} : Inserting(q) => req[q].user # req[r].user

RowInv == StoreInv /\ CheckHolds /\ SecondRowOnlyByRace

\* Only JoinChannel's check leads to its insertion.
LEMMA InsertingKept ==
  ASSUME StoreInv, NEW r \in Requests, Serve(r)
  PROVE  /\ \A q \in Requests \ {r} : (Inserting(q) <=> Inserting(q)') /\ req'[q] = req[q]
         /\ Inserting(r)' => FindMember(r)
<1> USE DEF StoreInv
<1>1. CASE Arrive(r)
  <2>1. \A q \in Requests \ {r} : req'[q] = req[q]
    BY <1>1 DEF Arrive, Typed
  <2>2. req'[r].pc = "check"
    BY <1>1 DEF Arrive, Typed
  <2> QED
    BY <2>1, <2>2 DEF Inserting, At
<1>2. CASE ~Arrive(r)
  <2>1. Serves(r)
    BY <1>2, RequestMoves DEF Serve
  <2>2. ASSUME Inserting(r)', ~FindMember(r) PROVE FALSE
    <3>1. req[r].op \in {"join", "add"} /\ req'[r].pc = "insert"
      BY <2>1, <2>2 DEF Inserting, At, Serves
    <3>2. ASSUME NEW success \in BOOLEAN, Answer(r, success) PROVE FALSE
      BY <3>1, <3>2, AnswerEffect DEF Typed
    <3>3. CASE CheckRequest(r)
      <4>1. AfterChecks(r) = "exists"
        BY <3>1 DEF AfterChecks
      <4>2. Goto(r, "exists")
        BY <3>2, <3>3, <4>1 DEF CheckRequest
      <4> QED
        BY <3>1, <4>2, GotoEffect DEF Typed, Points
    <3>4. CASE RequestFails(r)
      BY <3>2, <3>4 DEF RequestFails
    <3>5. CASE InsertMember(r)
      BY <3>2, <3>5 DEF InsertMember
    <3>6. CASE ApproveMember(r) \/ RemoveMember(r) \/ RenameChannel(r) \/ InsertMessage(r)
                  \/ TouchActivity(r)
      BY <3>1, <3>6 DEF ApproveMember, RemoveMember, RenameChannel, InsertMessage, TouchActivity, At
    <3> QED
      BY <1>2, <2>2, <3>3, <3>4, <3>5, <3>6 DEF Serve
  <2> QED
    BY <2>1, <2>2 DEF Serves, Inserting, At
<1> QED
  BY <1>1, <1>2

\* Steps that insert no row: every row's user had the row before, and two rows were two.
LEMMA RowsKept ==
  ASSUME RowInv, NEW r \in Requests, Serve(r), ~InsertMember(r)
  PROVE  /\ raced \subseteq raced'
         /\ \A n \in members' : \E m \in members : m.user = n.user
         /\ SecondRowOnlyByRace'
<1> USE DEF RowInv, StoreInv
<1>1. raced \subseteq raced'
  BY DEF Serve, Arrive, RequestFails, CheckRequest, FindMember, ApproveMember, RemoveMember,
         RenameChannel, InsertMessage, TouchActivity
<1>2. CASE ApproveMember(r)
  <2>1. raced' = raced
    BY <1>2 DEF ApproveMember
  <2>2. members \in SUBSET Rows
    BY DEF Spent
  <2>3. \A n \in members' :
           \/ n \in members /\ n.id # req[r].row
           \/ \E m \in members :
                 /\ m.id = req[r].row
                 /\ n = [id |-> m.id, user |-> m.user, status |-> "approved"]
    BY <1>2, <2>2, ApproveEffect
  <2>4. ASSUME NEW n1 \in members', NEW n2 \in members', n1.user = n2.user, n1 # n2
        PROVE  n1.user \in raced
    <3>1. PICK m1 \in members : /\ m1.user = n1.user /\ m1.id = n1.id
                               /\ \/ n1 = m1 /\ m1.id # req[r].row
                                  \/ /\ n1 = [id |-> m1.id, user |-> m1.user, status |-> "approved"]
                                     /\ m1.id = req[r].row
      BY <2>3
    <3>2. PICK m2 \in members : /\ m2.user = n2.user /\ m2.id = n2.id
                               /\ \/ n2 = m2 /\ m2.id # req[r].row
                                  \/ /\ n2 = [id |-> m2.id, user |-> m2.user, status |-> "approved"]
                                     /\ m2.id = req[r].row
      BY <2>3
    <3>3. m1 # m2
      BY <2>4, <3>1, <3>2
    <3> QED
      BY <2>4, <3>1, <3>2, <3>3 DEF SecondRowOnlyByRace
  <2> QED
    BY <1>1, <2>1, <2>3, <2>4 DEF SecondRowOnlyByRace
<1>3. CASE ~ApproveMember(r)
  <2>1. members' \subseteq members
    BY <1>3 DEF Serve, Arrive, RequestFails, CheckRequest, FindMember, RemoveMember,
                RenameChannel, InsertMessage, TouchActivity, channelVars
  <2> QED
    BY <1>1, <2>1 DEF SecondRowOnlyByRace
<1> QED
  BY <1>2, <1>3

LEMMA ServeRows ==
  ASSUME RowInv, NEW r \in Requests, Serve(r) PROVE CheckHolds' /\ SecondRowOnlyByRace'
<1> USE DEF RowInv, StoreInv
<1>1. /\ \A q \in Requests \ {r} : (Inserting(q) <=> Inserting(q)') /\ req'[q] = req[q]
      /\ Inserting(r)' => FindMember(r)
  BY InsertingKept
<1>2. CASE InsertMember(r)
  <2>1. members' = members \cup {[id |-> nextRow, user |-> req[r].user, status |-> JoinStatus(r)]}
    BY <1>2 DEF InsertMember
  <2>2. raced' = raced /\ Inserting(r)
    BY <1>2 DEF InsertMember, Inserting
  <2>3. ~Inserting(r)'
    BY <1>1, <1>2 DEF InsertMember, FindMember, At
  <2>4. ASSUME NEW q \in Requests, Inserting(q)', req'[q].user \notin raced'
        PROVE  /\ RowsOf(req[q].user)' = {}
               /\ \A p \in Requests \ {q} : Inserting(p)' => req'[p].user # req'[q].user
    <3>1. q # r /\ Inserting(q) /\ req'[q] = req[q] /\ req[q].user \notin raced
      BY <1>1, <2>2, <2>3, <2>4
    <3>2. /\ RowsOf(req[q].user) = {}
          /\ \A p \in Requests \ {q} : Inserting(p) => req[p].user # req[q].user
      BY <3>1 DEF CheckHolds
    <3>3. req[r].user # req[q].user
      BY <2>2, <3>1, <3>2
    <3> QED
      BY <1>1, <2>1, <2>3, <3>1, <3>2, <3>3 DEF RowsOf
  <2>5. CheckHolds'
    BY <2>4, <1>1, <2>3 DEF CheckHolds, RowsOf
  <2>6. \A m \in members : m.user = req[r].user => req[r].user \in raced
    BY <2>2 DEF CheckHolds, RowsOf
  <2>7. SecondRowOnlyByRace'
    BY <2>1, <2>2, <2>6 DEF SecondRowOnlyByRace
  <2> QED
    BY <2>5, <2>7
<1>3. CASE FindMember(r)
  <2>1. members' = members /\ SecondRowOnlyByRace' /\ raced \subseteq raced' /\ Serves(r)
    BY <1>3, RowsKept, RequestMoves DEF FindMember, InsertMember, At
  <2>2. CASE RowsOf(req[r].user) # {}
    <3>1. Answer(r, TRUE) /\ raced' = raced
      BY <1>3, <2>2 DEF FindMember
    <3>2. ~Inserting(r)'
      BY <3>1, AnswerEffect DEF Typed, Inserting, At
    <3> QED
      BY <1>1, <2>1, <3>1, <3>2 DEF CheckHolds, RowsOf
  <2>3. CASE RowsOf(req[r].user) = {}
    <3>1. \A q \in Requests \ {r} : Inserting(q) /\ req[q].user = req[r].user =>
              req[r].user \in raced'
      BY <1>3, <2>3 DEF FindMember, Inserting
    <3>2. req'[r].user = req[r].user
      BY <2>1 DEF Serves
    <3> QED
      BY <1>1, <2>1, <2>3, <3>1, <3>2 DEF CheckHolds, RowsOf
  <2> QED
    BY <2>2, <2>3
<1>4. CASE ~InsertMember(r) /\ ~FindMember(r)
  <2>1. /\ raced \subseteq raced' /\ SecondRowOnlyByRace'
        /\ \A n \in members' : \E m \in members : m.user = n.user
    BY <1>4, RowsKept
  <2>2. CheckHolds'
    BY <1>1, <1>4, <2>1 DEF CheckHolds, RowsOf
  <2> QED
    BY <2>1, <2>2
<1> QED
  BY <1>2, <1>3, <1>4

LEMMA RowInit == Init => RowInv
<1> SUFFICES ASSUME Init PROVE RowInv
  OBVIOUS
<1>1. Idle.pc = "idle"
  BY DEF Idle
<1>2. CheckHolds /\ SecondRowOnlyByRace
  BY <1>1 DEF Init, CheckHolds, Inserting, At, SecondRowOnlyByRace
<1> QED
  BY <1>2, StoreInit DEF RowInv

LEMMA RowStep == RowInv /\ [StoreNext]_vars => RowInv'
<1> SUFFICES ASSUME RowInv, [StoreNext]_vars PROVE RowInv'
  OBVIOUS
<1>1. StoreInv'
  BY StoreStep DEF RowInv
<1>2. CASE \E r \in Requests : Serve(r)
  BY <1>1, <1>2, ServeRows DEF RowInv
<1>3. CASE CreateChannel
  <2>1. \A r \in Requests : req[r].pc = "idle"
    BY <1>3 DEF CreateChannel, RowInv, StoreInv, Unborn
  <2>2. req' = req /\ \A m, n \in members' : m = n
    BY <1>3 DEF CreateChannel, RowInv, StoreInv, Unborn
  <2> QED
    BY <1>1, <2>1, <2>2 DEF RowInv, CheckHolds, SecondRowOnlyByRace, Inserting, At
<1>4. CASE UNCHANGED <<members, req, raced>>
  BY <1>1, <1>4 DEF RowInv, CheckHolds, SecondRowOnlyByRace, Inserting, At, RowsOf
<1> QED
  BY <1>2, <1>3, <1>4 DEF StoreNext, Next, AllServed, GoQuiet, SweepQuery, SweepUpdate, vars

\* Without a unique index and without a transaction, a user still has a second
\* member row only if two of the user's joins overlapped between JoinChannel's
\* existence check and its insertion.
THEOREM SecondRowsAreRaces == Spec => []SecondRowOnlyByRace
<1>1. RowInv => SecondRowOnlyByRace
  BY DEF RowInv
<1> QED
  BY <1>1, RowInit, RowStep, PTL DEF Spec

-----------------------------------------------------------------------------
(* Approval                                                                *)

LEMMA ServeApprovals ==
  ASSUME RowInv, ApprovedOnlyByOwner, NEW r \in Requests, Serve(r) PROVE ApprovedOnlyByOwner'
<1> USE DEF RowInv, StoreInv
<1> SUFFICES ASSUME Private, NEW n \in members', n.status = "approved", n.user \notin raced'
             PROVE  n.user \in granted'
  BY DEF ApprovedOnlyByOwner
<1>1. raced \subseteq raced'
  BY DEF Serve, Arrive, RequestFails, CheckRequest, FindMember, InsertMember, ApproveMember,
         RemoveMember, RenameChannel, InsertMessage, TouchActivity
<1>2. CASE ApproveMember(r)
  <2>1. /\ \/ n \in members /\ n.id # req[r].row
           \/ \E m \in members :
                 /\ m.id = req[r].row
                 /\ n = [id |-> m.id, user |-> m.user, status |-> "approved"]
        /\ \A m \in members : m.id = req[r].row => m.user \in granted'
        /\ granted \subseteq granted'
    BY <1>2, ApproveEffect DEF Spent
  <2> QED
    BY <1>1, <2>1 DEF ApprovedOnlyByOwner
<1>3. CASE InsertMember(r)
  <2>1. CASE n \in members
    BY <1>1, <1>3, <2>1 DEF ApprovedOnlyByOwner, InsertMember
  <2>2. CASE n \notin members
    <3>1. n.user = req[r].user /\ JoinStatus(r) = "approved"
      BY <1>3, <2>2 DEF InsertMember
    <3>2. req[r].op = "add"
      BY <1>3, <3>1 DEF InsertMember, At, JoinStatus
    <3> QED
      BY <1>3, <3>1, <3>2 DEF InsertMember
  <2> QED
    BY <2>1, <2>2
<1>4. CASE RemoveMember(r)
  <2>1. n \in members /\ n.id # req[r].row
    BY <1>4 DEF RemoveMember
  <2>2. n.user \in granted
    BY <1>1, <2>1 DEF ApprovedOnlyByOwner
  <2>3. \A m \in members : m.id = req[r].row => m.user # n.user
    BY <1>1, <2>1 DEF SecondRowOnlyByRace
  <2>4. granted' = granted \ {m.user : m \in {m \in members : m.id = req[r].row}}
    BY <1>4 DEF RemoveMember
  <2> QED
    BY <2>2, <2>3, <2>4
<1>5. CASE ~ApproveMember(r) /\ ~InsertMember(r) /\ ~RemoveMember(r)
  <2>1. members' = members /\ granted' = granted
    BY <1>5 DEF Serve, Arrive, RequestFails, CheckRequest, FindMember,
                RenameChannel, InsertMessage, TouchActivity
  <2> QED
    BY <1>1, <2>1 DEF ApprovedOnlyByOwner
<1> QED
  BY <1>2, <1>3, <1>4, <1>5

\* In a private channel whoever is an approved member has the owner's leave, given
\* since their last removal, however approvals, removals and joins interleave.
THEOREM ApprovalsAreTheOwners == Spec => []ApprovedOnlyByOwner
<1>1. Init => ApprovedOnlyByOwner
  BY DEF Init, ApprovedOnlyByOwner
<1>2. ApprovedOnlyByOwner /\ RowInv /\ [StoreNext]_vars => ApprovedOnlyByOwner'
  <2> SUFFICES ASSUME ApprovedOnlyByOwner, RowInv, [StoreNext]_vars PROVE ApprovedOnlyByOwner'
    OBVIOUS
  <2>1. CASE \E r \in Requests : Serve(r)
    BY <2>1, ServeApprovals
  <2>2. CASE CreateChannel
    <3>1. members = {}
      BY <2>2 DEF CreateChannel, RowInv, StoreInv, Unborn
    <3> QED
      BY <2>2, <3>1 DEF CreateChannel, ApprovedOnlyByOwner
  <2>3. CASE UNCHANGED <<members, raced, granted>>
    BY <2>3 DEF ApprovedOnlyByOwner
  <2> QED
    BY <2>1, <2>2, <2>3 DEF StoreNext, Next, AllServed, GoQuiet, SweepQuery, SweepUpdate, vars
<1> QED
  BY <1>1, <1>2, RowInit, RowStep, PTL DEF Spec

-----------------------------------------------------------------------------
(* Archiving                                                               *)

\* Archiving is for good, and a request that came after it never gets past its checks.
LateRefused ==
    \A r \in Requests : req[r].late => archived /\ req[r].pc \in {"check", "done"}

LEMMA LateStep == StoreInv /\ LateRefused /\ [StoreNext]_vars => LateRefused'
<1> SUFFICES ASSUME StoreInv, LateRefused, [StoreNext]_vars PROVE LateRefused'
  OBVIOUS
<1> USE DEF StoreInv
<1>1. ASSUME NEW r \in Requests, Serve(r) PROVE LateRefused'
  <2>1. archived' = archived
    BY <1>1 DEF Serve, Arrive, RequestFails, CheckRequest, FindMember, InsertMember,
                ApproveMember, RemoveMember, RenameChannel, InsertMessage, TouchActivity,
                channelVars
  <2>2. CASE Arrive(r)
    <3>1. PICK op \in Ops, u \in Users, id \in {0} \cup 1..(nextRow - 1) :
             req' = [req EXCEPT ![r] = [op |-> op, pc |-> "check", user |-> u, row |-> id,
                                        late |-> archived, ok |-> FALSE]]
      BY <2>2 DEF Arrive
    <3> QED
      BY <2>1, <3>1 DEF Typed, LateRefused
  <2>3. CASE ~Arrive(r)
    <3>1. Serves(r) /\ req[r].pc \notin {"idle", "done"}
      BY <1>1, <2>3, RequestMoves DEF Serve
    <3>2. ASSUME req[r].late PROVE req'[r].pc = "done"
      <4>1. archived /\ req[r].pc = "check"
        BY <3>1, <3>2 DEF LateRefused
      <4>2. RequestFails(r) \/ CheckRequest(r)
        BY <1>1, <2>3, <4>1 DEF Serve, FindMember, InsertMember, ApproveMember, RemoveMember,
                                RenameChannel, InsertMessage, TouchActivity, At
      <4>3. Answer(r, FALSE)
        BY <4>1, <4>2 DEF RequestFails, CheckRequest, Admitted
      <4> QED
        BY <4>3, AnswerEffect DEF Typed
    <3> QED
      BY <2>1, <3>1, <3>2 DEF LateRefused, Serves
  <2> QED
    BY <2>2, <2>3
<1>2. CASE CreateChannel \/ GoQuiet \/ SweepQuery \/ SweepUpdate \/ UNCHANGED vars
  <2>1. req' = req
    BY <1>2 DEF CreateChannel, GoQuiet, SweepQuery, SweepUpdate, vars, channelVars
  <2>2. archived' \in {TRUE, archived}
    BY <1>2 DEF CreateChannel, GoQuiet, SweepQuery, SweepUpdate, vars, channelVars
  <2>3. archived => archived'
    BY <2>2
  <2> QED
    BY <2>1, <2>3 DEF LateRefused
<1> QED
  BY <1>1, <1>2 DEF StoreNext, Next, AllServed

\* An archived channel is frozen for whatever comes later: no handler lets a late
\* request change the channel, its members or its messages.
THEOREM ArchivedIsFrozen == Spec => LateRequestsChangeNothing
<1>1. Init => LateRefused
  <2>1. ~Idle.late
    BY DEF Idle
  <2> QED
    BY <2>1 DEF Init, LateRefused
<1>2. StoreInv /\ LateRefused /\ [StoreNext]_vars =>
        [\A r \in Requests : req[r].late /\ req'[r] # req[r] =>
            UNCHANGED <<channelVars, members, messages>>]_vars
  <2> SUFFICES ASSUME StoreInv, LateRefused, StoreNext,
                      NEW r \in Requests, req[r].late, req'[r] # req[r]
               PROVE  UNCHANGED <<channelVars, members, messages>>
    OBVIOUS
  <2> USE DEF StoreInv
  <2>1. req[r].pc \in {"check", "done"} /\ archived
    BY DEF LateRefused
  <2>2. PICK q \in Requests : Serve(q)
    BY DEF StoreNext, Next, AllServed, CreateChannel, GoQuiet, SweepQuery, SweepUpdate, vars
  <2>3. q = r
    BY <2>2, InsertingKept
  <2>4. req[r].pc # "idle"
    BY <2>1
  <2>5. ~Arrive(r)
    BY <2>4 DEF Arrive, Idle
  <2>6. RequestFails(r) \/ CheckRequest(r)
    BY <2>1, <2>2, <2>3, <2>5 DEF Serve, FindMember, InsertMember, ApproveMember, RemoveMember,
                                  RenameChannel, InsertMessage, TouchActivity, At
  <2> QED
    BY <2>6 DEF RequestFails, CheckRequest
<1> QED
  BY <1>1, <1>2, StoreInit, StoreStep, LateStep, PTL DEF Spec, LateRequestsChangeNothing

\* A channel the worker's query has selected is quiet, or stirred since.
SweptQuiet == swept => ~recent \/ stirred

LEMMA SweptStep == StoreInv /\ SweptQuiet /\ [StoreNext]_vars => SweptQuiet'
<1> SUFFICES ASSUME StoreInv, SweptQuiet, [StoreNext]_vars PROVE SweptQuiet'
  OBVIOUS
<1>1. ASSUME NEW r \in Requests, Serve(r) PROVE SweptQuiet'
  <2>1. UNCHANGED <<swept, recent, stirred>> \/ stirred' = TRUE
    BY <1>1 DEF Serve, Arrive, RequestFails, CheckRequest, FindMember, InsertMember,
                ApproveMember, RemoveMember, RenameChannel, InsertMessage, TouchActivity,
                channelVars
  <2> QED
    BY <2>1 DEF SweptQuiet
<1>2. CASE CreateChannel
  BY <1>2 DEF CreateChannel, StoreInv, Unborn, SweptQuiet
<1>3. CASE GoQuiet \/ SweepQuery \/ SweepUpdate \/ UNCHANGED vars
  BY <1>3 DEF GoQuiet, SweepQuery, SweepUpdate, vars, channelVars, SweptQuiet
<1> QED
  BY <1>1, <1>2, <1>3 DEF StoreNext, Next, AllServed

\* The sweep archives a channel with recent activity only if that activity came
\* between the worker's query and its update, which looks at nothing again.
THEOREM ActiveIsArchivedByRace == Spec => ActiveArchivedOnlyByRace
<1>1. Init => SweptQuiet
  BY DEF Init, SweptQuiet
<1>2. SweptQuiet /\ [StoreNext]_vars => [~archived /\ archived' => ~recent \/ stirred]_vars
  <2> SUFFICES ASSUME SweptQuiet, StoreNext, ~archived, archived' PROVE ~recent \/ stirred
    OBVIOUS
  <2>1. ASSUME NEW r \in Requests, Serve(r) PROVE archived' = archived
    BY <2>1 DEF Serve, Arrive, RequestFails, CheckRequest, FindMember, InsertMember,
                ApproveMember, RemoveMember, RenameChannel, InsertMessage, TouchActivity,
                channelVars
  <2>2. swept
    BY <2>1 DEF StoreNext, Next, AllServed, CreateChannel, GoQuiet, SweepQuery, SweepUpdate,
                vars, channelVars
  <2> QED
    BY <2>2 DEF SweptQuiet
<1> QED
  BY <1>1, <1>2, StoreInit, StoreStep, SweptStep, PTL DEF Spec, ActiveArchivedOnlyByRace

=============================================================================
