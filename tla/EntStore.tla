------------------------------ MODULE EntStore ------------------------------
(***************************************************************************)
(* The ORM that ent generates for the Go service (src/go-service/ent) over *)
(* its four Postgres tables: a builder is filled call by call and saved,   *)
(* rows are deleted, and a query with an eager-loaded edge reads its rows  *)
(* in one statement and the edge in another, between which the tables may  *)
(* change.  A statement, with its foreign keys, is atomic (sqlgraph wraps  *)
(* those of one Save in a transaction), but may fail, or take effect while *)
(* its answer is lost or its caller's context ends.  The calls of a builder *)
(* are local to its goroutine and move no table, so that one builder at a  *)
(* time stands for many; so does one query, which moves none.  Left out    *)
(* are bulk creation, transactions of the caller, hooks, interceptors,     *)
(* traversals, projections and aggregates, of which the program uses none  *)
(* but the count.                                                          *)
(***************************************************************************)
EXTENDS EntMutation, TLC

CONSTANTS MaxCalls,      \* bound: for each kind of builder, the calls made on it
          MaxStatements, \* bound: the statements sent that may change a table
          LastOpen       \* bound: a builder is opened while fewer statements than this were sent

VARIABLES tab,     \* for each type, the rows of its table by their ids
          build,   \* the builder being filled, or None
          reader,  \* the query under way, or None
          result,  \* what the last Save, deletion or query returned: "ok" or "error"
          sent     \* bound: how many statements that may change a table were sent

vars == <<tab, build, reader, result, sent>>

Types == {"Channel", "ChannelMember", "ChannelMessage", "User"}
Ops == {"create", "update", "updateOne"}

ASSUME EntAssumption == MaxStatements \in Nat /\ \A y \in Types : None \notin Ids[y]

-----------------------------------------------------------------------------
(* The tables                                                              *)

Columns == [Channel |-> ChannelFields, ChannelMember |-> MemberFields,
            ChannelMessage |-> MessageFields, User |-> UserFields]

References == [Channel |-> [owner_id |-> "User"],
               ChannelMember |-> [channel_id |-> "Channel", user_id |-> "User"],
               ChannelMessage |-> [channel_id |-> "Channel", user_id |-> "User"],
               User |-> <<>>]

\* The edges to many rows, and the column by which these refer back.
Many == [Channel |-> ChannelMany, User |-> UserMany,
         ChannelMember |-> <<>>, ChannelMessage |-> <<>>]
Back == [Channel |-> [memberships |-> "channel_id", messages |-> "channel_id"],
         User |-> [owned_channels |-> "owner_id", memberships |-> "user_id",
                   channel_messages |-> "user_id"]]

\* What the validators and the column types admit in a row.
ChannelRow == [name : Values.name \ {""}, type : Values.type \cup {"open"},
               invite_code : Values.invite_code \ {""}, owner_id : Ids.User,
               created_at : Values.created_at \cup {"now"}]
MemberRow == [channel_id : Ids.Channel, user_id : Ids.User, status : Statuses,
              joined_at : Values.joined_at \cup {"now"}]
MessageRow == [channel_id : Ids.Channel, user_id : Ids.User, user_name : Values.user_name \ {""},
               body : Values.body \cup {None}, media_url : Values.media_url \cup {None},
               created_at : Values.created_at \cup {"now"}]
UserRow == [name : Values.name \ {""}, password : Values.password,
            created_at : Values.created_at \cup {"now"}]
Rows == [Channel |-> ChannelRow, ChannelMember |-> MemberRow,
         ChannelMessage |-> MessageRow, User |-> UserRow]

NotNull(t) == \A y \in Types : \A i \in DOMAIN t[y] :
                  \A f \in Columns[y] \ MessageOptional : t[y][i][f] # None

\* Mutant: the schema is created with migrate.WithForeignKeys(false).
ForeignKeysOff(t) == TRUE
ForeignKeys(t) == \A y \in Types : \A i \in DOMAIN t[y] :
                      \A f \in DOMAIN References[y] : t[y][i][f] \in DOMAIN t[References[y][f]]

UniqueColumns == [Channel |-> {"invite_code"}, User |-> {"name"},
                  ChannelMember |-> {}, ChannelMessage |-> {}]
Unique(t) == \A y \in Types : \A f \in UniqueColumns[y] :
                 \A i, j \in DOMAIN t[y] : t[y][i][f] = t[y][j][f] => i = j

\* What Postgres accepts at the end of a statement; there is no ON DELETE action.
Admitted(t) == NotNull(t) /\ ForeignKeys(t) /\ Unique(t)

-----------------------------------------------------------------------------
(* Saving a builder                                                        *)

Linked(y, e, ids) == {j \in DOMAIN tab[Many[y][e]] : tab[Many[y][e]][j][Back[y][e]] \in ids}

\* sqlgraph links only rows whose reference is NULL and unlinks a row by making it NULL: here
\* every reference is NOT NULL, so that either is refused, unless there is nothing to unlink.
Relinks(y, ids, s) ==
    \/ s.added # {}
    \/ \E e \in s.emptied : Linked(y, e, ids) # {}
    \/ \E p \in s.removed : p[2] \in Linked(y, p[1], ids)

Written(row, s) == [f \in DOMAIN row |-> IF f \in DOMAIN s.set THEN s.set[f]
                                         ELSE IF f \in s.null THEN None ELSE row[f]]

ChannelMutate(op, m) ==
    LET d == ChannelDefaults(m)
    IN {s \in {ChannelCreate(d)} : op = "create" /\ ChannelCreateCheck(d)}
       \cup {s \in {ChannelUpdate(m)} : op = "update" /\ ChannelUpdateCheck(m)}
       \cup {s \in {ChannelUpdateOne(m)} : op = "updateOne" /\ ChannelUpdateOneCheck(m)}

MemberMutate(op, m) ==
    LET d == MemberDefaults(m)
    IN {s \in {MemberCreate(d)} : op = "create" /\ MemberCreateCheck(d)}
       \cup {s \in {MemberUpdate(m)} : op = "update" /\ MemberUpdateCheck(m)}
       \cup {s \in {MemberUpdateOne(m)} : op = "updateOne" /\ MemberUpdateOneCheck(m)}

MessageMutate(op, m) ==
    LET d == MessageDefaults(m)
    IN {s \in {MessageCreate(d)} : op = "create" /\ MessageCreateCheck(d)}
       \cup {s \in {MessageUpdate(m)} : op = "update" /\ MessageUpdateCheck(m)}
       \cup {s \in {MessageUpdateOne(m)} : op = "updateOne" /\ MessageUpdateOneCheck(m)}

UserMutate(op, m) ==
    LET d == UserDefaults(m)
    IN {s \in {UserCreate(d)} : op = "create" /\ UserCreateCheck(d)}
       \cup {s \in {UserUpdate(m)} : op = "update" /\ UserUpdateCheck(m)}
       \cup {s \in {UserUpdateOne(m)} : op = "updateOne" /\ UserUpdateOneCheck(m)}

\* The statement a builder sends, unless its own checks refuse it.
Mutate(y, op, m) ==
    CASE y = "Channel" -> ChannelMutate(op, m)
      [] y = "ChannelMember" -> MemberMutate(op, m)
      [] y = "ChannelMessage" -> MessageMutate(op, m)
      [] y = "User" -> UserMutate(op, m)

Refused == result' = "error" /\ UNCHANGED tab

\* The statement leaves tables t, whether its answer arrives or not; or it fails, as all do
\* that Postgres does not admit.
Become(t) ==
    \/ Admitted(t) /\ tab' = t /\ result' \in {"ok", "error"}
    \/ Refused

Insert(y, s) ==
    /\ Ids[y] \ DOMAIN tab[y] # {}
    /\ LET i == CHOOSE j \in Ids[y] : j \notin DOMAIN tab[y]
       IN IF s.added # {} THEN Refused
          ELSE Become([tab EXCEPT ![y] = With(@, i, Written([f \in Columns[y] |-> None], s))])

\* (Postgres refuses to assign one column twice: one more way to fail.)
Assign(y, s, ids) ==
    IF ids # {} /\ Relinks(y, ids, s) THEN Refused
    ELSE Become([tab EXCEPT ![y] = [i \in DOMAIN @ |-> IF i \in ids THEN Written(@[i], s)
                                                         ELSE @[i]]])

\* Mutant: the statement of an update goes out without its predicates.
SaveEverywhere ==
    /\ build # None
    /\ sent < MaxStatements
    /\ LET y == build.type
           statements == Mutate(y, build.op, build.m)
       IN \/ statements = {} /\ Refused
          \/ \E s \in statements : IF build.op = "create" THEN Insert(y, s)
                                    ELSE Assign(y, s, DOMAIN tab[y])
    /\ build' = None
    /\ sent' = sent + 1
    /\ UNCHANGED reader

Save ==
    /\ build # None
    /\ sent < MaxStatements
    /\ LET y == build.type
           statements == Mutate(y, build.op, build.m)
       IN \/ statements = {} /\ Refused
          \/ \E s \in statements :
                \/ build.op = "create" /\ Insert(y, s)
                \/ build.op = "update" /\ Assign(y, s, build.where)
                \/ build.op = "updateOne" /\ build.where # {} /\ Assign(y, s, build.where)
                \/ build.op = "updateOne" /\ build.where = {} /\ Refused
    /\ build' = None
    /\ sent' = sent + 1
    /\ UNCHANGED reader

-----------------------------------------------------------------------------
(* Filling a builder                                                       *)

ChannelBuilder(op, m) ==
    ChannelCalls(m) \cup (CASE op = "create" -> ChannelCreateCalls(m)
                            [] op = "update" -> ChannelUpdateCalls(m)
                            [] op = "updateOne" -> ChannelUpdateOneCalls(m))
MemberBuilder(op, m) ==
    MemberCalls(m) \cup (CASE op = "create" -> MemberCreateCalls(m)
                           [] op = "update" -> MemberUpdateCalls(m)
                           [] op = "updateOne" -> MemberUpdateOneCalls(m))
MessageBuilder(op, m) ==
    MessageCalls(m) \cup (CASE op = "create" -> MessageCreateCalls(m)
                            [] op = "update" -> MessageUpdateCalls(m)
                            [] op = "updateOne" -> MessageUpdateOneCalls(m))
UserBuilder(op, m) ==
    UserCalls(m) \cup (CASE op = "create" -> UserCreateCalls(m)
                         [] op = "update" -> UserUpdateCalls(m)
                         [] op = "updateOne" -> UserUpdateOneCalls(m))

Call ==
    /\ build # None
    /\ build.calls < MaxCalls[build.op]
    /\ \E m \in CASE build.type = "Channel" -> ChannelBuilder(build.op, build.m)
                  [] build.type = "ChannelMember" -> MemberBuilder(build.op, build.m)
                  [] build.type = "ChannelMessage" -> MessageBuilder(build.op, build.m)
                  [] build.type = "User" -> UserBuilder(build.op, build.m) :
          build' = [build EXCEPT !.m = m, !.calls = @ + 1]
    /\ UNCHANGED <<tab, reader, result, sent>>

-----------------------------------------------------------------------------
(* The clients                                                             *)

\* The rows that an update's predicates, or the id and the predicates of an UpdateOne, match.
Matches(y, op) == CASE op = "create" -> {{}}
                    [] op = "update" -> SUBSET DOMAIN tab[y]
                    [] op = "updateOne" -> {{}} \cup {{i} : i \in DOMAIN tab[y]}

\* A builder is opened by Create, Update, UpdateOne or UpdateOneID.  As no statement comes
\* before its own, the rows that will match can be told here.
Open(y) ==
    /\ sent < LastOpen
    /\ \E op \in Ops : \E ids \in Matches(y, op) :
          build' = [type |-> y, op |-> op, where |-> ids, m |-> Blank, calls |-> 0]
    /\ UNCHANGED <<tab, reader, result, sent>>

ExecDelete(y, ids) ==
    /\ sent < MaxStatements
    /\ Become([tab EXCEPT ![y] = Restrict(@, DOMAIN @ \ ids)])
    /\ sent' = sent + 1
    /\ UNCHANGED <<build, reader>>

\* No such row, or none that matches, is an error.
ExecDeleteOne(y, i) ==
    /\ sent < MaxStatements
    /\ \/ i \in DOMAIN tab[y] /\ Become([tab EXCEPT ![y] = Restrict(@, DOMAIN @ \ {i})])
       \/ Refused
    /\ sent' = sent + 1
    /\ UNCHANGED <<build, reader>>

ChannelDelete == \/ \E ids \in SUBSET DOMAIN tab.Channel : ExecDelete("Channel", ids)
                 \/ \E i \in Ids.Channel : ExecDeleteOne("Channel", i)
MemberDelete == \/ \E ids \in SUBSET DOMAIN tab.ChannelMember : ExecDelete("ChannelMember", ids)
                \/ \E i \in Ids.ChannelMember : ExecDeleteOne("ChannelMember", i)
MessageDelete == \/ \E ids \in SUBSET DOMAIN tab.ChannelMessage : ExecDelete("ChannelMessage", ids)
                 \/ \E i \in Ids.ChannelMessage : ExecDeleteOne("ChannelMessage", i)
UserDelete == \/ \E ids \in SUBSET DOMAIN tab.User : ExecDelete("User", ids)
              \/ \E i \in Ids.User : ExecDeleteOne("User", i)

ChannelClient == build = None /\ (Open("Channel") \/ ChannelDelete)
MemberClient == build = None /\ (Open("ChannelMember") \/ MemberDelete)
MessageClient == build = None /\ (Open("ChannelMessage") \/ MessageDelete)
UserClient == build = None /\ (Open("User") \/ UserDelete)

-----------------------------------------------------------------------------
(* Queries                                                                 *)

\* What the first statement hands on of the rows that match; nothing if that is an error.
Singled(how, found) ==
    CASE how = "All" -> {found}
      [] how = "First" -> {{i} : i \in found}
      [] how = "Only" -> IF Cardinality(found) = 1 THEN {found} ELSE {}

\* The rows that match come in with their columns; an edge, if one is asked for, comes later.
Query(y, entities, edges) ==
    /\ build = None /\ reader = None
    /\ \/ \E found \in SUBSET DOMAIN tab[y], how \in {"All", "First", "Only"} :
             \E ids \in Singled(how, found), e \in edges \cup {None} :
                /\ result' = "ok"
                /\ reader' = IF ids = {} \/ e = None THEN None
                             ELSE [type |-> y, edge |-> e, nodes |-> Restrict(entities, ids),
                                   loaded |-> None]
       \/ result' = "error" /\ UNCHANGED reader
    /\ UNCHANGED <<tab, build, sent>>

\* An entity has "" for the NULL of a field that is no pointer.
MessageEntities == [i \in DOMAIN tab.ChannelMessage |->
                       [tab.ChannelMessage[i] EXCEPT !.body = IF @ = None THEN "" ELSE @]]

ChannelQuery == Query("Channel", tab.Channel, {"owner_id", "memberships", "messages"})
MemberQuery == Query("ChannelMember", tab.ChannelMember, {"channel_id", "user_id"})
MessageQuery == Query("ChannelMessage", MessageEntities, {"channel_id", "user_id"})
UserQuery == Query("User", tab.User, {"owned_channels", "memberships", "channel_messages"})

\* The rows the nodes refer to, by one id IN (...); a node whose row is gone keeps nil.
LoadRef(y, nodes, f) ==
    [i \in DOMAIN nodes |-> IF nodes[i][f] \in DOMAIN tab[References[y][f]] THEN nodes[i][f]
                            ELSE None]

\* The rows that refer to the nodes, each filed under the node it names.
LoadMany(y, nodes, e) == [i \in DOMAIN nodes |-> Linked(y, e, {i})]

Load(y) ==
    /\ build = None
    /\ reader # None
    /\ reader.type = y /\ reader.loaded = None
    /\ \/ /\ reader' = [reader EXCEPT !.loaded = IF reader.edge \in DOMAIN References[y]
                                                 THEN LoadRef(y, reader.nodes, reader.edge)
                                                 ELSE LoadMany(y, reader.nodes, reader.edge)]
          /\ UNCHANGED result
       \/ reader' = None /\ result' = "error"
    /\ UNCHANGED <<tab, build, sent>>

ChannelLoad == Load("Channel")
MemberLoad == Load("ChannelMember")
MessageLoad == Load("ChannelMessage")
UserLoad == Load("User")

\* The caller is done with what the query returned.
Return ==
    /\ build = None
    /\ reader # None
    /\ reader.loaded # None
    /\ reader' = None
    /\ UNCHANGED <<tab, build, result, sent>>

-----------------------------------------------------------------------------
Init ==
    /\ tab = [y \in Types |-> <<>>]
    /\ build = None
    /\ reader = None
    /\ result = "ok"
    /\ sent = 0

Next ==
    \/ ChannelClient \/ MemberClient \/ MessageClient \/ UserClient
    \/ Call \/ Save
    \/ ChannelQuery \/ MemberQuery \/ MessageQuery \/ UserQuery
    \/ ChannelLoad \/ MemberLoad \/ MessageLoad \/ UserLoad
    \/ Return

Spec == Init /\ [][Next]_vars

-----------------------------------------------------------------------------
(* Properties                                                              *)

\* Every row is one the validators of its type and the column types admit, however its builder
\* was filled and whatever order the calls came in.
TypeOK ==
    /\ \A y \in Types : \A i \in DOMAIN tab[y] : i \in Ids[y] /\ tab[y][i] \in Rows[y]
    /\ build # None => /\ build.type \in Types /\ build.op \in Ops
                       /\ build.where \subseteq DOMAIN tab[build.type]
    /\ result \in {"ok", "error"}
    /\ sent \in 0..MaxStatements

Immutable == {"created_at", "joined_at"}

\* What the caller of a creation gets: what it last asked of a column, over the defaults.  (A
\* reference that was set and then cleared through Mutation() is created all the same.)
Wanted(y, row, m) ==
    \A f \in DOMAIN row \ m.unlinked :
        row[f] = IF f \in DOMAIN m.asked THEN m.asked[f]
                 ELSE CASE f \in Immutable -> "now"
                        [] f = "type" -> "open"
                        [] f = "status" -> "approved"
                        [] OTHER -> None

Created(y, m) == \E i \in DOMAIN tab'[y] \ DOMAIN tab[y] :
    /\ tab'[y] = With(tab[y], i, tab'[y][i])
    /\ Wanted(y, tab'[y][i], m)

Updated(y, ids, m) ==
    tab'[y] = [i \in DOMAIN tab[y] |-> [f \in Columns[y] |->
                  IF i \in ids /\ f \in DOMAIN m.asked \ Immutable THEN m.asked[f] ELSE tab[y][i][f]]]

\* A Save does what the last call on each column asked, whatever setters, clears and resets
\* came before it: to every row that matched (of an UpdateOne, the one), to no other row or
\* column, and to no other table, whatever was asked of the edges.  Or it does nothing; then
\* it returns an error.  (An error does not tell which: the answer may have been lost.)
SavedAsBuilt == [][
    (build # None /\ sent' # sent) =>
        \/ /\ \A y \in Types \ {build.type} : tab'[y] = tab[y]
           /\ CASE build.op = "create" -> Created(build.type, build.m)
                [] build.op = "update" -> Updated(build.type, build.where, build.m)
                [] build.op = "updateOne" -> /\ build.where # {}
                                             /\ Updated(build.type, build.where, build.m)
        \/ result' = "error" /\ UNCHANGED tab]_vars

\* An eager-loaded edge is nil only for a node whose own row was deleted or sent elsewhere
\* between the two statements of its query: GetUserChannels passes over a nil edge, and
\* GetChannelMembers lists it without a name, neither of which must befall a membership that
\* is still as they read it.
NilOnlyIfMoved == [][
    (reader # None /\ reader' # None /\ reader'.loaded # reader.loaded /\ reader.edge \in DOMAIN References[reader.type]) =>
        \A i \in DOMAIN reader.nodes :
            reader'.loaded[i] = None =>
                \/ i \notin DOMAIN tab[reader.type]
                \/ tab[reader.type][i][reader.edge] # reader.nodes[i][reader.edge]]_vars

=============================================================================
