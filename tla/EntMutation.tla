----------------------------- MODULE EntMutation -----------------------------
(***************************************************************************)
(* The builders that ent generates for the four types of the Go service:   *)
(* what each call leaves in the builder's mutation (ent/mutation.go), and  *)
(* what Save makes of it (the sqlSave of *_create.go and *_update.go).     *)
(* A builder belongs to one goroutine, so that its calls are a sequence;   *)
(* an operator XCalls(m) is the set of mutations one call on m can leave.  *)
(* A setter of a field and SetField with the field's name do the same, and *)
(* so do the forms that take nil or an entity instead of an id.  Reading a *)
(* mutation, which the program never does, is left out; so are the ids,    *)
(* which Postgres' uuid defaults keep apart.                               *)
(***************************************************************************)
EXTENDS FiniteSets, Functions

CONSTANTS Values,   \* bound: for each field, the values a caller may give it
          Ids,      \* bound: for each type, the ids of its rows
          None      \* SQL's NULL

\* A mutation.  A reference to one row goes by the column that holds it.  The history
\* "asked" has, for a column that was called for, what its last call asked.
Blank == [set |-> <<>>, cleared |-> {}, unlinked |-> {},
          added |-> {}, removed |-> {}, emptied |-> {}, asked |-> <<>>]

Without(g, f) == Restrict(g, DOMAIN g \ {f})
With(g, f, v) == [x \in DOMAIN g \cup {f} |-> IF x = f THEN v ELSE g[x]]

-----------------------------------------------------------------------------
(* One call                                                                *)

SetField(m, f, v) == [m EXCEPT !.set = With(@, f, v), !.asked = With(@, f, v)]

ResetField(m, f) ==
    [m EXCEPT !.set = Without(@, f), !.cleared = @ \ {f}, !.asked = Without(@, f)]

\* Mutant: the value that was set before stays.
ClearFieldKeeping(m, f) ==
    [m EXCEPT !.cleared = @ \cup {f}, !.asked = With(@, f, None)]

ClearField(m, f) ==
    [m EXCEPT !.set = Without(@, f), !.cleared = @ \cup {f}, !.asked = With(@, f, None)]

\* Unlike a field's, a reference's value stays when it is cleared.
ClearRef(m, f) == [m EXCEPT !.unlinked = @ \cup {f}, !.asked = With(@, f, None)]

ResetRef(m, f) ==
    [m EXCEPT !.set = Without(@, f), !.unlinked = @ \ {f}, !.asked = Without(@, f)]

\* Adding takes back no removal and no emptying; removing takes back an addition.
AddID(m, e, i) == [m EXCEPT !.added = @ \cup {<<e, i>>}]
RemoveID(m, e, i) == [m EXCEPT !.added = @ \ {<<e, i>>}, !.removed = @ \cup {<<e, i>>}]
ClearMany(m, e) == [m EXCEPT !.emptied = @ \cup {e}]
ResetMany(m, e) ==
    [m EXCEPT !.added = {p \in @ : p[1] # e}, !.removed = {p \in @ : p[1] # e},
              !.emptied = @ \ {e}]

SetCalls(m, fs) == UNION {{SetField(m, f, v) : v \in Values[f]} : f \in fs}
ResetCalls(m, fs) == {ResetField(m, f) : f \in fs}
ClearCalls(m, fs) == {ClearField(m, f) : f \in fs}
RefCalls(m, fs) == {ClearRef(m, f) : f \in fs} \cup {ResetRef(m, f) : f \in fs}

\* The edges to many rows, with the type of the rows.
AddCalls(m, es) == UNION {{AddID(m, e, i) : i \in Ids[es[e]]} : e \in DOMAIN es}
BuilderManyCalls(m, es) ==
    AddCalls(m, es) \cup {ClearMany(m, e) : e \in DOMAIN es}
                    \cup UNION {{RemoveID(m, e, i) : i \in Ids[es[e]]} : e \in DOMAIN es}
ManyCalls(m, es) == BuilderManyCalls(m, es) \cup {ResetMany(m, e) : e \in DOMAIN es}

-----------------------------------------------------------------------------
(* What Save makes of a mutation                                           *)

Statuses == {"pending", "approved"}

Valid(m, fs) ==
    \A f \in fs \cap DOMAIN m.set :
        IF f = "status" THEN m.set[f] \in Statuses ELSE m.set[f] # ""

\* A reference may not be cleared and set; one that is only cleared is for the database to refuse.
RefsAgree(m, rs) == \A r \in rs : ~(r \in m.unlinked /\ r \in DOMAIN m.set)

Defaults(m, ds) == [m EXCEPT !.set = [f \in DOMAIN @ \cup DOMAIN ds |->
                                         IF f \in DOMAIN @ THEN @[f] ELSE ds[f]]]

\* The statement of an update; what a caller of Mutation() has set of an immutable field is
\* left out of it, and so are the removals from an edge that is emptied.
Updating(m, fields, refs) ==
    [set |-> Restrict(m.set, (fields \cup refs) \cap DOMAIN m.set),
     null |-> (m.cleared \cap fields) \cup (m.unlinked \cap refs),
     added |-> m.added,
     removed |-> {p \in m.removed : p[1] \notin m.emptied},
     emptied |-> m.emptied]

\* The statement of a creation: every column that was not set is NULL.
Creating(m, columns) ==
    [set |-> Restrict(m.set, columns \cap DOMAIN m.set), null |-> columns \ DOMAIN m.set,
     added |-> m.added, removed |-> {}, emptied |-> {}]

-----------------------------------------------------------------------------
(* Channel                                                                 *)

ChannelFields == {"name", "type", "invite_code", "created_at", "owner_id"}
ChannelMany == [memberships |-> "ChannelMember", messages |-> "ChannelMessage"]

ChannelFieldCalls(m) == SetCalls(m, ChannelFields) \cup ResetCalls(m, ChannelFields)
ChannelEdgeCalls(m) == RefCalls(m, {"owner_id"}) \cup ManyCalls(m, ChannelMany)
\* No field may be cleared by its name.
ChannelFieldsByName(m) == SetCalls(m, ChannelFields) \cup ResetCalls(m, ChannelFields)
ChannelEdgesByName(m) == RefCalls(m, {"owner_id"}) \cup {ResetMany(m, e) : e \in DOMAIN ChannelMany}
ChannelCalls(m) ==
    ChannelFieldCalls(m) \cup ChannelEdgeCalls(m) \cup ChannelFieldsByName(m) \cup ChannelEdgesByName(m)

ChannelCreateCalls(m) == SetCalls(m, ChannelFields) \cup AddCalls(m, ChannelMany)
ChannelDefaults(m) == Defaults(m, [type |-> "open", created_at |-> "now"])
ChannelCreateCheck(m) == ChannelFields \subseteq DOMAIN m.set /\ Valid(m, {"name", "invite_code"})
ChannelCreate(m) == Creating(m, ChannelFields)

ChannelUpdateCalls(m) ==
    SetCalls(m, ChannelFields \ {"created_at"}) \cup {ClearRef(m, "owner_id")}
        \cup BuilderManyCalls(m, ChannelMany)
\* Mutant: the validators run on creation only.
ChannelUpdateCheckRefs(m) == RefsAgree(m, {"owner_id"})
ChannelUpdateCheck(m) == Valid(m, {"name", "invite_code"}) /\ RefsAgree(m, {"owner_id"})
ChannelUpdate(m) == Updating(m, {"name", "type", "invite_code"}, {"owner_id"})

ChannelUpdateOneCalls(m) ==
    SetCalls(m, ChannelFields \ {"created_at"}) \cup {ClearRef(m, "owner_id")}
        \cup BuilderManyCalls(m, ChannelMany)
ChannelUpdateOneCheck(m) == Valid(m, {"name", "invite_code"}) /\ RefsAgree(m, {"owner_id"})
ChannelUpdateOne(m) == Updating(m, {"name", "type", "invite_code"}, {"owner_id"})

-----------------------------------------------------------------------------
(* ChannelMember                                                           *)

MemberFields == {"channel_id", "user_id", "joined_at", "status"}

MemberFieldCalls(m) == SetCalls(m, MemberFields) \cup ResetCalls(m, MemberFields)
MemberEdgeCalls(m) == RefCalls(m, {"channel_id", "user_id"})
MemberFieldsByName(m) == SetCalls(m, MemberFields) \cup ResetCalls(m, MemberFields)
MemberEdgesByName(m) == RefCalls(m, {"channel_id", "user_id"})
MemberCalls(m) ==
    MemberFieldCalls(m) \cup MemberEdgeCalls(m) \cup MemberFieldsByName(m) \cup MemberEdgesByName(m)

MemberCreateCalls(m) == SetCalls(m, MemberFields)
MemberDefaults(m) == Defaults(m, [joined_at |-> "now", status |-> "approved"])
MemberCreateCheck(m) == MemberFields \subseteq DOMAIN m.set /\ Valid(m, {"status"})
MemberCreate(m) == Creating(m, MemberFields)

MemberUpdateCalls(m) ==
    SetCalls(m, MemberFields \ {"joined_at"}) \cup {ClearRef(m, f) : f \in {"channel_id", "user_id"}}
MemberUpdateCheck(m) == Valid(m, {"status"}) /\ RefsAgree(m, {"channel_id", "user_id"})
MemberUpdate(m) == Updating(m, {"status"}, {"channel_id", "user_id"})

MemberUpdateOneCalls(m) ==
    SetCalls(m, MemberFields \ {"joined_at"}) \cup {ClearRef(m, f) : f \in {"channel_id", "user_id"}}
MemberUpdateOneCheck(m) == Valid(m, {"status"}) /\ RefsAgree(m, {"channel_id", "user_id"})
MemberUpdateOne(m) == Updating(m, {"status"}, {"channel_id", "user_id"})

-----------------------------------------------------------------------------
(* ChannelMessage                                                          *)

MessageFields == {"channel_id", "user_id", "user_name", "body", "media_url", "created_at"}
MessageOptional == {"body", "media_url"}

MessageFieldCalls(m) ==
    SetCalls(m, MessageFields) \cup ResetCalls(m, MessageFields) \cup ClearCalls(m, MessageOptional)
MessageEdgeCalls(m) == RefCalls(m, {"channel_id", "user_id"})
MessageFieldsByName(m) ==
    SetCalls(m, MessageFields) \cup ResetCalls(m, MessageFields) \cup ClearCalls(m, MessageOptional)
MessageEdgesByName(m) == RefCalls(m, {"channel_id", "user_id"})
MessageCalls(m) ==
    MessageFieldCalls(m) \cup MessageEdgeCalls(m) \cup MessageFieldsByName(m) \cup MessageEdgesByName(m)

MessageCreateCalls(m) == SetCalls(m, MessageFields)
MessageDefaults(m) == Defaults(m, [created_at |-> "now"])
MessageCreateCheck(m) ==
    MessageFields \ MessageOptional \subseteq DOMAIN m.set /\ Valid(m, {"user_name"})
MessageCreate(m) == Creating(m, MessageFields)

MessageUpdateCalls(m) ==
    SetCalls(m, MessageFields \ {"created_at"}) \cup ClearCalls(m, MessageOptional)
        \cup {ClearRef(m, f) : f \in {"channel_id", "user_id"}}
MessageUpdateCheck(m) == Valid(m, {"user_name"}) /\ RefsAgree(m, {"channel_id", "user_id"})
MessageUpdate(m) == Updating(m, {"user_name", "body", "media_url"}, {"channel_id", "user_id"})

MessageUpdateOneCalls(m) ==
    SetCalls(m, MessageFields \ {"created_at"}) \cup ClearCalls(m, MessageOptional)
        \cup {ClearRef(m, f) : f \in {"channel_id", "user_id"}}
MessageUpdateOneCheck(m) == Valid(m, {"user_name"}) /\ RefsAgree(m, {"channel_id", "user_id"})
MessageUpdateOne(m) == Updating(m, {"user_name", "body", "media_url"}, {"channel_id", "user_id"})

-----------------------------------------------------------------------------
(* User                                                                    *)

UserFields == {"name", "password", "created_at"}
UserMany == [owned_channels |-> "Channel", memberships |-> "ChannelMember",
             channel_messages |-> "ChannelMessage"]

UserFieldCalls(m) == SetCalls(m, UserFields) \cup ResetCalls(m, UserFields)
UserEdgeCalls(m) == ManyCalls(m, UserMany)
UserFieldsByName(m) == SetCalls(m, UserFields) \cup ResetCalls(m, UserFields)
UserEdgesByName(m) == {ResetMany(m, e) : e \in DOMAIN UserMany}
UserCalls(m) ==
    UserFieldCalls(m) \cup UserEdgeCalls(m) \cup UserFieldsByName(m) \cup UserEdgesByName(m)

UserCreateCalls(m) == SetCalls(m, UserFields) \cup AddCalls(m, UserMany)
UserDefaults(m) == Defaults(m, [created_at |-> "now"])
UserCreateCheck(m) == UserFields \subseteq DOMAIN m.set /\ Valid(m, {"name"})
UserCreate(m) == Creating(m, UserFields)

UserUpdateCalls(m) == SetCalls(m, UserFields \ {"created_at"}) \cup BuilderManyCalls(m, UserMany)
UserUpdateCheck(m) == Valid(m, {"name"})
UserUpdate(m) == Updating(m, {"name", "password"}, {})

UserUpdateOneCalls(m) == SetCalls(m, UserFields \ {"created_at"}) \cup BuilderManyCalls(m, UserMany)
UserUpdateOneCheck(m) == Valid(m, {"name"})
UserUpdateOne(m) == Updating(m, {"name", "password"}, {})

=============================================================================
