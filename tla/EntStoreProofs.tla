--------------------------- MODULE EntStoreProofs ---------------------------
(***************************************************************************)
(* Proofs about module EntStore, for any ids and values, and any number of *)
(* calls and statements.                                                   *)
(***************************************************************************)
EXTENDS EntStore, TLAPS

\* A function, on whatever domain.
IsAFunction(g) == g = [x \in DOMAIN g |-> g[x]]

\* A mutation from its parts.
Mutation(s, c, u, a, r, e, k) ==
    [set |-> s, cleared |-> c, unlinked |-> u, added |-> a, removed |-> r, emptied |-> e, asked |-> k]

\* The columns F that are set to s, cleared as c, and as the references u of R, are what was
\* asked of each last (k), unless it was set before a reference was cleared.
Agree(s, c, u, k, F, R) ==
    /\ IsAFunction(s) /\ IsAFunction(k)
    /\ DOMAIN s \subseteq F /\ DOMAIN k \subseteq DOMAIN s \cup u \cup c
    /\ c \subseteq F \cap MessageOptional /\ u \subseteq R
    /\ \A f \in DOMAIN s : s[f] \in Values[f]
    /\ \A f \in DOMAIN s \ u : f \in DOMAIN k /\ k[f] = s[f]
    /\ \A f \in c \ DOMAIN s : f \in DOMAIN k /\ k[f] = None

Kept(m, F, R) ==
    /\ m = Mutation(m.set, m.cleared, m.unlinked, m.added, m.removed, m.emptied, m.asked)
    /\ Agree(m.set, m.cleared, m.unlinked, m.asked, F, R)

\* What the validators and the column types admit in a column that is no reference.
Validated == {"name", "invite_code", "user_name", "status"}
Fit(f) == CASE f = "status" -> Statuses
            [] f \in Validated \ {"status"} -> Values[f] \ {""}
            [] f = "type" -> Values[f] \cup {"open"}
            [] f \in Immutable -> Values[f] \cup {"now"}
            [] OTHER -> Values[f]

\* The tables hold rows that their types admit.
Fitting(y, row) ==
    /\ IsAFunction(row) /\ DOMAIN row = Columns[y]
    /\ \A f \in Columns[y] \ DOMAIN References[y] :
           row[f] \in Fit(f) \/ (f \in MessageOptional /\ row[f] = None)
    /\ \A f \in DOMAIN References[y] : row[f] \in Ids[References[y][f]]

Tables(t) ==
    /\ IsAFunction(t) /\ DOMAIN t = Types
    /\ \A y \in Types : /\ IsAFunction(t[y]) /\ DOMAIN t[y] \subseteq Ids[y]
                        /\ \A i \in DOMAIN t[y] : Fitting(y, t[y][i])

\* What a creation gives a column, by what was asked of it last.
Defaulted == Immutable \cup {"type", "status"}
Default(f) == CASE f \in Immutable -> "now"
                [] f = "type" -> "open"
                [] f = "status" -> "approved"
                [] OTHER -> None
Asked(m, f) == IF f \in DOMAIN m.asked THEN m.asked[f] ELSE Default(f)

\* The statement s does what was asked of the mutation m, which has the columns F and
\* the references R: a creation but for the references that were cleared, an update or else
\* a reference becomes NULL.
Does(op, F, R, m, s) ==
    /\ DOMAIN s.set \subseteq F
    /\ \A f \in DOMAIN s.set \ R : s.set[f] \in Fit(f)
    /\ op = "create" =>
           \A f \in F \ m.unlinked : Asked(m, f) = IF f \in DOMAIN s.set THEN s.set[f] ELSE None
    /\ op # "create" =>
           /\ \A f \in DOMAIN s.set : f \in DOMAIN m.asked \ Immutable /\ m.asked[f] = s.set[f]
           /\ \A f \in s.null \ (DOMAIN s.set \cup R) : f \in DOMAIN m.asked \ Immutable /\ m.asked[f] = None
           /\ DOMAIN m.asked \ Immutable \subseteq DOMAIN s.set \cup s.null

\* A builder has called only the methods of its type, and is after rows that are there.
Filled ==
    build # None =>
        /\ build = [type |-> build.type, op |-> build.op, where |-> build.where,
                    m |-> build.m, calls |-> build.calls]
        /\ build.type \in Types /\ build.op \in Ops
        /\ build.where \in SUBSET DOMAIN tab[build.type]
        /\ Kept(build.m, Columns[build.type], DOMAIN References[build.type])

\* What every state of the store satisfies.
Sound ==
    /\ Tables(tab) /\ Admitted(tab) /\ Filled
    /\ result \in {"ok", "error"} /\ sent \in 0..MaxStatements

\* The query under way is one of the four fields.
Reading ==
    reader # None => reader = [type |-> reader.type, edge |-> reader.edge,
                               nodes |-> reader.nodes, loaded |-> reader.loaded]

-----------------------------------------------------------------------------
(* Filling a builder                                                       *)

\* The parts of a mutation are its parts.
LEMMA MutationIs ==
    ASSUME NEW s, NEW c, NEW u, NEW a, NEW r, NEW e, NEW k, NEW F, NEW R, Agree(s, c, u, k, F, R)
    PROVE  Kept(Mutation(s, c, u, a, r, e, k), F, R)
  BY DEF Kept, Mutation

\* What each call makes of a mutation.
LEMMA SetFieldKeeps ==
    ASSUME NEW m, NEW F, NEW R, Kept(m, F, R), NEW f \in F, NEW v \in Values[f]
    PROVE  Kept(SetField(m, f, v), F, R)
  <1>1. PICK s, c, u, a, r, e, k : m = Mutation(s, c, u, a, r, e, k) /\ Agree(s, c, u, k, F, R)
    BY DEF Kept
  <1>2. Kept(SetField(m, f, v), F, R)
    <2>1. m.set = s /\ m.asked = k
      BY <1>1 DEF Mutation
    <2>2. PICK n, s2, k2 : n = SetField(m, f, v) /\ s2 = With(s, f, v) /\ k2 = With(k, f, v)
      OBVIOUS
    <2>3. n = [m EXCEPT !.set = s2, !.asked = k2]
      BY <2>1, <2>2, Zenon DEF SetField
    <2>4. n = Mutation(s2, c, u, a, r, e, k2)
      BY <1>1, <2>3 DEF Mutation
    <2>5. /\ IsAFunction(s2) /\ DOMAIN s2 = DOMAIN s \cup {f} /\ s2[f] = v
          /\ \A x \in DOMAIN s : x # f => s2[x] = s[x]
          /\ IsAFunction(k2) /\ DOMAIN k2 = DOMAIN k \cup {f} /\ k2[f] = v
          /\ \A x \in DOMAIN k : x # f => k2[x] = k[x]
      BY <2>2 DEF IsAFunction, With
    <2>6. Agree(s2, c, u, k2, F, R)
      BY <1>1, <2>2, <2>5 DEF Agree
    <2> QED BY <2>2, <2>4, <2>6, MutationIs
  <1> QED BY <1>2

LEMMA ResetFieldKeeps ==
    ASSUME NEW m, NEW F, NEW R, Kept(m, F, R), NEW f
    PROVE  Kept(ResetField(m, f), F, R)
  <1>1. PICK s, c, u, a, r, e, k : m = Mutation(s, c, u, a, r, e, k) /\ Agree(s, c, u, k, F, R)
    BY DEF Kept
  <1>2. Kept(ResetField(m, f), F, R)
    <2>1. m.set = s /\ m.cleared = c /\ m.asked = k
      BY <1>1 DEF Mutation
    <2>2. PICK n, s2, c2, k2 : n = ResetField(m, f) /\ s2 = Without(s, f) /\ c2 = c \ {f} /\ k2 = Without(k, f)
      OBVIOUS
    <2>3. n = [m EXCEPT !.set = s2, !.cleared = c2, !.asked = k2]
      BY <2>1, <2>2, Zenon DEF ResetField
    <2>4. n = Mutation(s2, c2, u, a, r, e, k2)
      BY <1>1, <2>3 DEF Mutation
    <2>5. /\ IsAFunction(s2) /\ DOMAIN s2 = DOMAIN s \ {f}
          /\ \A x \in DOMAIN s : x # f => s2[x] = s[x]
          /\ IsAFunction(k2) /\ DOMAIN k2 = DOMAIN k \ {f}
          /\ \A x \in DOMAIN k : x # f => k2[x] = k[x]
      BY <2>2 DEF IsAFunction, Without, Restrict
    <2>6. Agree(s2, c2, u, k2, F, R)
      BY <1>1, <2>2, <2>5 DEF Agree
    <2> QED BY <2>2, <2>4, <2>6, MutationIs
  <1> QED BY <1>2

LEMMA ClearFieldKeeps ==
    ASSUME NEW m, NEW F, NEW R, Kept(m, F, R), NEW f \in F \cap MessageOptional, f \notin R
    PROVE  Kept(ClearField(m, f), F, R)
  <1>1. PICK s, c, u, a, r, e, k : m = Mutation(s, c, u, a, r, e, k) /\ Agree(s, c, u, k, F, R)
    BY DEF Kept
  <1>2. Kept(ClearField(m, f), F, R)
    <2>1. m.set = s /\ m.cleared = c /\ m.asked = k
      BY <1>1 DEF Mutation
    <2>2. PICK n, s2, c2, k2 : n = ClearField(m, f) /\ s2 = Without(s, f) /\ c2 = c \cup {f} /\ k2 = With(k, f, None)
      OBVIOUS
    <2>3. n = [m EXCEPT !.set = s2, !.cleared = c2, !.asked = k2]
      BY <2>1, <2>2, Zenon DEF ClearField
    <2>4. n = Mutation(s2, c2, u, a, r, e, k2)
      BY <1>1, <2>3 DEF Mutation
    <2>5. /\ IsAFunction(s2) /\ DOMAIN s2 = DOMAIN s \ {f}
          /\ \A x \in DOMAIN s : x # f => s2[x] = s[x]
          /\ IsAFunction(k2) /\ DOMAIN k2 = DOMAIN k \cup {f} /\ k2[f] = None
          /\ \A x \in DOMAIN k : x # f => k2[x] = k[x]
      BY <2>2 DEF IsAFunction, With, Without, Restrict
    <2>6. Agree(s2, c2, u, k2, F, R)
      BY <1>1, <2>2, <2>5 DEF Agree
    <2> QED BY <2>2, <2>4, <2>6, MutationIs
  <1> QED BY <1>2

LEMMA RefKeeps ==
    ASSUME NEW m, NEW F, NEW R, Kept(m, F, R), NEW f \in R, f \notin MessageOptional
    PROVE  Kept(ClearRef(m, f), F, R) /\ Kept(ResetRef(m, f), F, R)
  <1>1. PICK s, c, u, a, r, e, k : m = Mutation(s, c, u, a, r, e, k) /\ Agree(s, c, u, k, F, R)
    BY DEF Kept
  <1>2. Kept(ClearRef(m, f), F, R)
    <2>1. m.unlinked = u /\ m.asked = k
      BY <1>1 DEF Mutation
    <2>2. PICK n, u2, k2 : n = ClearRef(m, f) /\ u2 = u \cup {f} /\ k2 = With(k, f, None)
      OBVIOUS
    <2>3. n = [m EXCEPT !.unlinked = u2, !.asked = k2]
      BY <2>1, <2>2, Zenon DEF ClearRef
    <2>4. n = Mutation(s, c, u2, a, r, e, k2)
      BY <1>1, <2>3 DEF Mutation
    <2>5. /\ IsAFunction(k2) /\ DOMAIN k2 = DOMAIN k \cup {f} /\ k2[f] = None
          /\ \A x \in DOMAIN k : x # f => k2[x] = k[x]
      BY <2>2 DEF IsAFunction, With
    <2>6. Agree(s, c, u2, k2, F, R)
      BY <1>1, <2>2, <2>5 DEF Agree
    <2> QED BY <2>2, <2>4, <2>6, MutationIs
  <1>3. Kept(ResetRef(m, f), F, R)
    <2>1. m.set = s /\ m.unlinked = u /\ m.asked = k
      BY <1>1 DEF Mutation
    <2>2. PICK n, s2, u2, k2 : n = ResetRef(m, f) /\ s2 = Without(s, f) /\ u2 = u \ {f} /\ k2 = Without(k, f)
      OBVIOUS
    <2>3. n = [m EXCEPT !.set = s2, !.unlinked = u2, !.asked = k2]
      BY <2>1, <2>2, Zenon DEF ResetRef
    <2>4. n = Mutation(s2, c, u2, a, r, e, k2)
      BY <1>1, <2>3 DEF Mutation
    <2>5. /\ IsAFunction(s2) /\ DOMAIN s2 = DOMAIN s \ {f}
          /\ \A x \in DOMAIN s : x # f => s2[x] = s[x]
          /\ IsAFunction(k2) /\ DOMAIN k2 = DOMAIN k \ {f}
          /\ \A x \in DOMAIN k : x # f => k2[x] = k[x]
      BY <2>2 DEF IsAFunction, Without, Restrict
    <2>6. Agree(s2, c, u2, k2, F, R)
      BY <1>1, <2>2, <2>5 DEF Agree
    <2> QED BY <2>2, <2>4, <2>6, MutationIs
  <1> QED BY <1>2, <1>3

LEMMA ManyKeeps ==
    ASSUME NEW m, NEW F, NEW R, Kept(m, F, R), NEW d, NEW i
    PROVE  /\ Kept(AddID(m, d, i), F, R) /\ Kept(RemoveID(m, d, i), F, R)
           /\ Kept(ClearMany(m, d), F, R) /\ Kept(ResetMany(m, d), F, R)
  <1>1. PICK s, c, u, a, r, e, k : m = Mutation(s, c, u, a, r, e, k) /\ Agree(s, c, u, k, F, R)
    BY DEF Kept
  <1>2. Kept(AddID(m, d, i), F, R)
    <2>1. m.added = a
      BY <1>1 DEF Mutation
    <2>2. PICK n, a2 : n = AddID(m, d, i) /\ a2 = a \cup {<<d, i>>}
      OBVIOUS
    <2>3. n = [m EXCEPT !.added = a2]
      BY <2>1, <2>2, Zenon DEF AddID
    <2>4. n = Mutation(s, c, u, a2, r, e, k)
      BY <1>1, <2>3 DEF Mutation
    <2> QED BY <1>1, <2>2, <2>4, MutationIs
  <1>3. Kept(RemoveID(m, d, i), F, R)
    <2>1. m.added = a /\ m.removed = r
      BY <1>1 DEF Mutation
    <2>2. PICK n, a2, r2 : n = RemoveID(m, d, i) /\ a2 = a \ {<<d, i>>} /\ r2 = r \cup {<<d, i>>}
      OBVIOUS
    <2>3. n = [m EXCEPT !.added = a2, !.removed = r2]
      BY <2>1, <2>2, Zenon DEF RemoveID
    <2>4. n = Mutation(s, c, u, a2, r2, e, k)
      BY <1>1, <2>3 DEF Mutation
    <2> QED BY <1>1, <2>2, <2>4, MutationIs
  <1>4. Kept(ClearMany(m, d), F, R)
    <2>1. m.emptied = e
      BY <1>1 DEF Mutation
    <2>2. PICK n, e2 : n = ClearMany(m, d) /\ e2 = e \cup {d}
      OBVIOUS
    <2>3. n = [m EXCEPT !.emptied = e2]
      BY <2>1, <2>2, Zenon DEF ClearMany
    <2>4. n = Mutation(s, c, u, a, r, e2, k)
      BY <1>1, <2>3 DEF Mutation
    <2> QED BY <1>1, <2>2, <2>4, MutationIs
  <1>5. Kept(ResetMany(m, d), F, R)
    <2>1. m.added = a /\ m.removed = r /\ m.emptied = e
      BY <1>1 DEF Mutation
    <2>2. PICK n, a2, r2, e2 : n = ResetMany(m, d) /\ a2 = {p \in a : p[1] # d} /\ r2 = {p \in r : p[1] # d} /\ e2 = e \ {d}
      OBVIOUS
    <2>3. n = [m EXCEPT !.added = a2, !.removed = r2, !.emptied = e2]
      BY <2>1, <2>2, Zenon DEF ResetMany
    <2>4. n = Mutation(s, c, u, a2, r2, e2, k)
      BY <1>1, <2>3 DEF Mutation
    <2> QED BY <1>1, <2>2, <2>4, MutationIs
  <1> QED BY <1>2, <1>3, <1>4, <1>5

\* The same for the calls of a kind.
LEMMA CallsKeep ==
    ASSUME NEW m, NEW F, NEW R, Kept(m, F, R), R \cap MessageOptional = {}, NEW n
    PROVE  /\ \A fs : fs \subseteq F /\ n \in SetCalls(m, fs) => Kept(n, F, R)
           /\ \A fs : n \in ResetCalls(m, fs) => Kept(n, F, R)
           /\ \A fs : fs \subseteq F \cap MessageOptional /\ n \in ClearCalls(m, fs) => Kept(n, F, R)
           /\ \A fs : fs \subseteq R /\ n \in RefCalls(m, fs) => Kept(n, F, R)
           /\ \A f \in R : n = ClearRef(m, f) => Kept(n, F, R)
           /\ \A es : n \in AddCalls(m, es) => Kept(n, F, R)
           /\ \A es : n \in BuilderManyCalls(m, es) => Kept(n, F, R)
           /\ \A es : n \in ManyCalls(m, es) => Kept(n, F, R)
           /\ \A d : n = ResetMany(m, d) => Kept(n, F, R)
  <1>1. \A fs : fs \subseteq F /\ n \in SetCalls(m, fs) => Kept(n, F, R)
    BY SetFieldKeeps DEF SetCalls
  <1>2. \A fs : n \in ResetCalls(m, fs) => Kept(n, F, R)
    BY ResetFieldKeeps DEF ResetCalls
  <1>3. \A fs : fs \subseteq F \cap MessageOptional /\ n \in ClearCalls(m, fs) => Kept(n, F, R)
    BY ClearFieldKeeps DEF ClearCalls
  <1>4. /\ \A fs : fs \subseteq R /\ n \in RefCalls(m, fs) => Kept(n, F, R)
        /\ \A f \in R : n = ClearRef(m, f) => Kept(n, F, R)
    BY RefKeeps DEF RefCalls
  <1>5. \A es : n \in AddCalls(m, es) => Kept(n, F, R)
    BY ManyKeeps DEF AddCalls
  <1>6. \A es : n \in BuilderManyCalls(m, es) => Kept(n, F, R)
    BY <1>5, ManyKeeps DEF BuilderManyCalls
  <1>7. \A es : n \in ManyCalls(m, es) => Kept(n, F, R)
    BY <1>6, ManyKeeps DEF ManyCalls
  <1> QED BY <1>1, <1>2, <1>3, <1>4, <1>5, <1>6, <1>7, ManyKeeps

\* The same for the builders of the four types.
LEMMA ChannelKeeps ==
    ASSUME NEW m, NEW F, NEW R, F = ChannelFields, R = {"owner_id"}, Kept(m, F, R),
           NEW op \in Ops, NEW n \in ChannelBuilder(op, m)
    PROVE  Kept(n, F, R)
  <1>1. R \cap MessageOptional = {}
    BY DEF MessageOptional
  <1>2. \/ n \in SetCalls(m, F) \/ n \in SetCalls(m, F \ {"created_at"}) \/ n \in ResetCalls(m, F)
        \/ n \in RefCalls(m, R) \/ n = ClearRef(m, "owner_id")
        \/ n \in AddCalls(m, ChannelMany) \/ n \in BuilderManyCalls(m, ChannelMany)
        \/ n \in ManyCalls(m, ChannelMany) \/ (\E d : n = ResetMany(m, d))
    BY DEF ChannelBuilder, ChannelCalls, ChannelFieldCalls, ChannelEdgeCalls, ChannelFieldsByName,
       ChannelEdgesByName, ChannelCreateCalls, ChannelUpdateCalls, ChannelUpdateOneCalls, Ops
  <1> QED BY <1>1, <1>2, CallsKeep

LEMMA MemberKeeps ==
    ASSUME NEW m, NEW F, NEW R, F = MemberFields, R = {"channel_id", "user_id"}, Kept(m, F, R),
           NEW op \in Ops, NEW n \in MemberBuilder(op, m)
    PROVE  Kept(n, F, R)
  <1>1. R \cap MessageOptional = {}
    BY DEF MessageOptional
  <1>2. \/ n \in SetCalls(m, F) \/ n \in SetCalls(m, F \ {"joined_at"}) \/ n \in ResetCalls(m, F)
        \/ n \in RefCalls(m, R) \/ (\E f \in R : n = ClearRef(m, f))
    BY DEF MemberBuilder, MemberCalls, MemberFieldCalls, MemberEdgeCalls, MemberFieldsByName,
       MemberEdgesByName, MemberCreateCalls, MemberUpdateCalls, MemberUpdateOneCalls, Ops
  <1> QED BY <1>1, <1>2, CallsKeep

LEMMA MessageKeeps ==
    ASSUME NEW m, NEW F, NEW R, F = MessageFields, R = {"channel_id", "user_id"}, Kept(m, F, R),
           NEW op \in Ops, NEW n \in MessageBuilder(op, m)
    PROVE  Kept(n, F, R)
  <1>1. R \cap MessageOptional = {} /\ MessageOptional \subseteq F
    BY DEF MessageOptional, MessageFields
  <1>2. \/ n \in SetCalls(m, F) \/ n \in SetCalls(m, F \ {"created_at"}) \/ n \in ResetCalls(m, F)
        \/ n \in RefCalls(m, R) \/ (\E f \in R : n = ClearRef(m, f))
        \/ n \in ClearCalls(m, MessageOptional)
    BY DEF MessageBuilder, MessageCalls, MessageFieldCalls, MessageEdgeCalls, MessageFieldsByName,
       MessageEdgesByName, MessageCreateCalls, MessageUpdateCalls, MessageUpdateOneCalls, Ops
  <1> QED BY <1>1, <1>2, CallsKeep

LEMMA UserKeeps ==
    ASSUME NEW m, NEW F, NEW R, F = UserFields, R = {}, Kept(m, F, R),
           NEW op \in Ops, NEW n \in UserBuilder(op, m)
    PROVE  Kept(n, F, R)
  <1>1. R \cap MessageOptional = {}
    OBVIOUS
  <1>2. \/ n \in SetCalls(m, F) \/ n \in SetCalls(m, F \ {"created_at"}) \/ n \in ResetCalls(m, F)
        \/ n \in AddCalls(m, UserMany) \/ n \in BuilderManyCalls(m, UserMany)
        \/ n \in ManyCalls(m, UserMany) \/ (\E d : n = ResetMany(m, d))
    BY DEF UserBuilder, UserCalls, UserFieldCalls, UserEdgeCalls, UserFieldsByName,
       UserEdgesByName, UserCreateCalls, UserUpdateCalls, UserUpdateOneCalls, Ops
  <1> QED BY <1>1, <1>2, CallsKeep

-----------------------------------------------------------------------------
(* What is sent                                                            *)

\* The columns and references of the four types.
LEMMA ColumnsAre ==
    /\ Columns["Channel"] = ChannelFields /\ Columns["ChannelMember"] = MemberFields
    /\ Columns["ChannelMessage"] = MessageFields /\ Columns["User"] = UserFields
    /\ DOMAIN References["Channel"] = {"owner_id"}
    /\ References["Channel"]["owner_id"] = "User"
    /\ \A y \in {"ChannelMember", "ChannelMessage"} :
           /\ DOMAIN References[y] = {"channel_id", "user_id"}
           /\ References[y]["channel_id"] = "Channel" /\ References[y]["user_id"] = "User"
    /\ DOMAIN References["User"] = {}
  <1>1. References["User"] = <<>> /\ DOMAIN <<>> = {}
    BY DEF References
  <1> QED BY <1>1 DEF Columns, References

\* The rows of a type are those that fit.
LEMMA FittingIsRow ==
    ASSUME NEW y \in Types, NEW row, Fitting(y, row) PROVE row \in Rows[y]
  <1> USE DEF Fitting, IsAFunction, Rows
  <1>1. CASE y = "Channel"
    <2>1. /\ DOMAIN row = {"name", "type", "invite_code", "created_at", "owner_id"}
          /\ \A f \in DOMAIN row \ {"owner_id"} : row[f] \in Fit(f)
          /\ row["owner_id"] \in Ids["User"]
      BY <1>1, ColumnsAre DEF ChannelFields, MessageOptional
    <2> QED BY <1>1, <2>1 DEF ChannelRow, Fit, Validated, Immutable
  <1>2. CASE y = "ChannelMember"
    <2>1. /\ DOMAIN row = {"channel_id", "user_id", "joined_at", "status"}
          /\ row["joined_at"] \in Fit("joined_at") /\ row["status"] \in Fit("status")
          /\ row["channel_id"] \in Ids["Channel"] /\ row["user_id"] \in Ids["User"]
      BY <1>2, ColumnsAre DEF MemberFields, MessageOptional
    <2> QED BY <1>2, <2>1 DEF MemberRow, Fit, Validated, Immutable
  <1>3. CASE y = "ChannelMessage"
    <2>1. /\ DOMAIN row = {"channel_id", "user_id", "user_name", "body", "media_url", "created_at"}
          /\ row["user_name"] \in Fit("user_name") /\ row["created_at"] \in Fit("created_at")
          /\ row["body"] \in Fit("body") \cup {None} /\ row["media_url"] \in Fit("media_url") \cup {None}
          /\ row["channel_id"] \in Ids["Channel"] /\ row["user_id"] \in Ids["User"]
      BY <1>3, ColumnsAre DEF MessageFields, MessageOptional
    <2> QED BY <1>3, <2>1 DEF MessageRow, Fit, Validated, Immutable
  <1>4. CASE y = "User"
    <2>1. /\ DOMAIN row = {"name", "password", "created_at"}
          /\ \A f \in DOMAIN row : row[f] \in Fit(f)
      BY <1>4, ColumnsAre DEF UserFields, MessageOptional
    <2> QED BY <1>4, <2>1 DEF UserRow, Fit, Validated, Immutable
  <1> QED BY <1>1, <1>2, <1>3, <1>4 DEF Types

\* What a column may be set to, and what it is by default.
LEMMA FitIs ==
    ASSUME NEW f, NEW v \in Values[f],
           f = "status" => v \in Statuses, f \in Validated \ {"status"} => v # ""
    PROVE  v \in Fit(f)
  BY DEF Fit, Validated, Immutable

LEMMA DefaultFits ==
    /\ \A f \in Defaulted : Default(f) \in Fit(f)
    /\ \A f : f \notin Defaulted => Default(f) = None
  BY DEF Defaulted, Default, Fit, Validated, Immutable, Statuses

\* An update sends what was asked last of every column that may be updated.
LEMMA UpdatingDoes ==
    ASSUME NEW m, NEW F, NEW R, Kept(m, F, R), R \subseteq F, NEW fields, fields = F \ (R \cup Immutable),
           R \cap Immutable = {}, R \cap MessageOptional = {},
           RefsAgree(m, R), NEW vs, F \cap Validated \subseteq vs, Valid(m, vs),
           NEW op, op # "create"
    PROVE  Does(op, F, R, m, Updating(m, fields, R))
  <1>1. PICK s, c, u, k : /\ s = m.set /\ c = m.cleared /\ u = m.unlinked /\ k = m.asked
                          /\ Agree(s, c, u, k, F, R)
    BY DEF Kept
  <1>2. PICK w : w = Updating(m, fields, R)
    OBVIOUS
  <1>3. /\ w.set = Restrict(s, (fields \cup R) \cap DOMAIN s)
        /\ w.null = (c \cap fields) \cup (u \cap R)
    BY <1>1, <1>2 DEF Updating
  <1>4. /\ DOMAIN w.set = (F \ Immutable) \cap DOMAIN s
        /\ \A f \in DOMAIN w.set : w.set[f] = s[f]
    BY <1>3 DEF Restrict
  <1>5. u \cap DOMAIN s = {}
    BY <1>1 DEF RefsAgree, Agree
  <1>6. \A f \in DOMAIN w.set \ R : w.set[f] \in Fit(f)
    <2> SUFFICES ASSUME NEW f \in DOMAIN w.set PROVE w.set[f] \in Fit(f)
      OBVIOUS
    <2>1. f \in F \cap DOMAIN s /\ w.set[f] = s[f] /\ s[f] \in Values[f]
      BY <1>1, <1>4 DEF Agree
    <2>2. f \in Validated => IF f = "status" THEN s[f] \in Statuses ELSE s[f] # ""
      BY <1>1, <2>1 DEF Valid
    <2> QED BY <2>1, <2>2, FitIs DEF Validated
  <1>7. \A f \in DOMAIN w.set : f \in DOMAIN k \ Immutable /\ k[f] = w.set[f]
    BY <1>1, <1>4, <1>5 DEF Agree
  <1>8. \A f \in w.null \ (DOMAIN w.set \cup R) : f \in DOMAIN k \ Immutable /\ k[f] = None
    BY <1>1, <1>3, <1>4 DEF Agree
  <1>9. DOMAIN k \ Immutable \subseteq DOMAIN w.set \cup w.null
    BY <1>1, <1>3, <1>4 DEF Agree, MessageOptional, Immutable
  <1> QED BY <1>1, <1>2, <1>4, <1>6, <1>7, <1>8, <1>9 DEF Does

\* A creation sends what was asked last of every column, or else its default.
LEMMA CreatingDoes ==
    ASSUME NEW m, NEW F, NEW R, Kept(m, F, R), NEW ds, DOMAIN ds = F \cap Defaulted,
           \A f \in DOMAIN ds : ds[f] = Default(f),
           NEW vs, F \cap Validated \subseteq vs, Valid(Defaults(m, ds), vs)
    PROVE  Does("create", F, R, m, Creating(Defaults(m, ds), F))
  <1>1. PICK s, c, u, k : /\ s = m.set /\ c = m.cleared /\ u = m.unlinked /\ k = m.asked
                          /\ Agree(s, c, u, k, F, R)
    BY DEF Kept
  <1>2. PICK d, w : d = Defaults(m, ds) /\ w = Creating(d, F)
    OBVIOUS
  <1>3. /\ DOMAIN d.set = DOMAIN s \cup DOMAIN ds
        /\ \A f \in DOMAIN d.set : d.set[f] = IF f \in DOMAIN s THEN s[f] ELSE ds[f]
    BY <1>1, <1>2 DEF Defaults, Kept, Mutation
  <1>4. /\ DOMAIN w.set = F \cap DOMAIN d.set
        /\ \A f \in DOMAIN w.set : w.set[f] = d.set[f]
    BY <1>2 DEF Creating, Restrict
  <1>5. \A f \in DOMAIN w.set \ R : w.set[f] \in Fit(f)
    <2> SUFFICES ASSUME NEW f \in DOMAIN w.set PROVE w.set[f] \in Fit(f)
      OBVIOUS
    <2>1. f \in F \cap DOMAIN d.set /\ w.set[f] = d.set[f]
      BY <1>4
    <2>2. CASE f \in DOMAIN s
      <3>1. d.set[f] = s[f] /\ s[f] \in Values[f]
        BY <1>1, <1>3, <2>1, <2>2 DEF Agree
      <3>2. f \in Validated => IF f = "status" THEN d.set[f] \in Statuses ELSE d.set[f] # ""
        BY <1>2, <2>1 DEF Valid
      <3> QED BY <2>1, <3>1, <3>2, FitIs DEF Validated
    <2>3. CASE f \notin DOMAIN s
      BY <1>3, <2>1, <2>3, DefaultFits
    <2> QED BY <2>2, <2>3
  <1>6. \A f \in F \ u : Asked(m, f) = IF f \in DOMAIN w.set THEN w.set[f] ELSE None
    <2> SUFFICES ASSUME NEW f \in F, f \notin u
                 PROVE  Asked(m, f) = IF f \in DOMAIN w.set THEN w.set[f] ELSE None
      OBVIOUS
    <2>1. CASE f \in DOMAIN s
      BY <1>1, <1>3, <1>4, <2>1 DEF Agree, Asked
    <2>2. CASE f \notin DOMAIN s /\ f \in DOMAIN k
      <3>1. f \in MessageOptional /\ k[f] = None
        BY <1>1, <2>2 DEF Agree
      <3>2. f \notin DOMAIN w.set
        BY <1>3, <1>4, <2>2, <3>1 DEF MessageOptional, Defaulted, Immutable
      <3> QED BY <1>1, <2>2, <3>1, <3>2 DEF Asked
    <2>3. CASE f \notin DOMAIN s /\ f \notin DOMAIN k
      BY <1>1, <1>3, <1>4, <2>3, DefaultFits DEF Asked
    <2> QED BY <2>1, <2>2, <2>3
  <1> QED BY <1>1, <1>2, <1>4, <1>5, <1>6 DEF Does

\* Whatever a builder sends does what was asked of it.
LEMMA ChannelDoes ==
    ASSUME NEW m, NEW F, NEW R, F = ChannelFields, R = {"owner_id"}, Kept(m, F, R),
           NEW op \in Ops, NEW s \in ChannelMutate(op, m)
    PROVE  Does(op, F, R, m, s)
  <1> DEFINE fields == {"name", "type", "invite_code"}
             vs == {"name", "invite_code"}
  <1>1. CASE op = "create"
    <2> DEFINE ds == [type |-> "open", created_at |-> "now"]
    <2>1. DOMAIN ds = F \cap Defaulted /\ (\A f \in DOMAIN ds : ds[f] = Default(f))
      BY DEF ChannelFields, Defaulted, Default, Immutable
    <2>2. s = Creating(Defaults(m, ds), F) /\ Valid(Defaults(m, ds), vs)
      BY <1>1 DEF ChannelMutate, ChannelDefaults, ChannelCreate, ChannelCreateCheck
    <2>3. F \cap Validated \subseteq vs
      BY DEF ChannelFields, Validated
    <2> HIDE DEF ds, vs
    <2> QED BY <1>1, <2>1, <2>2, <2>3, CreatingDoes
  <1>2. CASE op # "create"
    <2>1. s = Updating(m, fields, R) /\ Valid(m, vs) /\ RefsAgree(m, R)
      BY <1>2 DEF ChannelMutate, ChannelUpdate, ChannelUpdateCheck, ChannelUpdateOne,
         ChannelUpdateOneCheck, Ops
    <2>2. /\ R \subseteq F /\ fields = F \ (R \cup Immutable) /\ F \cap Validated \subseteq vs
          /\ R \cap Immutable = {} /\ R \cap MessageOptional = {}
      BY DEF ChannelFields, Immutable, Validated, MessageOptional
    <2> HIDE DEF fields, vs
    <2> QED BY <1>2, <2>1, <2>2, UpdatingDoes
  <1> QED BY <1>1, <1>2

LEMMA MemberDoes ==
    ASSUME NEW m, NEW F, NEW R, F = MemberFields, R = {"channel_id", "user_id"}, Kept(m, F, R),
           NEW op \in Ops, NEW s \in MemberMutate(op, m)
    PROVE  Does(op, F, R, m, s)
  <1> DEFINE fields == {"status"}
             vs == {"status"}
  <1>1. CASE op = "create"
    <2> DEFINE ds == [joined_at |-> "now", status |-> "approved"]
    <2>1. DOMAIN ds = F \cap Defaulted /\ (\A f \in DOMAIN ds : ds[f] = Default(f))
      BY DEF MemberFields, Defaulted, Default, Immutable
    <2>2. s = Creating(Defaults(m, ds), F) /\ Valid(Defaults(m, ds), vs)
      BY <1>1 DEF MemberMutate, MemberDefaults, MemberCreate, MemberCreateCheck
    <2>3. F \cap Validated \subseteq vs
      BY DEF MemberFields, Validated
    <2> HIDE DEF ds, vs
    <2> QED BY <1>1, <2>1, <2>2, <2>3, CreatingDoes
  <1>2. CASE op # "create"
    <2>1. s = Updating(m, fields, R) /\ Valid(m, vs) /\ RefsAgree(m, R)
      BY <1>2 DEF MemberMutate, MemberUpdate, MemberUpdateCheck, MemberUpdateOne,
         MemberUpdateOneCheck, Ops
    <2>2. /\ R \subseteq F /\ fields = F \ (R \cup Immutable) /\ F \cap Validated \subseteq vs
          /\ R \cap Immutable = {} /\ R \cap MessageOptional = {}
      BY DEF MemberFields, Immutable, Validated, MessageOptional
    <2> HIDE DEF fields, vs
    <2> QED BY <1>2, <2>1, <2>2, UpdatingDoes
  <1> QED BY <1>1, <1>2
LEMMA MessageDoes ==
    ASSUME NEW m, NEW F, NEW R, F = MessageFields, R = {"channel_id", "user_id"}, Kept(m, F, R),
           NEW op \in Ops, NEW s \in MessageMutate(op, m)
    PROVE  Does(op, F, R, m, s)
  <1> DEFINE fields == {"user_name", "body", "media_url"}
             vs == {"user_name"}
  <1>1. CASE op = "create"
    <2> DEFINE ds == [created_at |-> "now"]
    <2>1. DOMAIN ds = F \cap Defaulted /\ (\A f \in DOMAIN ds : ds[f] = Default(f))
      BY DEF MessageFields, Defaulted, Default, Immutable
    <2>2. s = Creating(Defaults(m, ds), F) /\ Valid(Defaults(m, ds), vs)
      BY <1>1 DEF MessageMutate, MessageDefaults, MessageCreate, MessageCreateCheck
    <2>3. F \cap Validated \subseteq vs
      BY DEF MessageFields, Validated
    <2> HIDE DEF ds, vs
    <2> QED BY <1>1, <2>1, <2>2, <2>3, CreatingDoes
  <1>2. CASE op # "create"
    <2>1. s = Updating(m, fields, R) /\ Valid(m, vs) /\ RefsAgree(m, R)
      BY <1>2 DEF MessageMutate, MessageUpdate, MessageUpdateCheck, MessageUpdateOne,
         MessageUpdateOneCheck, Ops
    <2>2. /\ R \subseteq F /\ fields = F \ (R \cup Immutable) /\ F \cap Validated \subseteq vs
          /\ R \cap Immutable = {} /\ R \cap MessageOptional = {}
      BY DEF MessageFields, Immutable, Validated, MessageOptional
    <2> HIDE DEF fields, vs
    <2> QED BY <1>2, <2>1, <2>2, UpdatingDoes
  <1> QED BY <1>1, <1>2
LEMMA UserDoes ==
    ASSUME NEW m, NEW F, NEW R, F = UserFields, R = {}, Kept(m, F, R),
           NEW op \in Ops, NEW s \in UserMutate(op, m)
    PROVE  Does(op, F, R, m, s)
  <1> DEFINE fields == {"name", "password"}
             vs == {"name"}
  <1>1. CASE op = "create"
    <2> DEFINE ds == [created_at |-> "now"]
    <2>1. DOMAIN ds = F \cap Defaulted /\ (\A f \in DOMAIN ds : ds[f] = Default(f))
      BY DEF UserFields, Defaulted, Default, Immutable
    <2>2. s = Creating(Defaults(m, ds), F) /\ Valid(Defaults(m, ds), vs)
      BY <1>1 DEF UserMutate, UserDefaults, UserCreate, UserCreateCheck
    <2>3. F \cap Validated \subseteq vs
      BY DEF UserFields, Validated
    <2> HIDE DEF ds, vs
    <2> QED BY <1>1, <2>1, <2>2, <2>3, CreatingDoes
  <1>2. CASE op # "create"
    <2>1. s = Updating(m, fields, R) /\ Valid(m, vs) /\ RefsAgree(m, R)
      BY <1>2 DEF UserMutate, UserUpdate, UserUpdateCheck, UserUpdateOne,
         UserUpdateOneCheck, RefsAgree, Ops
    <2>2. /\ R \subseteq F /\ fields = F \ (R \cup Immutable) /\ F \cap Validated \subseteq vs
          /\ R \cap Immutable = {} /\ R \cap MessageOptional = {}
      BY DEF UserFields, Immutable, Validated, MessageOptional
    <2> HIDE DEF fields, vs
    <2> QED BY <1>2, <2>1, <2>2, UpdatingDoes
  <1> QED BY <1>1, <1>2

LEMMA BuilderDoes ==
    ASSUME NEW y \in Types, NEW m, NEW op \in Ops, Kept(m, Columns[y], DOMAIN References[y]),
           NEW s \in Mutate(y, op, m)
    PROVE  Does(op, Columns[y], DOMAIN References[y], m, s)
  <1>1. CASE y = "Channel"
    BY <1>1, ColumnsAre, ChannelDoes DEF Mutate
  <1>2. CASE y = "ChannelMember"
    BY <1>2, ColumnsAre, MemberDoes DEF Mutate
  <1>3. CASE y = "ChannelMessage"
    BY <1>3, ColumnsAre, MessageDoes DEF Mutate
  <1>4. CASE y = "User"
    BY <1>4, ColumnsAre, UserDoes DEF Mutate
  <1> QED BY <1>1, <1>2, <1>3, <1>4 DEF Types

-----------------------------------------------------------------------------
(* The tables                                                              *)

\* References name types, and are neither set by the store nor optional.
LEMMA ReferencesAre ==
    ASSUME NEW y \in Types
    PROVE  /\ \A f \in DOMAIN References[y] : References[y][f] \in Types
           /\ DOMAIN References[y] \subseteq Columns[y] \ MessageOptional
  BY ColumnsAre DEF Types, ChannelFields, MemberFields, MessageFields, MessageOptional

\* A row of an admitted table fits if it is filled with what fits, or with NULL.
LEMMA AdmittedFits ==
    ASSUME NEW t, Admitted(t), \A z \in Types : DOMAIN t[z] \subseteq Ids[z],
           NEW y \in Types, NEW i \in DOMAIN t[y],
           IsAFunction(t[y][i]), DOMAIN t[y][i] = Columns[y],
           \A f \in Columns[y] \ DOMAIN References[y] : t[y][i][f] \in Fit(f) \cup {None}
    PROVE  Fitting(y, t[y][i])
  <1>1. \A f \in Columns[y] \ MessageOptional : t[y][i][f] # None
    BY DEF Admitted, NotNull
  <1>2. \A f \in DOMAIN References[y] : t[y][i][f] \in DOMAIN t[References[y][f]]
    BY DEF Admitted, ForeignKeys
  <1> QED BY <1>1, <1>2, ReferencesAre DEF Fitting

\* What becomes of the tables when one of them is changed: all of it, or nothing and an error.
LEMMA BecomeIs ==
    ASSUME NEW y \in Types, NEW g, Tables(tab), Become([tab EXCEPT ![y] = g]),
           IsAFunction(g), DOMAIN g \subseteq Ids[y],
           \A i \in DOMAIN g : /\ IsAFunction(g[i]) /\ DOMAIN g[i] = Columns[y]
                               /\ \A f \in Columns[y] \ DOMAIN References[y] : g[i][f] \in Fit(f) \cup {None}
    PROVE  \/ result' = "error" /\ UNCHANGED tab
           \/ /\ result' \in {"ok", "error"} /\ Tables(tab') /\ Admitted(tab')
              /\ tab'[y] = g /\ \A z \in Types \ {y} : tab'[z] = tab[z]
  <1>1. CASE Refused
    BY <1>1 DEF Refused
  <1>2. CASE ~Refused
    <2>1. PICK t : t = [tab EXCEPT ![y] = g]
      OBVIOUS
    <2>2. result' \in {"ok", "error"} /\ tab' = t /\ Admitted(t)
      BY <1>2, <2>1 DEF Become
    <2>3. IsAFunction(t) /\ DOMAIN t = Types /\ t[y] = g /\ \A z \in Types \ {y} : t[z] = tab[z]
      BY <2>1 DEF Tables, IsAFunction
    <2>4. \A z \in Types : DOMAIN t[z] \subseteq Ids[z] /\ IsAFunction(t[z])
      BY <2>3 DEF Tables
    <2>5. ASSUME NEW z \in Types, NEW i \in DOMAIN t[z] PROVE Fitting(z, t[z][i])
      <3>1. /\ IsAFunction(t[z][i]) /\ DOMAIN t[z][i] = Columns[z]
            /\ \A f \in Columns[z] \ DOMAIN References[z] : t[z][i][f] \in Fit(f) \cup {None}
        BY <2>3 DEF Tables, Fitting
      <3> QED BY <2>2, <2>4, <3>1, AdmittedFits
    <2>6. Tables(t)
      BY <2>3, <2>4, <2>5 DEF Tables
    <2> QED BY <2>2, <2>3, <2>6
  <1> QED BY <1>1, <1>2

\* A row that is written fits, or has a NULL.
LEMMA WrittenFits ==
    ASSUME NEW op, NEW F, NEW R, NEW m, NEW s, Does(op, F, R, m, s), NEW row, DOMAIN row = F,
           \A f \in F \ R : row[f] \in Fit(f) \cup {None}
    PROVE  /\ IsAFunction(Written(row, s)) /\ DOMAIN Written(row, s) = F
           /\ \A f \in F \ R : Written(row, s)[f] \in Fit(f) \cup {None}
           /\ \A f \in F : Written(row, s)[f] = IF f \in DOMAIN s.set THEN s.set[f]
                                                ELSE IF f \in s.null THEN None ELSE row[f]
  BY DEF Does, Written, IsAFunction

\* What a Save does: nothing, with an error, or what was asked, to the rows ids.
Done(y, op, ids, m) ==
    \/ result' = "error" /\ UNCHANGED tab
    \/ /\ result' \in {"ok", "error"} /\ Tables(tab') /\ Admitted(tab')
       /\ \A z \in Types \ {y} : tab'[z] = tab[z]
       /\ IF op = "create" THEN Created(y, m) ELSE Updated(y, ids, m)
       /\ op = "updateOne" => ids # {}

LEMMA InsertDoes ==
    ASSUME NEW y \in Types, NEW ids, NEW m, NEW s, Tables(tab),
           Does("create", Columns[y], DOMAIN References[y], m, s), Insert(y, s)
    PROVE  Done(y, "create", ids, m)
  <1> DEFINE F == Columns[y]
             R == DOMAIN References[y]
  <1>1. CASE s.added # {}
    BY <1>1 DEF Insert, Refused, Done
  <1>2. CASE s.added = {}
    <2>1. PICK i, row : /\ i = CHOOSE j \in Ids[y] : j \notin DOMAIN tab[y]
                        /\ row = Written([f \in F |-> None], s)
      OBVIOUS
    <2>2. i \in Ids[y] /\ i \notin DOMAIN tab[y]
      BY <2>1 DEF Insert
    <2>3. PICK g : g = With(tab[y], i, row)
      OBVIOUS
    <2>4. Become([tab EXCEPT ![y] = g])
      <3>1. y \in DOMAIN tab
        BY DEF Tables
      <3> QED BY <1>2, <2>1, <2>3, <3>1 DEF Insert
    <2>5. /\ IsAFunction(row) /\ DOMAIN row = F
          /\ \A f \in F \ R : row[f] \in Fit(f) \cup {None}
          /\ \A f \in F : row[f] = IF f \in DOMAIN s.set THEN s.set[f] ELSE None
      BY <2>1, WrittenFits
    <2>6. /\ IsAFunction(g) /\ DOMAIN g = DOMAIN tab[y] \cup {i} /\ g[i] = row
          /\ \A j \in DOMAIN tab[y] : g[j] = tab[y][j]
      BY <2>2, <2>3 DEF With, IsAFunction
    <2>7. \/ result' = "error" /\ UNCHANGED tab
          \/ /\ result' \in {"ok", "error"} /\ Tables(tab') /\ Admitted(tab')
             /\ tab'[y] = g /\ \A z \in Types \ {y} : tab'[z] = tab[z]
      <3>1. \A j \in DOMAIN g : /\ IsAFunction(g[j]) /\ DOMAIN g[j] = F
                                /\ \A f \in F \ R : g[j][f] \in Fit(f) \cup {None}
        BY <2>5, <2>6 DEF Tables, Fitting
      <3>2. DOMAIN g \subseteq Ids[y]
        BY <2>2, <2>6 DEF Tables
      <3> QED BY <2>4, <2>6, <3>1, <3>2, BecomeIs
    <2>8. Wanted(y, row, m)
      BY <2>5 DEF Does, Wanted, Asked, Default
    <2>9. ASSUME tab'[y] = g PROVE Created(y, m)
      BY <2>2, <2>3, <2>6, <2>8, <2>9 DEF Created
    <2> QED BY <2>7, <2>9 DEF Done
  <1> QED BY <1>1, <1>2

LEMMA AssignDoes ==
    ASSUME NEW y \in Types, NEW m, NEW s, NEW op, op # "create", Tables(tab),
           Does(op, Columns[y], DOMAIN References[y], m, s),
           NEW ids \in SUBSET DOMAIN tab[y], op = "updateOne" => ids # {}, Assign(y, s, ids)
    PROVE  Done(y, op, ids, m)
  <1> DEFINE F == Columns[y]
             R == DOMAIN References[y]
             Last(i, f) == IF i \in ids /\ f \in DOMAIN m.asked \ Immutable THEN m.asked[f]
                           ELSE tab[y][i][f]
  <1>1. CASE result' = "error" /\ UNCHANGED tab
    BY <1>1 DEF Done
  <1>2. PICK g : g = [i \in DOMAIN tab[y] |-> IF i \in ids THEN Written(tab[y][i], s) ELSE tab[y][i]]
    OBVIOUS
  <1>3. CASE Become([tab EXCEPT ![y] = g])
    <2>1. /\ IsAFunction(g) /\ DOMAIN g = DOMAIN tab[y]
          /\ \A i \in ids : g[i] = Written(tab[y][i], s)
          /\ \A i \in DOMAIN tab[y] \ ids : g[i] = tab[y][i]
      BY <1>2 DEF IsAFunction
    <2>2. ASSUME NEW i \in DOMAIN tab[y]
          PROVE  /\ IsAFunction(tab[y][i]) /\ DOMAIN tab[y][i] = F
                 /\ \A f \in F \ R : tab[y][i][f] \in Fit(f) \cup {None}
      BY DEF Tables, Fitting
    <2>3. ASSUME NEW i \in ids
          PROVE  /\ IsAFunction(g[i]) /\ DOMAIN g[i] = F
                 /\ \A f \in F \ R : g[i][f] \in Fit(f) \cup {None}
                 /\ \A f \in F : g[i][f] = IF f \in DOMAIN s.set THEN s.set[f]
                                           ELSE IF f \in s.null THEN None ELSE tab[y][i][f]
      BY <2>1, <2>2, WrittenFits
    <2>4. \A i \in DOMAIN g : /\ IsAFunction(g[i]) /\ DOMAIN g[i] = F
                              /\ \A f \in F \ R : g[i][f] \in Fit(f) \cup {None}
      BY <2>1, <2>2, <2>3
    <2>5. DOMAIN g \subseteq Ids[y]
      BY <2>1 DEF Tables
    <2>6. \/ result' = "error" /\ UNCHANGED tab
          \/ /\ result' \in {"ok", "error"} /\ Tables(tab') /\ Admitted(tab')
             /\ tab'[y] = g /\ \A z \in Types \ {y} : tab'[z] = tab[z]
      BY <1>3, <2>1, <2>4, <2>5, BecomeIs
    <2>7. ASSUME Admitted(tab'), tab'[y] = g PROVE Updated(y, ids, m)
      <3>1. ASSUME NEW i \in ids, NEW f \in F PROVE g[i][f] = Last(i, f)
        <4>1. CASE f \in DOMAIN s.set
          BY <2>3, <4>1 DEF Does
        <4>2. CASE f \in s.null \ DOMAIN s.set
          <5>1. g[i][f] = None
            BY <2>3, <4>2
          <5>2. f \notin R
            <6>1. f \in MessageOptional
              BY <2>1, <2>7, <5>1 DEF Admitted, NotNull
            <6> QED BY <6>1, ReferencesAre
          <5> QED BY <4>2, <5>1, <5>2 DEF Does
        <4>3. CASE f \notin DOMAIN s.set \cup s.null
          BY <2>3, <4>3 DEF Does
        <4> QED BY <4>1, <4>2, <4>3
      <3>2. ASSUME NEW i \in DOMAIN tab[y] PROVE g[i] = [f \in F |-> Last(i, f)]
        <4>1. IsAFunction(g[i]) /\ DOMAIN g[i] = F
          BY <2>1, <2>2, <2>3
        <4>2. \A f \in F : g[i][f] = Last(i, f)
          BY <2>1, <3>1
        <4> HIDE DEF F, Last
        <4> QED BY <4>1, <4>2 DEF IsAFunction
      <3>3. g = [i \in DOMAIN tab[y] |-> [f \in F |-> Last(i, f)]]
        BY <2>1, <3>2 DEF IsAFunction
      <3> QED BY <2>7, <3>3 DEF Updated
    <2> QED BY <2>6, <2>7 DEF Done
  <1>4. \/ result' = "error" /\ UNCHANGED tab
        \/ Become([tab EXCEPT ![y] = g])
    <2>1. [tab EXCEPT ![y] = g]
            = [tab EXCEPT ![y] = [i \in DOMAIN @ |-> IF i \in ids THEN Written(@[i], s) ELSE @[i]]]
      BY <1>2 DEF Tables
    <2> QED BY <2>1 DEF Assign, Refused
  <1> QED BY <1>1, <1>3, <1>4

\* Saving a builder, whichever it is.
LEMMA SaveDoes ==
    ASSUME Tables(tab), Filled, Save PROVE Done(build.type, build.op, build.where, build.m)
  <1>1. PICK y, op, ids, m : y = build.type /\ op = build.op /\ ids = build.where /\ m = build.m
    OBVIOUS
  <1>2. /\ y \in Types /\ op \in Ops /\ Kept(m, Columns[y], DOMAIN References[y])
        /\ ids \in SUBSET DOMAIN tab[y]
    BY <1>1 DEF Filled, Save
  <1>3. CASE Refused
    BY <1>3 DEF Refused, Done
  <1>4. CASE ~Refused
    <2>1. PICK s \in Mutate(y, op, m) :
                 \/ op = "create" /\ Insert(y, s)
                 \/ op = "update" /\ Assign(y, s, ids)
                 \/ op = "updateOne" /\ ids # {} /\ Assign(y, s, ids)
      BY <1>1, <1>4 DEF Save
    <2>2. Does(op, Columns[y], DOMAIN References[y], m, s)
      BY <1>2, BuilderDoes
    <2>3. CASE op = "create"
      BY <1>1, <1>2, <2>1, <2>2, <2>3, InsertDoes
    <2>4. CASE op # "create"
      <3>1. Assign(y, s, ids) /\ (op = "updateOne" => ids # {})
        BY <2>1, <2>4
      <3> QED BY <1>1, <1>2, <2>2, <2>4, <3>1, AssignDoes
    <2> QED BY <2>3, <2>4
  <1> QED BY <1>3, <1>4

\* Deleting rows leaves the others as they are, or is refused.
LEMMA DeleteDoes ==
    ASSUME Tables(tab), Admitted(tab), NEW y \in Types, NEW ids,
           ExecDelete(y, ids) \/ ExecDeleteOne(y, ids)
    PROVE  Tables(tab') /\ Admitted(tab') /\ result' \in {"ok", "error"}
  <1>1. \A d : Become([tab EXCEPT ![y] = Restrict(@, DOMAIN @ \ d)])
               => Tables(tab') /\ Admitted(tab') /\ result' \in {"ok", "error"}
    <2> SUFFICES ASSUME NEW d, Become([tab EXCEPT ![y] = Restrict(@, DOMAIN @ \ d)])
                 PROVE  Tables(tab') /\ Admitted(tab') /\ result' \in {"ok", "error"}
      OBVIOUS
    <2>1. PICK g : g = Restrict(tab[y], DOMAIN tab[y] \ d)
      OBVIOUS
    <2>2. Become([tab EXCEPT ![y] = g])
      BY <2>1 DEF Tables
    <2>3. /\ IsAFunction(g) /\ DOMAIN g \subseteq DOMAIN tab[y]
          /\ \A i \in DOMAIN g : g[i] = tab[y][i]
      BY <2>1 DEF Restrict, IsAFunction
    <2>4. DOMAIN g \subseteq Ids[y]
      BY <2>3 DEF Tables
    <2>5. \A i \in DOMAIN g : /\ IsAFunction(g[i]) /\ DOMAIN g[i] = Columns[y]
                              /\ \A f \in Columns[y] \ DOMAIN References[y] : g[i][f] \in Fit(f) \cup {None}
      BY <2>3 DEF Tables, Fitting
    <2>6. \/ result' = "error" /\ UNCHANGED tab
          \/ result' \in {"ok", "error"} /\ Tables(tab') /\ Admitted(tab')
      BY <2>2, <2>3, <2>4, <2>5, BecomeIs
    <2> QED BY <2>6
  <1> QED BY <1>1 DEF ExecDelete, ExecDeleteOne, Refused

\* A builder's call leaves in its mutation what the call's type may.
LEMMA CallFills == ASSUME Filled, Call PROVE Filled'
  <1>1. PICK y, op, ids, m, k : /\ y = build.type /\ op = build.op /\ ids = build.where
                                /\ m = build.m /\ k = build.calls
    OBVIOUS
  <1>2. /\ build = [type |-> y, op |-> op, where |-> ids, m |-> m, calls |-> k]
        /\ y \in Types /\ op \in Ops /\ ids \in SUBSET DOMAIN tab'[y]
        /\ Kept(m, Columns[y], DOMAIN References[y])
    BY <1>1 DEF Filled, Call
  <1>3. PICK n : /\ n \in CASE y = "Channel" -> ChannelBuilder(op, m)
                            [] y = "ChannelMember" -> MemberBuilder(op, m)
                            [] y = "ChannelMessage" -> MessageBuilder(op, m)
                            [] y = "User" -> UserBuilder(op, m)
                 /\ build' = [build EXCEPT !.m = n, !.calls = @ + 1]
    BY <1>1 DEF Call
  <1>4. build' = [type |-> y, op |-> op, where |-> ids, m |-> n, calls |-> k + 1]
    <2>1. PICK l : l = k + 1
      OBVIOUS
    <2>2. build' = [build EXCEPT !.m = n, !.calls = l]
      BY <1>1, <1>3, <2>1
    <2> QED BY <1>2, <2>1, <2>2
  <1>5. Kept(n, Columns[y], DOMAIN References[y])
    <2>1. CASE y = "Channel"
      BY <1>2, <1>3, <2>1, ColumnsAre, ChannelKeeps
    <2>2. CASE y = "ChannelMember"
      BY <1>2, <1>3, <2>2, ColumnsAre, MemberKeeps
    <2>3. CASE y = "ChannelMessage"
      BY <1>2, <1>3, <2>3, ColumnsAre, MessageKeeps
    <2>4. CASE y = "User"
      BY <1>2, <1>3, <2>4, ColumnsAre, UserKeeps
    <2> QED BY <1>2, <2>1, <2>2, <2>3, <2>4 DEF Types
  <1> QED BY <1>2, <1>4, <1>5 DEF Filled

\* A builder is opened with nothing in it.
LEMMA OpenFills == ASSUME NEW y \in Types, Open(y) PROVE Filled'
  <1>1. PICK op \in Ops, ids \in SUBSET DOMAIN tab'[y] :
            build' = [type |-> y, op |-> op, where |-> ids, m |-> Blank, calls |-> 0]
    <2>1. \A op \in Ops : Matches(y, op) \subseteq SUBSET DOMAIN tab[y]
      BY DEF Matches, Ops
    <2> QED BY <2>1 DEF Open
  <1>2. Agree(<<>>, {}, {}, <<>>, Columns[y], DOMAIN References[y])
    <2>1. DOMAIN <<>> = {} /\ IsAFunction(<<>>)
      BY DEF IsAFunction
    <2> QED BY <2>1 DEF Agree
  <1>3. Kept(Blank, Columns[y], DOMAIN References[y])
    <2>1. Blank = Mutation(<<>>, {}, {}, {}, {}, {}, <<>>)
      BY DEF Blank, Mutation
    <2> QED BY <1>2, <2>1, MutationIs
  <1> QED BY <1>1, <1>3 DEF Filled

-----------------------------------------------------------------------------
(* The theorems                                                            *)

\* Every step of a client, a builder or a query leaves the store sound.
LEMMA SoundStep == Sound /\ [Next]_vars => Sound'
  <1> SUFFICES ASSUME Sound, [Next]_vars PROVE Sound'
    OBVIOUS
  <1>t. /\ Tables(tab) /\ Admitted(tab) /\ Filled
        /\ result \in {"ok", "error"} /\ sent \in 0..MaxStatements /\ MaxStatements \in Nat
    BY EntAssumption DEF Sound
  <1>1. ASSUME UNCHANGED <<tab, build>>, result' \in {"ok", "error"}, UNCHANGED sent PROVE Sound'
    BY <1>1, <1>t DEF Sound, Filled
  <1>2. ASSUME NEW y \in Types, Open(y) PROVE Sound'
    BY <1>2, <1>t, OpenFills DEF Open, Sound
  <1>3. ASSUME build = None, NEW y \in Types, NEW ids, ExecDelete(y, ids) \/ ExecDeleteOne(y, ids)
        PROVE  Sound'
    <2>1. sent' \in 0..MaxStatements /\ UNCHANGED build
      BY <1>3, <1>t DEF ExecDelete, ExecDeleteOne
    <2> QED BY <1>3, <1>t, <2>1, DeleteDoes DEF Sound, Filled
  <1>4. CASE Call
    BY <1>4, <1>t, CallFills DEF Call, Sound
  <1>5. CASE Save
    <2>1. sent' \in 0..MaxStatements /\ Filled'
      BY <1>5, <1>t DEF Save, Filled
    <2>2. Tables(tab') /\ Admitted(tab') /\ result' \in {"ok", "error"}
      BY <1>5, <1>t, SaveDoes DEF Done
    <2> QED BY <2>1, <2>2 DEF Sound
  <1>6. ASSUME NEW y, NEW entities, NEW edges, Query(y, entities, edges) PROVE Sound'
    BY <1>1, <1>6 DEF Query
  <1>7. ASSUME NEW y, Load(y) PROVE Sound'
    BY <1>1, <1>7, <1>t DEF Load
  <1>8. CASE Return \/ UNCHANGED vars
    BY <1>1, <1>8, <1>t DEF Return, vars
  <1>9. CASE ChannelClient \/ MemberClient \/ MessageClient \/ UserClient
    BY <1>2, <1>3, <1>9 DEF ChannelClient, MemberClient, MessageClient, UserClient, ChannelDelete,
       MemberDelete, MessageDelete, UserDelete, Types
  <1> QED
    BY <1>4, <1>5, <1>6, <1>7, <1>8, <1>9 DEF Next, ChannelQuery, MemberQuery, MessageQuery,
       UserQuery, ChannelLoad, MemberLoad, MessageLoad, UserLoad

\* At the start the tables are empty.
LEMMA SoundInit == Init => Sound
  <1> SUFFICES ASSUME Init PROVE Sound
    OBVIOUS
  <1>1. DOMAIN <<>> = {} /\ IsAFunction(<<>>)
    BY DEF IsAFunction
  <1>2. \A y \in Types : tab[y] = <<>>
    BY DEF Init
  <1>3. Tables(tab)
    BY <1>1, <1>2 DEF Init, Tables, IsAFunction
  <1>4. Admitted(tab)
    BY <1>1, <1>2 DEF Admitted, NotNull, ForeignKeys, Unique
  <1> QED BY <1>3, <1>4, EntAssumption DEF Init, Sound, Filled

\* Every row of the four tables is one the validators of its type and the column types admit,
\* whatever was called on its builder, in whatever order (ent/*_create.go, ent/*_update.go).
THEOREM TypeCorrect == Spec => []TypeOK
  <1>1. Sound => TypeOK
    <2> SUFFICES ASSUME Sound PROVE TypeOK
      OBVIOUS
    <2>1. \A y \in Types : \A i \in DOMAIN tab[y] : i \in Ids[y] /\ tab[y][i] \in Rows[y]
      BY FittingIsRow DEF Sound, Tables
    <2> QED BY <2>1 DEF Sound, Filled, TypeOK
  <1> QED BY <1>1, SoundInit, SoundStep, PTL DEF Spec

\* A Save does to the rows that its predicates match what the last call on each column asked,
\* and nothing else; or it does nothing, and returns an error (ent/mutation.go).
THEOREM SavesDoAsBuilt == Spec => SavedAsBuilt
  <1> DEFINE Step ==
        (build # None /\ sent' # sent) =>
            \/ /\ \A y \in Types \ {build.type} : tab'[y] = tab[y]
               /\ CASE build.op = "create" -> Created(build.type, build.m)
                    [] build.op = "update" -> Updated(build.type, build.where, build.m)
                    [] build.op = "updateOne" -> /\ build.where # {}
                                                 /\ Updated(build.type, build.where, build.m)
            \/ result' = "error" /\ UNCHANGED tab
  <1>1. Sound /\ [Next]_vars => [Step]_vars
    <2> SUFFICES ASSUME Sound, Next, build # None, sent' # sent PROVE Step
      OBVIOUS
    <2>1. Save
      BY DEF Next, ChannelClient, MemberClient, MessageClient, UserClient, Call, ChannelQuery,
         MemberQuery, MessageQuery, UserQuery, Query, ChannelLoad, MemberLoad, MessageLoad,
         UserLoad, Load, Return
    <2>2. Done(build.type, build.op, build.where, build.m)
      BY <2>1, SaveDoes DEF Sound
    <2>3. build.op \in Ops
      BY DEF Sound, Filled
    <2> QED BY <2>2, <2>3 DEF Done, Ops
  <1> QED BY <1>1, SoundInit, SoundStep, PTL DEF Spec, SavedAsBuilt

\* A query keeps its four fields.
LEMMA ReadingStep == Reading /\ [Next]_vars => Reading'
  <1> SUFFICES ASSUME Reading, [Next]_vars PROVE Reading'
    OBVIOUS
  <1>1. CASE UNCHANGED reader
    BY <1>1 DEF Reading
  <1>2. ASSUME NEW y, NEW entities, NEW edges, Query(y, entities, edges) PROVE Reading'
    <2>1. CASE \E e, ids : reader' = IF ids = {} \/ e = None THEN None
                                     ELSE [type |-> y, edge |-> e, nodes |-> Restrict(entities, ids),
                                           loaded |-> None]
      BY <2>1 DEF Reading
    <2> QED BY <1>1, <1>2, <2>1 DEF Query
  <1>3. ASSUME NEW y, Load(y) PROVE Reading'
    <2>0. CASE reader' = None
      BY <2>0 DEF Reading
    <2>1. ASSUME NEW l, reader' = [reader EXCEPT !.loaded = l] PROVE Reading'
      <3>1. reader' = [type |-> reader.type, edge |-> reader.edge, nodes |-> reader.nodes, loaded |-> l]
        BY <1>3, <2>1 DEF Load, Reading
      <3> QED BY <3>1 DEF Reading
    <2> QED BY <1>3, <2>0, <2>1 DEF Load
  <1>4. CASE Return
    BY <1>4 DEF Return, Reading
  <1> QED
    BY <1>1, <1>2, <1>3, <1>4 DEF Next, vars, ChannelClient, MemberClient, MessageClient, UserClient,
       Open, ChannelDelete, MemberDelete, MessageDelete, UserDelete, ExecDelete, ExecDeleteOne, Call,
       Save, ChannelQuery, MemberQuery, MessageQuery, UserQuery, ChannelLoad, MemberLoad,
       MessageLoad, UserLoad

\* What loading a reference leaves of a node.
LEMMA LoadIs ==
    ASSUME Sound, Reading, NEW y \in Types, Load(y), reader.edge \in DOMAIN References[y],
           NEW i \in DOMAIN reader.nodes, reader' # None, reader'.loaded[i] = None
    PROVE  \/ i \notin DOMAIN tab[y]
           \/ tab[y][i][reader.edge] # reader.nodes[i][reader.edge]
  <1>1. PICK e, n : e = reader.edge /\ n = reader.nodes
    OBVIOUS
  <1>2. PICK z : z = References[y][e]
    OBVIOUS
  <1>3. reader'.loaded = LoadRef(y, n, e)
    <2>1. PICK l : l = LoadRef(y, n, e)
      OBVIOUS
    <2>2. reader' = [reader EXCEPT !.loaded = l]
      BY <1>1, <2>1 DEF Load
    <2>3. reader = [type |-> reader.type, edge |-> reader.edge, nodes |-> reader.nodes,
                    loaded |-> reader.loaded]
      BY DEF Load, Reading
    <2> QED BY <2>1, <2>2, <2>3
  <1>4. IF n[i][e] \in DOMAIN tab[z] THEN n[i][e] = None ELSE TRUE
    BY <1>1, <1>2, <1>3 DEF LoadRef
  <1>5. z \in Types
    BY <1>1, <1>2, ReferencesAre
  <1>6. None \notin DOMAIN tab[z]
    BY <1>5, EntAssumption DEF Sound, Tables
  <1>7. n[i][e] \notin DOMAIN tab[z]
    BY <1>4, <1>6
  <1>8. i \in DOMAIN tab[y] => tab[y][i][e] \in DOMAIN tab[z]
    BY <1>1, <1>2 DEF Sound, Admitted, ForeignKeys
  <1> QED BY <1>1, <1>7, <1>8

\* An eager-loaded edge is nil only for a node whose own row was deleted or sent elsewhere
\* between the two statements of its query (ent/channelmember_query.go).
THEOREM NilMeansMoved == Spec => NilOnlyIfMoved
  <1> DEFINE Step ==
        (/\ reader # None /\ reader' # None /\ reader'.loaded # reader.loaded
         /\ reader.edge \in DOMAIN References[reader.type]) =>
            \A i \in DOMAIN reader.nodes :
                reader'.loaded[i] = None =>
                    \/ i \notin DOMAIN tab[reader.type]
                    \/ tab[reader.type][i][reader.edge] # reader.nodes[i][reader.edge]
             Inv == Sound /\ Reading
  <1>1. Inv /\ [Next]_vars => [Step]_vars
    <2> SUFFICES ASSUME Inv, Next, reader # None, reader' # None, reader'.loaded # reader.loaded,
                        reader.edge \in DOMAIN References[reader.type],
                        NEW i \in DOMAIN reader.nodes, reader'.loaded[i] = None
                 PROVE  \/ i \notin DOMAIN tab[reader.type]
                        \/ tab[reader.type][i][reader.edge] # reader.nodes[i][reader.edge]
      OBVIOUS
    <2>1. PICK y \in Types : Load(y)
      BY DEF Next, ChannelClient, MemberClient, MessageClient, UserClient, Open, ChannelDelete,
         MemberDelete, MessageDelete, UserDelete, ExecDelete, ExecDeleteOne, Call, Save,
         ChannelQuery, MemberQuery, MessageQuery, UserQuery, Query, ChannelLoad, MemberLoad,
         MessageLoad, UserLoad, Return, Types
    <2>2. reader.type = y
      BY <2>1 DEF Load
    <2> QED BY <2>1, <2>2, LoadIs
  <1>2. Init => Inv
    BY SoundInit DEF Init, Reading
  <1>3. Inv /\ [Next]_vars => Inv'
    BY SoundStep, ReadingStep
  <1> QED BY <1>1, <1>2, <1>3, PTL DEF Spec, NilOnlyIfMoved

=============================================================================
