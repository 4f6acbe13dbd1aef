---------------------------- MODULE ChannelStore ----------------------------
(***************************************************************************)
(* One channel's rows in Postgres (channel, channel_member,                *)
(* channel_message) and everything that writes them: the HTTP handlers of  *)
(* internal/channels, SaveMessage on behalf of a WebSocket connection, and *)
(* the worker's sweep for inactive channels.  There is no transaction      *)
(* anywhere: every query and every statement is a step of its own, and the *)
(* requests interleave between them.  Two consecutive reads of one request *)
(* that test the same condition are one step: archiving is never undone,   *)
(* so the second test decides.                                             *)
(***************************************************************************)
EXTENDS Naturals, FiniteSets

CONSTANTS Requests,   \* bound: the requests of a behaviour, each made once
          Users, Owner,
          Private     \* the channel's type is "private" rather than "open"

ASSUME StoreAssumption == IsFiniteSet(Requests) /\ Owner \in Users /\ Private \in BOOLEAN

VARIABLES
    created,    \* the channel's row exists
    archived,   \* ... and has an archived_at
    recent,     \* last_activity_at lies within the inactivity period
    name,       \* the channel's name: "given", or the request that changed it
    members,    \* channel_member rows
    messages,   \* channel_message rows: the requests that inserted them
    req,        \* the requests
    swept,      \* the worker's query has selected the channel
    nextRow,    \* the next member row's id
    \* history
    raced,      \* users two of whose joins overlapped between check and insertion
    granted,    \* users the owner let in, or who made the channel, and not removed since
    stirred     \* last_activity_at has been updated since the worker's query

channelVars == <<created, archived, recent, name>>
vars == <<channelVars, members, messages, req, swept, nextRow, raced, granted, stirred>>

RowIds == 1..(Cardinality(Requests) + 1)
Rows == [id: RowIds, user: Users, status: {"pending", "approved"}]

Ops == {"none", "join", "add", "approve", "remove", "rename", "save"}
Points == {"idle", "check", "exists", "insert", "write", "touch", "done"}
\* user: who makes the request (join, remove, save) or is to be added (add).
\* row: the member row a request names.  late: it came after the archiving.
RequestTypes == [op: Ops, pc: Points, user: Users, row: RowIds \cup {0},
                 late: BOOLEAN, ok: BOOLEAN]

Idle == [op |-> "none", pc |-> "idle", user |-> Owner, row |-> 0, late |-> FALSE, ok |-> FALSE]

TypeOK ==
    /\ created \in BOOLEAN /\ archived \in BOOLEAN /\ recent \in BOOLEAN
    /\ name \in {"given"} \cup Requests
    /\ members \in SUBSET Rows
    /\ messages \in SUBSET Requests
    /\ req \in [Requests -> RequestTypes]
    /\ swept \in BOOLEAN
    /\ nextRow \in RowIds \cup {Cardinality(Requests) + 2}
    /\ raced \in SUBSET Users /\ granted \in SUBSET Users
    /\ stirred \in BOOLEAN

Init ==
    /\ created = FALSE /\ archived = FALSE /\ recent = FALSE
    /\ name = "given"
    /\ members = {} /\ messages = {}
    /\ req = [r \in Requests |-> Idle]
    /\ swept = FALSE
    /\ nextRow = 1
    /\ raced = {} /\ granted = {} /\ stirred = FALSE

RowsOf(u) == {m \in members : m.user = u}
IsMember(u) == \E m \in RowsOf(u) : m.status = "approved"
RowExists(id) == \E m \in members : m.id = id

At(r, op, point) == req[r].op \in op /\ req[r].pc = point
Goto(r, point) == req' = [req EXCEPT ![r].pc = point]
Answer(r, success) == req' = [req EXCEPT ![r].pc = "done", ![r].ok = success]

-----------------------------------------------------------------------------
(* Creation                                                                *)

\* CreateChannel: the row is inserted, then the owner's membership; an error of
\* the second insertion is discarded.  Nobody knows the channel before the
\* handler has answered.
CreateChannel ==
    /\ ~created
    /\ created' = TRUE /\ recent' = TRUE
    /\ granted' = {Owner}
    /\ \/ /\ members' = {[id |-> nextRow, user |-> Owner, status |-> "approved"]}
          /\ nextRow' = nextRow + 1
       \/ UNCHANGED <<members, nextRow>>
    /\ UNCHANGED <<archived, name, messages, req, swept, raced, stirred>>

-----------------------------------------------------------------------------
(* Requests                                                                *)

\* A request arrives.  Approve and remove name a row that has existed; adding,
\* approving and renaming are the owner's (anybody else is refused), and so is
\* removing a row that is not one's own.
Arrive(r) ==
    /\ created /\ req[r] = Idle
    /\ \E op \in Ops \ {"none"}, u \in Users, id \in {0} \cup 1..(nextRow - 1) :
        /\ (id # 0) <=> (op \in {"approve", "remove"})
        /\ op \in {"approve", "rename"} => u = Owner
        /\ req' = [req EXCEPT ![r] = [op |-> op, pc |-> "check", user |-> u, row |-> id,
                                      late |-> archived, ok |-> FALSE]]
    /\ UNCHANGED <<channelVars, members, messages, swept, nextRow, raced, granted, stirred>>

\* Any query or statement of a request can fail; what came before it stays.
RequestFails(r) ==
    /\ req[r].pc \notin {"idle", "done"}
    /\ Answer(r, FALSE)
    /\ UNCHANGED <<channelVars, members, messages, swept, nextRow, raced, granted, stirred>>

\* ApproveMemberHandler and RemoveMemberHandler find the row the request names;
\* a row that is not one's own only the owner may remove.
AdmitsApproval(r) == RowExists(req[r].row)
AdmitsRemoval(r) ==
    /\ RowExists(req[r].row)
    /\ req[r].user = Owner \/ \E m \in RowsOf(req[r].user) : m.id = req[r].row

\* What the reads a request begins with must find.
Admitted(r) ==
    /\ ~archived
    /\ req[r].op = "approve" => AdmitsApproval(r)
    /\ req[r].op = "remove" => AdmitsRemoval(r)

\* The point where the rest of the request begins.
AfterChecks(r) ==
    CASE req[r].op \in {"join", "add"} -> "exists"
      [] req[r].op = "save" -> "insert"
      [] req[r].op \in {"approve", "remove", "rename"} -> "write"

\* Mutant: the check that the channel is active is missing.
CheckRequestSkipped(r) ==
    /\ req[r].pc = "check"
    /\ Goto(r, AfterChecks(r))
    /\ UNCHANGED <<channelVars, members, messages, swept, nextRow, raced, granted, stirred>>

CheckRequest(r) ==
    /\ req[r].pc = "check"
    /\ IF Admitted(r) THEN Goto(r, AfterChecks(r)) ELSE Answer(r, FALSE)
    /\ UNCHANGED <<channelVars, members, messages, swept, nextRow, raced, granted, stirred>>

\* Mutant: the existence check is missing.
FindMemberSkipped(r) ==
    /\ At(r, {"join", "add"}, "exists")
    /\ Goto(r, "insert")
    /\ UNCHANGED <<channelVars, members, messages, swept, nextRow, raced, granted, stirred>>

\* JoinChannel: is there a row of this user, pending or approved?  If so the
\* call returns without an error.
FindMember(r) ==
    /\ At(r, {"join", "add"}, "exists")
    /\ IF RowsOf(req[r].user) # {}
       THEN Answer(r, TRUE) /\ UNCHANGED raced
       ELSE /\ Goto(r, "insert")
            /\ raced' = raced \cup
                  {u \in {req[r].user} : \E q \in Requests \ {r} :
                        At(q, {"join", "add"}, "insert") /\ req[q].user = u}
    /\ UNCHANGED <<channelVars, members, messages, swept, nextRow, granted, stirred>>

\* Mutant: a join is always approved.
JoinStatusApproved(r) == "approved"

\* The status JoinChannel is called with.
JoinStatus(r) == IF req[r].op = "join" /\ Private THEN "pending" ELSE "approved"

\* Mutant: the insertion is repeated when its answer is lost.
InsertMemberRetried(r) ==
    /\ At(r, {"join", "add"}, "insert")
    /\ members' = members \cup
            {[id |-> nextRow, user |-> req[r].user, status |-> JoinStatus(r)]}
    /\ nextRow' = nextRow + 1
    /\ Answer(r, TRUE) \/ UNCHANGED req
    /\ UNCHANGED <<channelVars, messages, swept, raced, granted, stirred>>

\* JoinChannel's last statement: a row, whatever happened since the check.
InsertMember(r) ==
    /\ At(r, {"join", "add"}, "insert")
    /\ members' = members \cup
            {[id |-> nextRow, user |-> req[r].user, status |-> JoinStatus(r)]}
    /\ nextRow' = nextRow + 1
    /\ granted' = IF req[r].op = "add" THEN granted \cup {req[r].user} ELSE granted
    /\ Answer(r, TRUE)
    /\ UNCHANGED <<channelVars, messages, swept, raced, stirred>>

\* ApproveMember: an update by row id, an error when the row is gone.
ApproveMember(r) ==
    /\ At(r, {"approve"}, "write")
    /\ LET named == {m \in members : m.id = req[r].row}
       IN /\ members' = (members \ named) \cup {[m EXCEPT !.status = "approved"] : m \in named}
          /\ granted' = granted \cup {m.user : m \in named}
          /\ Answer(r, named # {})
    /\ UNCHANGED <<channelVars, messages, swept, nextRow, raced, stirred>>

\* RemoveMember: a deletion by row id, an error when the row is gone.
RemoveMember(r) ==
    /\ At(r, {"remove"}, "write")
    /\ LET named == {m \in members : m.id = req[r].row}
       IN /\ members' = members \ named
          /\ granted' = granted \ {m.user : m \in named}
          /\ Answer(r, named # {})
    /\ UNCHANGED <<channelVars, messages, swept, nextRow, raced, stirred>>

RenameChannel(r) ==
    /\ At(r, {"rename"}, "write")
    /\ name' = r
    /\ Answer(r, TRUE)
    /\ UNCHANGED <<created, archived, recent, members, messages, swept, nextRow, raced, granted,
                   stirred>>

\* SaveMessage: the row, then last_activity_at.
InsertMessage(r) ==
    /\ At(r, {"save"}, "insert")
    /\ messages' = messages \cup {r}
    /\ Goto(r, "touch")
    /\ UNCHANGED <<channelVars, members, swept, nextRow, raced, granted, stirred>>

TouchActivity(r) ==
    /\ At(r, {"save"}, "touch")
    /\ recent' = TRUE
    /\ stirred' = TRUE
    /\ Answer(r, TRUE)
    /\ UNCHANGED <<created, archived, name, members, messages, swept, nextRow, raced, granted>>

-----------------------------------------------------------------------------
(* Time and the worker                                                     *)

\* The inactivity period passes without a message.
GoQuiet ==
    /\ recent
    /\ recent' = FALSE
    /\ UNCHANGED <<created, archived, name, members, messages, req, swept, nextRow, raced, granted,
                   stirred>>

\* Mutant: the query forgets the last_activity_at condition.
SweepQueryEverything ==
    /\ created /\ ~archived /\ ~swept
    /\ swept' = TRUE
    /\ stirred' = FALSE
    /\ UNCHANGED <<channelVars, members, messages, req, nextRow, raced, granted>>

\* archiveInactiveChannels: the query for channels to archive ...
SweepQuery ==
    /\ created /\ ~archived /\ ~recent /\ ~swept
    /\ swept' = TRUE
    /\ stirred' = FALSE
    /\ UNCHANGED <<channelVars, members, messages, req, nextRow, raced, granted>>

\* ... and, later, the update by id, which looks at nothing again (or is never
\* reached: an earlier one failed, or the job's two minutes are over).
SweepUpdate ==
    /\ swept
    /\ archived' \in {TRUE, archived}
    /\ swept' = FALSE
    /\ UNCHANGED <<created, recent, name, members, messages, req, nextRow, raced, granted, stirred>>

-----------------------------------------------------------------------------

Serve(r) ==
    \/ Arrive(r) \/ RequestFails(r) \/ CheckRequest(r)
    \/ FindMember(r) \/ InsertMember(r)
    \/ ApproveMember(r) \/ RemoveMember(r) \/ RenameChannel(r)
    \/ InsertMessage(r) \/ TouchActivity(r)

Next ==
    \/ CreateChannel
    \/ \E r \in Requests : Serve(r)
    \/ GoQuiet \/ SweepQuery \/ SweepUpdate

\* Every request is answered and the worker has nothing left to archive.
AllServed ==
    /\ \A r \in Requests : req[r].pc = "done"
    /\ archived /\ ~recent /\ ~swept
    /\ UNCHANGED vars

StoreNext == Next \/ AllServed

Spec == Init /\ [][StoreNext]_vars

-----------------------------------------------------------------------------
(* Properties                                                              *)

\* A request that arrives once the channel is archived changes none of its rows,
\* whichever handler serves it; only a request that was under way may still do so.
LateRequestsChangeNothing ==
    [][\A r \in Requests : req[r].late /\ req'[r] # req[r] =>
            UNCHANGED <<channelVars, members, messages>>]_vars

\* There is no unique index on (channel, user), so JoinChannel's existence check is
\* all that keeps a user from having two rows: a user has two only when two joins
\* of that user overlapped between the check and the insertion.
SecondRowOnlyByRace ==
    \A m1, m2 \in members : m1.user = m2.user /\ m1 # m2 => m1.user \in raced

\* In a private channel a user is an approved member only by the owner's leave, and
\* a removed one only by leave given again: an approval under way when the row was
\* removed does not carry over to the row of a later join.
ApprovedOnlyByOwner ==
    Private => \A m \in members : m.status = "approved" /\ m.user \notin raced =>
                    m.user \in granted

\* The worker's update looks at nothing again: a channel with recent activity is
\* archived only if that activity came between the worker's query and its update.
ActiveArchivedOnlyByRace == [][~archived /\ archived' => ~recent \/ stirred]_vars

\* What AddMemberHandler answers ("member added") and JoinChannel's comment promises
\* ("adds a user to a channel with a specific status"): once the owner's addition is
\* answered without an error, the user has an approved row.
AddedIsApproved ==
    [][\A r \in Requests : req[r].op = "add" /\ ~req[r].ok /\ req'[r].ok =>
            IsMember(req[r].user)']_vars

=============================================================================
