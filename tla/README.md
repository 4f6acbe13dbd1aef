# Polyglot chat: a TLA+ verification project

TLA+ models of the chat system in `src/`, the TLC configurations that check them on small
instances, and TLAPS proofs of the properties that matter most, for every instance.

Every definition is translated from the source; `PROJECT.json` ("map") names the lines each
one stands for. The database, Redis and socket libraries are modelled from how `src/` uses them:
one query, command or statement is one atomic step that may also fail; where a property could
tell, it may also take effect and answer with an error.

## 1. Inventory

| Component | State | Operations | Interacts with |
|---|---|---|---|
| **Channel hub** (`go-service/internal/channels/hub.go`, `client.go`, `ws_handler.go`) | `clients` map, Go channels `register`, `unregister`, `broadcast`, one `send` per client, the sockets | `WsHandler`, `readPump`, `writePump`, `Hub.run`, `BroadcastEvent`, `publishToRedis` | Go channels between three kinds of goroutine; Postgres (`SaveMessage`), Redis |
| **Hub registry** (`hub.go` 28-52, `client.go` 106-114) | `HubManager.hubs`, `connStore` | `GetOrCreate`, storing and fetching a socket | mutexes shared by all handlers and writePumps |
| **Channel presence** (`presence.go`) | Redis sets `channel_presence:<id>`, `active_channels` | `trackChannelPresence` | called by each connection's handler |
| **Channel store** (`repository.go`, `handler.go`; `worker/service.go` 119-158) | Postgres rows `channel`, `channel_member`, `channel_message` | create, join, add, approve, remove, rename, save; archive sweep | HTTP handlers, WebSocket handlers, worker |
| **Worker, media** (`worker/service.go` 100-117, 160-228; `pkg/media`) | Mongo `conversations`, `media_assets`, IPFS pins | expire messages, unpin and delete orphans | uploads and posts of the other services |
| **Media upload** (`backend/media`, the Go proxy `UploadMediaHandler`) | as above | `uploadMediaAsset` | worker |
| **Node presence and direct messages** (`backend/chat`) | Redis `online:<user>`, Mongo `conversations`, Socket.IO rooms | `login_me`, `disconnect`, `send_message`, `join_channel`, `typing` | each other, across awaits |
| **Relay** (`backend/server.js` 72-103) | a Redis subscription | `io.emit` of published channel messages | hub's `publishToRedis`, browser |
| **Conversation view** (`frontend/src/pages/chat/MyChat.jsx`) | the messages shown, the selection | load history, live messages, send, switch | channel socket, Socket.IO, HTTP |
| **ORM** (`go-service/ent`, generated) | the mutation of a builder; the four tables | fill a builder, save, delete, query with eager loading | every Go handler goes through it |
| **Authentication** (`internal/auth`, `pkg/middleware`) | `user` rows, a Redis session key | register, login, logout | all services check its token |

Not program logic: nginx, compose and CI files, style sheets, form components; and dead code:
`backend/auth` (its routes are not mounted) and `backend/repository`. The ORM code is generated,
but it is most of the Go service's source, and what its builders do with the calls made on them
decides what the handlers' statements say; so it is modelled too.

What is hard here is nearly always one of four things: goroutines that meet on bounded Go
channels (hub); sequences of single-statement queries that interleave with other actors because
there is no transaction anywhere (store, presence, media); asynchronous answers applied to
state that has changed meanwhile (Node handlers, browser); and calls on a builder in an order
nobody tried (ORM). The `hazards` of `PROJECT.json` list
where each of them bites and which property watches it.

What makes each component correct:

- *hub*: no send on a closed channel; each connection's stream is a contiguous piece of one
  order; a sender's order survives; what is saved is fanned out; a slow or gone client is taken
  down completely.
- *registry*: one hub per channel; a writePump finds its socket; no deadlock of the locks.
- *presence*: who is online is listed; who is gone is not; an empty channel leaves nothing.
- *store*: one row per user; approval only by the owner; an archived channel is frozen; an
  active one is not archived.
- *media*: what a message shows is never unpinned; an orphan goes in the end.
- *Node presence / direct messages*: an entry belongs to a live socket; a message to somebody
  online reaches them.
- *view*: what is shown belongs to the selection, without duplicates, and includes the latest.
- *ORM*: what is saved is what was last asked for, column by column, and nothing else; an
  eager-loaded edge is missing only if its row has moved.

## 2. Modules

| Module | Models | Rests on |
|---|---|---|
| `ChannelBroadcast` | the abstract promise of a channel: one order, contiguous streams | |
| `Hub` | the handler, writePump and hub goroutines of one channel | `ChannelBroadcast` (refinement) |
| `MCHub` | instances of `Hub` | `Hub` |
| `HubProofs` | theorems about `Hub`, and its refinement of `ChannelBroadcast` | `Hub` |
| `ConnRegistry`, `MCConnRegistry` | `GetOrCreate`, `connStore`, and the mutexes | |
| `ChannelPresence`, `MCChannelPresence` | `trackChannelPresence`, command by command | |
| `ChannelPresenceProofs` | theorems about `ChannelPresence` | `ChannelPresence` |
| `ConnRegistryProofs` | theorems about `ConnRegistry` | `ConnRegistry` |
| `ChannelStore`, `MCChannelStore` | the rows of one channel and all that writes them | |
| `ChannelStoreProofs` | theorems about `ChannelStore` | `ChannelStore` |
| `MediaAssets`, `MCMediaAssets` | upload, post and clean-up of media, across Node, Go and the worker | |
| `MediaAssetsProofs` | theorems about `MediaAssets` | `MediaAssets` |
| `ConversationView`, `MCConversationView` | one browser, what the servers send it, and the relay | |
| `NodePresence`, `MCNodePresence` | `login_me`, `disconnect` and `send_message`, between their awaits | |
| `ConversationViewProofs` | theorems about `ConversationView` | `ConversationView` |
| `NodePresenceProofs` | theorems about `NodePresence` | `NodePresence` |
| `EntMutation` | the builders of the four ent types: what each call leaves in a mutation | |
| `EntStore`, `MCEntStore` | `Save`, deletions and queries over the four tables | `EntMutation` |
| `EntStoreProofs` | theorems about `EntStore` and the calls of `EntMutation` | `EntStore` |

Operators whose comment begins with "Mutant:" are faulty variants of the definition that
follows them. No specification uses them; `PROJECT.json` ("mutants") says which property each
one breaks when it is put in the definition's place.

### Hub

Each connection `c` has a handler goroutine (`pc[c]`: `WsHandler`, then `readPump`), a
writePump (`writer[c]`, with the message it has in hand in `taken[c]`), a socket (`sock[c]`), a
`Client.send` channel (`send[c]`, closed or not: `open[c]`) and what its peer has got
(`received[c]`). The hub has the map `clients` and the channel `broadcast`; `rows` and
`published` are what Postgres and Redis have. `log`, `first` and `orphans` are history.

- The unbuffered channels `register` and `unregister` are rendezvous: the send and the hub's
  case are one step (`Register`, `Unregister`). `broadcast` and `send` are bounded queues;
  `BroadcastEvent` blocks on a full one, `FanOut` drops the client of a full one.
- `FanOut` is the whole loop over `clients`. A receive by a writePump in the middle of it
  touches one client's queue only and commutes with the sends to the others, so it is as good
  as one before or after. Go's map order is irrelevant for the same reason.
- `SaveMessage` has three outcomes, the third being the row inserted and the error returned
  because updating `last_activity_at` failed.
- Frames are numbered per connection: a message is `[from, n]`; bodies are left out. Frames
  without body and media URL are skipped by the code and not modelled. `Frames[c]` bounds how
  many are sent.
- Pings, deadlines and the peer's departure are `ReadEnds` and `WriteFails`, which may happen
  at any time. A ping that succeeds changes nothing.
- `panicked` becomes true on a send on, or a close of, a closed channel, where Go would end the
  process.

### ConnRegistry

`handler[c]` goes through `GetOrCreate` (under `manager`, the manager's mutex) and the store
into `connStore` (under its own hub's `mu`: `writing`), `pump[c]` through `getConn` (`reading`).
An access of a Go map has a beginning and an end here, since two overlapping accesses, one of
them a write, are a data race: `torn` is set and what the map holds afterwards is arbitrary.
The entries are never deleted in the code, nor in the model.

### ChannelPresence

`pc[c]` walks through the Redis commands of `trackChannelPresence`. A command whose answer does
not come is sent again by the client library while the first one is still on its way
(`CommandLost` puts it in `late`), or given up, which ends the call (`CommandFails`). Redis may
execute what is in `late` at any time, or never (`LateCommand`): so a command that is answered by
an error may have had its effect before, or have it long after. The service may die (`Crash`),
which skips the deferred calls of every connection; Redis keeps what it has. Several connections
may belong to one user (`UserOf`), and then share the one entry. `failed`, `owing` (whose entry is
still to be removed by somebody else) and `disturbed` are history.

### ChannelStore

One channel. A request is made once (`Arrive`), and goes through its reads (`CheckRequest`,
`FindMember`) and statements one by one; any of them can fail (`RequestFails`). A handler often
tests the archiving twice in a row (`ensureActiveChannel`, then `JoinChannel`'s own query): since
an archived channel stays archived, the second test decides, and the two are one step. Requests
that the code refuses for who makes them (somebody else than the owner adding, approving or
renaming) change nothing and are left out. The worker's sweep is `SweepQuery` and `SweepUpdate`;
`GoQuiet` is the passing of the inactivity period. Times are reduced to `recent`: whether
`last_activity_at` is within that period. `raced`, `granted`, `stirred` and a request's `late`
are history. The reads that change nothing (lists, counts) are left out; the history is part of
`ConversationView`.

### MediaAssets

An upload `u` has a content and a file name, so that two uploads may share the content (and with
it the CID, which is all that IPFS knows) without sharing the gateway URL (which is all that the
message tables know). `upload[u].pc` goes through the steps of `uploadMediaAsset` and the
browser's `handleFileUpload`; `sweep` through those of `cleanupOrphanedMedia`, one query, unpin or
deletion at a time. A file and its thumbnail have a CID each; the worker asks for the file's to be
unpinned, and for no other. A pin or a write that answers with an error may have happened. `JobFails` is
an error, the two minutes of a job, or a restart: the next tick starts over. `ExpireMessages` also
stands for Node's `deleteMessage`, which takes one message away. IPFS is modelled from
its use: unpinning what is not pinned is an error.

`rebased` says that browser and Node build gateway URLs on different bases. `utils/media.js`
replaces a gateway on localhost or duckdns by a public one, while the compose file gives Node
`http://localhost/ipfs`: then no message contains the URL a document has, and the worker takes
every asset for an orphan once the grace period is over. `ShownMediaPinned` names this as one of
three reasons why media that is shown can lose its pin. `overtaken` and `swept` are history.

### ConversationView

One browser. `view` is the state `conversation` of `MyChat.jsx`, `selected` is `to` or
`activeChannel`; what reaches the browser is on its way in `fetches` (HTTP), `socket.inbox`
(WebSocket) or `events` (Socket.IO, in order), which nothing orders among each other. The effects
of a selection (wipe, close, ask, connect) are one step, since React runs them together. The
servers appear by what they save and send: `FanOut` is the hub of `Hub`, followed by the relay,
which emits what Redis publishes while it is subscribed; `EmitDirect` is the end of
`send_message`. A row may be saved and nothing sent (`NeverSent`): `SaveMessage` fails after the
insert, or the server dies. A message saved is one `received` from others, or a `text` or an
`upload` of the user's own: the callback of a text shows it (`HandleAck`), that of an upload looks at
an error only (`HandleUploadAck`). `stray` and `missed` are history.

### NodePresence

Node runs one handler at a time up to its next `await`: `login[l]`, `leave[s]` and `send[m].pc`
say which await each handler is at. A connection may send `login_me` as often as it likes, and as
any user: the socket of the browser is a variable of its module and outlives a change of user. So
several entries may name one connection, and `getUserBySocketId`, which goes through the keys one by
one (`Find`; `seek` is what it has still to look at), ends at the first it finds. Commands go to Redis
over one connection, in order, so that
a command takes effect when it is issued. `getOnlineUsers` asks for the keys (`Keys`), then for
the entries (`Get`; the gets of one list are one step), then emits (`Emit`). Errors of Redis are
swallowed by `presence.js`, and the handler goes on with nothing. Errors, expiries and crashes
together are bounded by `MaxFaults`. `had`, `latest`, `raced`, `lapsed`, `botched`, `steady`,
`misread` and the variables about the order of lists are history.

### EntMutation and EntStore

A mutation holds the columns set, the columns and references cleared, and the ids added to and
removed from the edges of many, as the fields of the generated mutation structs do; `asked` is
history: what the last call on each column asked for. `EntMutation` gives for each of the four
types the calls on it (setters, clearers, resets, edges), which the generated files spell out one
method at a time: one operator stands for the methods that do the same to the mutation. `EntStore`
has the tables, and of `Save` the defaults, the checks and validators, and the one statement (or
transaction) sent, with the foreign keys and the unique columns that Postgres enforces. A statement
may fail for any reason, and one that took effect may be answered by an error, its answer lost or
its caller's context ended (`Become`). The rows an update matches are part of its builder (`where`):
what its predicates match is not told row by row, but any set of rows may be what they match. Every
reference of the schema is NOT NULL, so that sqlgraph's statement to unlink or take over another
row's reference always ends in an error. A query with an eager-loaded edge reads its nodes in one
statement and the edge in a second one; `reader` is where it is. The generated code in the
repository is older than its schema (it lacks `archived_at` and `last_activity_at`; the
Dockerfile generates anew): the model follows the code that is there.

## 3. Runs

| Run | Instance | Shows |
|---|---|---|
| `hub_safety` | two connections, two frames and one, both capacities 1 | the safety properties of `Hub`, and that it implements `ChannelBroadcast` |
| `hub_liveness` | two connections, one frame each, capacities 1, `FairSpec` | saved messages are fanned out, connections torn down, slow clients disconnected |
| `conn_registry` | three connections, one channel, `FairSpec` | one hub, sockets found, set-up completes |
| `conn_registry_race` | three connections, two channels | **violation**: `connStore` is not protected (see 6) |
| `channel_presence` | one user with two connections and one with one, two late commands at a time | ghosts, leftovers, and who is listed |
| `channel_store` | private channel, two users, three requests of any kind | rows, approvals, archiving |
| `add_pending` | the same with two requests | **violation**: adding a pending user (see 6) |
| `media_assets` | two uploads: same URL, same content, or nothing in common; `Fairness` | shown media keeps its pin, pins are accounted for, orphans go |
| `conversation_view` | a channel and a direct conversation, three selections, two messages, answers of one | what is shown, how often, and what is missed |
| `history` | the same | **violation**: a channel's history is not the latest (see 6) |
| `node_presence` | two users, two connections, one more login of either as either, one message, one fault | who is listed, the list shown, delivery |
| `ent_store` | two or three ids per type, three calls to create, two to update, two statements | rows are valid, saved as asked for, edges not lost |

Why the bounds are enough to be interesting. With capacity 1 and three messages both queues
fill: a handler blocks on `broadcast`, and a client with one message queued is dropped by the
next fan-out, while its own readPump is anywhere between reading and unregistering. The second
frame of one connection is what makes a sender's order, and a gap, possible. Larger capacities
only delay the same transitions; the theorems of section 5 cover all of them. In `ConnRegistry`
a third connection makes a reader overlap a writer of the same hub. Three connections, two of them
of one user, are the least where both races of `presence.go` (with another user, and with one's
own other tab) happen; two late commands may be a removal and its repetition, or those of two
connections (the two tabs are interchangeable and form a symmetry set). Three requests let an approval under way meet a removal and a new join of
the same user (the owner's row, which exists from the start, can be removed too); the same run
with four requests (3.2 million states up to symmetry) also passes, but takes minutes.
Requests are interchangeable, so `channel_store` uses them as a symmetry set: it checks
safety only. 
Two uploads are the least where one's clean-up takes the content of the other, and the initial
states of `MCMediaAssets` are all there are up to renaming. In `ConversationView` an answer holds
one message and two are saved, so that a message lies beyond the limit; three selections lead
away from a conversation and back, so that answers of two requests for it overlap. `MCNodePresence`
starts where the first connection has logged in as one user, and the other user is not there, there
with the second connection, or with the first one too: states that `Spec` reaches. One login more
is a reconnection that meets the disconnect of the first connection at every step, or a second user
on a connection, next to one fault.
`MCEntStore` starts from tables in which every reference is in use; two statements, the
first of which may be a builder's and the second a deletion, come before, between and after the two
of a query. Three calls on a creation let a set, a clear and a reset meet on one column; an update
starts from a row that is complete, and two calls meet there already.

`CHECK_DEADLOCK` stays on in the first seven runs: their modules say when they may stop
(`Quiescent`, `AllSetUp`, `AllGone`, `AllServed`). In the other five the bounds themselves end the
behaviours: every upload, connection and message is used once, and statements, selections and
calls are counted. There TLC is told not to take the end for a deadlock.

### The properties

*Hub.* `NoPanic`: the two closes of `send` and the fan-out never meet a closed channel.
`ContiguousStream`: what is accepted for a client is a contiguous piece of the hub's order
starting at its registration, complete while the hub has the client. `CloseFrameIsLast`,
`SenderOrder`, `SavedAndBroadcast`: see their comments; the last says exactly which rows are not
fanned out. `ImplementsBroadcast`: the refinement of `ChannelBroadcast`, where a client's
entitlement ends at `first + Len(received, taken, send)`. `SavedIsFannedOut`, `TornDown`,
`DroppedIsDisconnected`: liveness; the last one is not the hub's doing (it only closes a Go
channel) but follows from writePump ending, the pings stopping and the read deadline passing.

*ConnRegistry.* `OneHubPerChannel`, `WriterFindsConn`, `ConnStoreProtected`, `SetUpCompletes`.

*ChannelPresence.* `NoGhost`: an orderly disconnect leaves no ghost, and the ghost that a crash, a
failed removal or a late addition does leave lasts until another connection of the user leaves, or
the key is deleted. `LastOneOut` holds in spite of the separate commands, short of
failures. That an online user is listed does *not* hold in general; `OnlineIsListed` says
precisely when: unless the removal for another connection of the same user has been executed,
whether or not that was answered, and however late, or the user was added
between another's `SCARD` and `DEL`, or the mark set between another's `SCARD` and `SREM`.

*ChannelStore.* `SecondRowOnlyByRace`, `ApprovedOnlyByOwner`, `LateRequestsChangeNothing`,
`ActiveArchivedOnlyByRace`: each says what the missing transaction can and cannot spoil.

*MediaAssets.* `ShownMediaPinned`: shown media loses its pin for three reasons only.
`PinsAccounted`: a pin without a document was left by an upload, or it is the thumbnail of a document
that the worker deleted: the worker leaves no file pinned, but every thumbnail. `OrphansGo` (liveness): an
orphan goes in the end, unless the job keeps running into an asset it cannot unpin, as it does
after an unpin whose deletion failed (`worker/service.go:188`).

*ConversationView.* `StrayOnlyByLateAnswer`, `ShownOnce`, `MissedForAReason`: which of the three
unordered ways can show a message in the wrong place, twice, or not at all. The reasons for the
last are listed at `MissedForAReason`, from a row that is saved and never sent to an answer that
overwrites what came before it.

*NodePresence.* `NoGhostEntry`, `LatestIsListed`, `ListFresh`, `SteadyRecipientGets`: presence is
one entry per user, read and deleted across awaits; the properties say which races lose it.
`NoGhostEntry` holds for a connection that has been one user's; of one that has been several users',
a clean disconnect leaves all but one behind. `SteadyRecipientGets` excepts the message whose look at
the recipient's entry Redis answered with an error (`misread`), and says nothing of a recipient
who reconnects while the message is under way.

*EntStore.* `TypeOK` is the validity of every row, however its builder was filled. `SavedAsBuilt`:
a `Save` did what the last call on each column asked for, to every row that matched, of an
`UpdateOne` to the one, and to nothing else; or it did nothing and returned an error. (An error does
not say which.) One case is excepted: a reference that was
set and then cleared through `Mutation()` is created all the same, while an update is refused.
`NilOnlyIfMoved`: `GetUserChannels` passes over a nil edge and `GetChannelMembers` lists it without a
name; neither befalls a membership that has not moved.

## 4. Fairness

`Hub!Fairness`. The hub is always at its `select`, and Go picks at random among the ready
cases: each case that stays ready is taken, hence weak fairness of `FanOut` and of the handlers'
steps. Blocked senders of a Go channel are served first come first served, hence strong fairness
of `BroadcastEvent`, which other senders can disable again by filling the queue. Every write of a
writePump has a deadline (`SetWriteDeadline`), so it returns. `ReadEnds` is fair only once
writePump has ended: only then is the peer no longer pinged, no pong comes, and the read
deadline passes. A peer that keeps its connection open may do so for ever: there is no fairness
for `ReadFrame` or for `ReadEnds` otherwise. Two assumptions are the environment's: calls to
Postgres and Redis return (they run under `context.Background()`, without a deadline of their
own), and a peer whose pings have stopped does not send pongs of its own accord.

`ConnRegistry!FairSpec`: strong fairness per goroutine, since a mutex may be taken by others
again and again; Go's mutexes hand over to a goroutine that has waited long enough.

`MediaAssets!Fairness`: the worker's ticker (`runLoop`) starts the job again and again, and a job
under way goes on, hence weak fairness of `SweepFind` and of the job's next step, whichever asset
it is for. Nothing makes an upload, a post or the passing of the grace period happen. A job may
fail always; `OrphansGo` therefore assumes that failures end.

The other modules check safety only.

## 5. Proofs

`tlapm` checks every proof; the only assumptions are the `ASSUME`s on the constants, which TLC
evaluates in every run. All theorems are about `Spec`, without fairness, for any sets of
connections, users, requests, uploads and conversations, any number of frames, messages,
selections and faults, and any positive capacities and limits. Sets are assumed finite where the
code counts (`PresenceFinite`, `RegistryAssumption`, `StoreAssumption`): a behaviour that has only
begun has seen finitely many.

`HubProofs`
- `TypeCorrect`, with `Working` (a handler that saves or sends has read a frame).
- `NeverPanics`. `NoPanic` alone is not inductive: a step could start from a map that holds a
  closed channel. `Registration` adds that the map holds only open channels, and only of
  connections that have registered and not unregistered: so whichever of the two closes comes
  first takes the client out of the map, and the other does nothing.
- `StreamsAreContiguous`. `Streams` says of each connection that *received, taken and queued* in
  a row are a piece of the order from `first` on, and the whole rest of it while the hub has the
  client. It needs `Pump` (what a writePump has in hand at each point) for the writePump's steps
  to be mere moves within the row, and `Registration`, for a connection that registers has an
  empty row. `FanOut` is the one step that extends both the order and the rows.
- `SendersKeepOrder`. `Order` is what is fanned out followed by what is queued: `FanOut` only
  moves the border between the two (`OrderKept`), and `BroadcastEvent` appends (`OrderExtended`).
  `Aged` says that whatever a connection has in the order is no newer than its latest frame, and
  older than the one its handler is still saving or handing over, so what is appended is newer
  than everything of the same sender (`SortedAppend`).
- `RowsAreAccountedFor`, where `Aged` also covers the orphans: the message being handed over is
  therefore neither in the order nor an orphan, and moves from `OnTheWay` to `Order` and nowhere
  else.
- `NothingAfterClose`. `Closing` adds to the property that the writePump has returned and its
  channel is drained. It needs `Registration` (the hub sends only to open channels) and `Pump`
  (a writePump that waits has nothing in hand, and one is started only once).
- `ImplementsChannel`, the refinement. The abstract state is `log`, the clients that have joined
  (`Joined`: those past their registration), where each stream starts (`first`) and ends (`Last`:
  `first` and all that was accepted for it), and what was received. `Register` is a `Join` at the
  end of the log (`RegisterJoins`), `WriteMessage` a `Deliver` (`WriteDelivers`), `Unregister` of a
  client a `Leave` (`UnregisterLeaves`), `FanOut` a `Post` that cuts off those whose channel is full
  (`FanOutPosts`); the other eleven steps are not seen (`OthersStutter`). That what is delivered is
  the next message of the stream is `Streams`, with `InHand` (a writePump that writes has one
  message, `HandFollows`); that what is posted has a number of its own is `Sorted(Order)`, with
  `Aged` (`HeadIsNewer`).

`ChannelPresenceProofs`
- `TypeCorrect`; `NoGhosts`, which is inductive as it stands: each entry is accounted for by a
  connection that is listed, or gone and `owing`.
- `LastOneOutClearsAll`: `LookedAfter` says that while Redis holds anything and nothing has
  failed, somebody is between their first and last command. The one who leaves without deleting
  has counted somebody, and `NoGhost` says that this somebody is a connection still to leave.
  A late command is one that has failed (`LateHaveFailed`).
- `OnlineAreListed`: `NobodyInTheWay` says that a deletion of the key, or a removal of the mark,
  that somebody is about to send or that is still on its way, cannot hurt an undisturbed
  connection, because a count of zero (of a finite set, `PresenceFinite`) means that none was
  listed, and whoever adds an entry after it is disturbed.

`ConnRegistryProofs`
- `TypeCorrect`; `HubsAreUnique`. `Locking` ties the manager's mutex to the one handler inside
  `GetOrCreate`, `Looking` says that a handler about to make a hub has found none and none has been
  made since, and `Counted` that the hubs made are as many as the channels that have one.
- `OneChannelProtects`: with connections of one channel only, no two accesses of `connStore`
  overlap. With two channels they do (`conn_registry_race`), so the assumption is needed.
- `WritersFindConns`: as long as no two accesses have overlapped, a writePump finds its socket,
  because `WsHandler` stores it before it starts the pump.

`ChannelStoreProofs`
- `TypeCorrect`. That row ids stay in their range is a count: each row apart from the owner's takes
  a request that is then done (`Spent`), hence finitely many requests.
- `SecondRowsAreRaces`. The invariant `CheckHolds` is what `JoinChannel`'s existence check is worth:
  unless joins of the user have overlapped, whoever is about to insert still has no row, and nobody
  else is about to insert one for the same user (`InsertingKept`: only the check leads there).
- `ApprovalsAreTheOwners` needs it: the owner's leave is withdrawn from a *user* when one *row* is
  removed, and that is right only if no second approved row of the user remains.
- `ArchivedIsFrozen`: `LateRefused` says that a request that came after the archiving is at its
  checks or done, for archiving is never undone.
- `ActiveIsArchivedByRace`: what the worker's query selected was quiet (`SweptQuiet`).

`MediaAssetsProofs`
- `TypeCorrect`, `ShownStaysPinned`, `WorkerLeaksNoFile`, from one invariant, `IInv`. `LookedInv` is
  its core: a message that shows the URL in hand, in a table the worker has been through, came after
  the worker looked. `DeletedAccounted` covers the point between the unpin and the deletion, where
  another upload may have pinned the same content again; a thumbnail is accounted for by `swept` from
  then on (`ThumbnailsStep`); `WorkInv` says that the worker only works
  on what has been uploaded, and that each message is in the table of its kind.

`NodePresenceProofs`
- `TypeCorrect`; `NoEntryOfTheGone`. `NoGhostEntry` says nothing of a disconnect before it is done:
  `Cleared` says at each of its `await`s where the entries are that name the connection: among those
  it had when it was closed, and, as long as the right one is looked for, among those still to be
  looked at. It lasts because a connection whose disconnect is handled is gone (`Gone`) and takes no
  `login_me` any more.
- `LoggedInIsListed`. `Overtaken` adds what makes the one exception an exception: a disconnect that
  has seen its own entry, and is about to delete that of a user who is there, was overtaken by a
  `login_me`, which `raced` or `lapsed` then says.
- `SteadyOnesGetIt`. `Listed` ties a steady connection to its entry and its socket, and `Aimed` says
  at each `await` of `send_message` what its targets hold already, for all messages but the `misread`; so a step of another handler
  that changes an entry takes the connection out of the steady ones.
- `QuietListIsFresh`. `Fresh` follows the handler that asked for the keys last through its two
  `await`s: as long as nobody has still to ask (`Unread`), it has the keys of now, or the list of
  now, or has shown it. `Drawn` says that the others have nothing to show but what they asked for.

`ConversationViewProofs`
- All four rest on `Together`: the types; `Numbered` (messages are numbered as they are saved, each
  belongs to one conversation and occurs in it once); `Known` (what is under way or shown has been
  stored); and `Attached` (the socket is the selected channel's). `TypeCorrect` needs the second, for
  that a message's number stays within the bound is a count of what is stored.
- `OthersOnlyByLateAnswer`: `Placed`, of which the core is `Attached`: selecting closes the socket
  and wipes the screen in one step, so what the socket brings is the selection's.
- `NoneTooOften`. `Live` says that the socket gets a message once: no two of the servers' steps send
  the same one, and what is still pending is not in the socket. `Shown` counts with it: a message
  the socket may still bring is on the screen at most once, so at most twice afterwards; and the
  checks of the other handlers keep a direct message at one.
- `NoneLostUnnoticed`. `Accounted` says where each message of the selection is at every moment: on
  the screen, missed, in the socket, pending, in an event, in the history answer or still to be read
  for it, or beyond the answer's limit (`Covered`). It needs `HistoryGrows`: saving a message brings
  no older one back into the answer.

`EntStoreProofs`
- `Sound` is the invariant: what the tables hold fits their types and is admitted by Postgres, and
  the builder under way is `Filled`. Of a mutation, `Agree` says how what is set, cleared and
  unlinked goes with what was asked of each column last (`asked`): every call keeps it (one lemma per
  kind of call, one per type of builder), since a reset forgets both and clearing a field drops its
  value, while a cleared reference keeps one, which is why references are the exception.
- `TypeCorrect`. The validators see the columns the setters filled; a reference is a row's id
  because the foreign key holds in the table the statement leaves (`AdmittedFits`).
- `SavesDoAsBuilt`, for the rows that the builder matches (`Filled`: they are there). `Does` is what the checks and `sqlSave` make of `Agree`: a statement with what was
  asked last of each column, the defaults in a creation, and for an update at most a reference set to
  NULL besides, which Postgres refuses. `InsertDoes` and `AssignDoes` carry it to the tables.
- `NilMeansMoved`: from `ForeignKeys`, and that NULL is no row's id (`EntAssumption`).

All safety properties of the runs that pass are theorems, and so is the refinement. Only
model-checked are the liveness properties (of `Hub`, `ConnRegistry` and `MediaAssets`): they depend
on fairness and are out of the prover's reach. The inductive invariants of `NodePresenceProofs`,
`ConversationViewProofs` and `EntStoreProofs` have also been model-checked, on the instances of the
modules' runs.

## 6. Findings

- `connStore` (`client.go:106-108`) is said to be "protected by the hub's own goroutine". It is
  accessed by handlers and writePumps under the mutex of *their own* hub, so with two channels
  in use two accesses can overlap (`conn_registry_race`; with one channel they cannot,
  `conn_registry`).
- `JoinChannel` "adds a user to a channel with a specific status" (`repository.go:146`), but a
  user who is already pending stays pending when the owner adds them, and the owner is told
  "member added" (`add_pending`).
- `GetMessages` "retrieves the last `limit` messages" (`repository.go:262`), but it orders them
  ascending and takes the first ones: a client of a long channel never loads its recent messages
  (`history`). Node's `getDirectMessages` does it right.

Met while modelling, without a run of their own:
- media in use is taken for orphaned where browser and Node differ on the gateway's base
  (`rebased`, above);
- the worker unpins a file's CID only (`worker/service.go:187`), so that the thumbnail that Node pinned
  with it (`media/service.js:140`) stays pinned for good when the document goes;
- a second `login_me` on a connection, as another user, leaves one of the two listed after a clean
  disconnect, until the entry expires (`presence.js:43`);
- a direct message is acknowledged to its sender although Redis could not say where the recipient
  is (`presence.js:83`); the recipient finds it in the history only;
- the generated ORM code is older than its schema.

## 7. Not modelled, and plan

Not modelled:
- *Authentication*: its handlers are one statement or one Redis command each, and keep no state
  between them; the unique user name that two registrations race for is Postgres' own constraint,
  which `EntStore` has.
- *Node's authentication routes and repository*: dead code, which `server.js` does not mount.
- *The other pages and components of the frontend*: forms and rendering, with no state that a
  second actor shares.
- *Deployment*: configuration.
- *The rest of the ORM*: bulk creation, transactions of the caller, hooks, interceptors,
  traversals, projections and aggregates; the program uses none of them but the count.
- Two hazards have no property: a socket's membership is looked at when it is opened and never again
  (`ws_handler.go:47`), about which the code promises nothing, and which would need `Hub` composed
  with `ChannelStore`; and a channel's owner may be left without a membership
  (`repository.go:105`): adding, approving, renaming and removing rest on `owner_id`, but the owner
  cannot read or write in the channel before joining it like anybody else. The code discards the
  error and promises nothing.

Left to do:
1. `Hub` composed with `ChannelStore`, for the membership of an open socket.
2. The life of a message across the modules: `ConversationView` takes the hub and the relay as one
   step (`FanOut`), which a refinement by `Hub` would justify.
