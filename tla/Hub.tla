-------------------------------- MODULE Hub --------------------------------
(***************************************************************************)
(* One channel's hub of the Go service (internal/channels): the handler    *)
(* goroutine of every WebSocket connection (WsHandler, then readPump), its *)
(* writePump goroutine, and the hub's own goroutine (Hub.run), which talk  *)
(* over the Go channels register, unregister, broadcast and send.          *)
(*                                                                         *)
(* register and unregister are unbuffered: the send and the hub's receive  *)
(* are one step.  broadcast and every send channel are buffered; a full    *)
(* broadcast blocks the sender, a full send makes the hub drop the client. *)
(* The Redis commands of trackChannelPresence are those of module          *)
(* ChannelPresence and the archive worker's are those of ChannelStore:   *)
(* the hub reads neither, so here trackChannelPresence only takes time and *)
(* the query for an active channel has either outcome at any time.         *)
(***************************************************************************)
EXTENDS Naturals, Sequences

CONSTANTS Conns,         \* the WebSocket connections opened on the channel
          Frames,        \* bound: Frames[c] is how many frames c sends
          SendCap,       \* capacity of Client.send (256 in the code)
          BroadcastCap   \* capacity of Hub.broadcast (256 in the code)

ASSUME HubAssumption ==
    /\ Frames \in [Conns -> Nat]
    /\ SendCap \in Nat \ {0}
    /\ BroadcastCap \in Nat \ {0}

VARIABLES
    \* the handler goroutine of each connection
    pc,         \* program point of WsHandler / readPump
    sent,       \* number of non-empty frames read so far
    sock,       \* the socket: not upgraded, open, close frame written, closed
    \* the hub
    clients,    \* the clients map
    broadcast,  \* contents of the broadcast channel
    open,       \* open[c]: c.send has been made and not been closed
    panicked,   \* a send on, or a close of, a closed channel has happened
    \* between the hub and the writePump of each connection
    send,       \* send[c]: contents of c.send
    writer,     \* program point of writePump
    taken,      \* the message writePump has received and not written yet
    received,   \* what has been written to the socket, in order
    \* Postgres and Redis
    rows,       \* the channel's message rows
    published,  \* what has been published for the Node relay
    \* history: never read by the code
    log,        \* the messages Hub.run has fanned out, in order
    first,      \* first[c]: Len(log) when c was registered
    orphans     \* rows inserted by a SaveMessage that then failed

handlerVars == <<pc, sent, sock>>
hubVars == <<clients, broadcast, open, panicked, log, first>>
pumpVars == <<writer, taken, received>>
storeVars == <<rows, published, orphans>>
vars == <<handlerVars, hubVars, pumpVars, storeVars, send>>

Messages == UNION {[from: {c}, n: 1..Frames[c]] : c \in Conns}

HandlerPoints == {"new", "register", "track", "read", "save", "fanout",
                  "publish", "unregister", "close", "done"}
WriterPoints == {"none", "wait", "write", "done"}
SocketStates == {"none", "open", "closing", "closed"}

HandlerTypes ==
    /\ pc \in [Conns -> HandlerPoints]
    /\ sent \in [Conns -> Nat] /\ \A c \in Conns : sent[c] <= Frames[c]
    /\ sock \in [Conns -> SocketStates]

HubTypes ==
    /\ clients \in SUBSET Conns
    /\ broadcast \in Seq(Messages) /\ Len(broadcast) <= BroadcastCap
    /\ open \in [Conns -> BOOLEAN]
    /\ panicked \in BOOLEAN
    /\ log \in Seq(Messages)
    /\ first \in [Conns -> Nat]

SendTypes ==
    /\ send \in [Conns -> Seq(Messages)]
    /\ \A c \in Conns : Len(send[c]) <= SendCap

PumpTypes ==
    /\ writer \in [Conns -> WriterPoints]
    /\ taken \in [Conns -> Seq(Messages)]
    /\ \A c \in Conns : Len(taken[c]) <= 1
    /\ received \in [Conns -> Seq(Messages)]

StoreTypes ==
    /\ rows \in SUBSET Messages
    /\ published \in SUBSET Messages
    /\ orphans \in SUBSET Messages

TypeOK == HandlerTypes /\ HubTypes /\ SendTypes /\ PumpTypes /\ StoreTypes

Init ==
    /\ pc = [c \in Conns |-> "new"]
    /\ sent = [c \in Conns |-> 0]
    /\ sock = [c \in Conns |-> "none"]
    /\ clients = {}
    /\ broadcast = <<>>
    /\ open = [c \in Conns |-> FALSE]
    /\ panicked = FALSE
    /\ send = [c \in Conns |-> <<>>]
    /\ writer = [c \in Conns |-> "none"]
    /\ taken = [c \in Conns |-> <<>>]
    /\ received = [c \in Conns |-> <<>>]
    /\ rows = {} /\ published = {}
    /\ log = <<>>
    /\ first = [c \in Conns |-> 0]
    /\ orphans = {}

Goto(c, point) == pc' = [pc EXCEPT ![c] = point]

\* The message the handler of c is working on: its latest frame.
Current(c) == [from |-> c, n |-> sent[c]]

-----------------------------------------------------------------------------
(* The handler goroutine: WsHandler                                        *)

\* The checks of WsHandler pass, the request is upgraded and a Client is made.
\* (A refused request changes nothing.)
Accept(c) ==
    /\ pc[c] = "new"
    /\ Goto(c, "register")
    /\ sock' = [sock EXCEPT ![c] = "open"]
    /\ open' = [open EXCEPT ![c] = TRUE]
    /\ UNCHANGED <<sent, clients, broadcast, panicked, log, first, send, pumpVars, storeVars>>

\* hub.register <- client meets Hub.run's receive.
Register(c) ==
    /\ pc[c] = "register"
    /\ Goto(c, "track")
    /\ clients' = clients \cup {c}
    /\ first' = [first EXCEPT ![c] = Len(log)]
    /\ UNCHANGED <<sent, sock, broadcast, open, panicked, log, send, pumpVars, storeVars>>

\* trackChannelPresence(..., true) returns; writePump starts; readPump begins.
StartPumps(c) ==
    /\ pc[c] = "track"
    /\ Goto(c, "read")
    /\ writer' = [writer EXCEPT ![c] = "wait"]
    /\ UNCHANGED <<sent, sock, hubVars, send, taken, received, storeVars>>

-----------------------------------------------------------------------------
(* The handler goroutine: readPump                                         *)

\* ReadJSON returns a frame with a body or a media URL.
ReadFrame(c) ==
    /\ pc[c] = "read" /\ sent[c] < Frames[c]
    /\ Goto(c, "save")
    /\ sent' = [sent EXCEPT ![c] = @ + 1]
    /\ UNCHANGED <<sock, hubVars, send, pumpVars, storeVars>>

\* ReadJSON fails: the peer is gone, the frame is malformed or too long, or
\* the read deadline, which only a pong moves, has passed.  The deferred
\* function's trackChannelPresence(..., false) returns.
ReadEnds(c) ==
    /\ pc[c] = "read"
    /\ Goto(c, "unregister")
    /\ UNCHANGED <<sent, sock, hubVars, send, pumpVars, storeVars>>

\* Mutant: the "continue" after a failed SaveMessage is missing.
SaveMessageIgnoringErrors(c) ==
    /\ pc[c] = "save"
    /\ Goto(c, "fanout")
    /\ rows' \in {rows, rows \cup {Current(c)}}
    /\ UNCHANGED <<sent, sock, hubVars, send, pumpVars, published, orphans>>

\* SaveMessage.  The channel is not active or a statement before the insertion
\* fails; or the row is inserted and last_activity_at updated; or the row is
\* inserted and that update fails: then SaveMessage returns an error although
\* the row is there, and readPump goes on to the next frame.
SaveMessage(c) ==
    /\ pc[c] = "save"
    /\ \/ Goto(c, "read") /\ UNCHANGED <<rows, orphans>>
       \/ Goto(c, "fanout") /\ rows' = rows \cup {Current(c)} /\ UNCHANGED orphans
       \/ /\ Goto(c, "read")
          /\ rows' = rows \cup {Current(c)}
          /\ orphans' = orphans \cup {Current(c)}
    /\ UNCHANGED <<sent, sock, hubVars, send, pumpVars, published>>

\* Mutant: the broadcast channel is unbounded.
BroadcastEventUnbounded(c) ==
    /\ pc[c] = "fanout"
    /\ Goto(c, "publish")
    /\ broadcast' = Append(broadcast, Current(c))
    /\ UNCHANGED <<sent, sock, clients, open, panicked, log, first, send, pumpVars, storeVars>>

\* Mutant: the send is retried although it went through.
BroadcastEventRetried(c) ==
    /\ pc[c] = "fanout"
    /\ Len(broadcast) < BroadcastCap
    /\ Goto(c, "publish") \/ UNCHANGED pc
    /\ broadcast' = Append(broadcast, Current(c))
    /\ UNCHANGED <<sent, sock, clients, open, panicked, log, first, send, pumpVars, storeVars>>

\* Mutant: a select with a default gives up when the channel is full.
BroadcastEventOrGiveUp(c) ==
    /\ pc[c] = "fanout"
    /\ Goto(c, "publish")
    /\ broadcast' = IF Len(broadcast) < BroadcastCap
                    THEN Append(broadcast, Current(c)) ELSE broadcast
    /\ UNCHANGED <<sent, sock, clients, open, panicked, log, first, send, pumpVars, storeVars>>

\* h.broadcast <- data, which blocks while the channel is full.
BroadcastEvent(c) ==
    /\ pc[c] = "fanout"
    /\ Len(broadcast) < BroadcastCap
    /\ Goto(c, "publish")
    /\ broadcast' = Append(broadcast, Current(c))
    /\ UNCHANGED <<sent, sock, clients, open, panicked, log, first, send, pumpVars, storeVars>>

\* publishToRedis; a failure is logged and ignored.
PublishToRedis(c) ==
    /\ pc[c] = "publish"
    /\ Goto(c, "read")
    /\ published' \in {published, published \cup {Current(c)}}
    /\ UNCHANGED <<sent, sock, hubVars, send, pumpVars, rows, orphans>>

\* Mutant: c.send is closed without looking c up in the map.
UnregisterUnchecked(c) ==
    /\ pc[c] = "unregister"
    /\ Goto(c, "close")
    /\ clients' = clients \ {c}
    /\ open' = [open EXCEPT ![c] = FALSE]
    /\ panicked' = (panicked \/ ~open[c])
    /\ UNCHANGED <<sent, sock, broadcast, log, first, send, pumpVars, storeVars>>

\* Mutant: c leaves the map and c.send stays open.
UnregisterWithoutClose(c) ==
    /\ pc[c] = "unregister"
    /\ Goto(c, "close")
    /\ clients' = clients \ {c}
    /\ UNCHANGED <<sent, sock, broadcast, open, panicked, log, first, send, pumpVars, storeVars>>

\* The deferred function's c.hub.unregister <- c meets Hub.run, which closes c.send only if
\* it still has c in its map ...
Unregister(c) ==
    /\ pc[c] = "unregister"
    /\ Goto(c, "close")
    /\ clients' = clients \ {c}
    /\ open' = [open EXCEPT ![c] = open[c] /\ c \notin clients]
    /\ panicked' = (panicked \/ (c \in clients /\ ~open[c]))
    /\ UNCHANGED <<sent, sock, broadcast, log, first, send, pumpVars, storeVars>>

\* ... and then the socket is closed.
CloseConn(c) ==
    /\ pc[c] = "close"
    /\ Goto(c, "done")
    /\ sock' = [sock EXCEPT ![c] = "closed"]
    /\ UNCHANGED <<sent, hubVars, send, pumpVars, storeVars>>

-----------------------------------------------------------------------------
(* The hub's goroutine                                                     *)

HasRoom(c) == Len(send[c]) < SendCap

\* Mutant: a slow client is skipped and kept.
DroppedNobody == {}

\* The slow clients, whose send channel has no room for one more message.
Dropped == {c \in clients : ~HasRoom(c)}

\* Mutant: the oldest queued message makes room for the new one.
OfferDroppingOldest(c, msg) ==
    IF c \in clients
    THEN Append(IF HasRoom(c) THEN send[c] ELSE Tail(send[c]), msg)
    ELSE send[c]

\* c.send after the non-blocking send of msg.
Offer(c, msg) ==
    IF c \in clients /\ HasRoom(c) THEN Append(send[c], msg) ELSE send[c]

\* Hub.run takes a message and offers it to every client: a client with room
\* gets it, a slow one has its channel closed and is dropped.  A writePump
\* that receives in the middle of the loop touches one client's channel, so
\* it might as well have done so before or after the loop.
FanOut ==
    /\ broadcast # <<>>
    /\ broadcast' = Tail(broadcast)
    /\ log' = Append(log, Head(broadcast))
    /\ send' = [c \in Conns |-> Offer(c, Head(broadcast))]
    /\ open' = [c \in Conns |-> open[c] /\ c \notin Dropped]
    /\ clients' = clients \ Dropped
    /\ panicked' = (panicked \/ \E c \in clients : ~open[c])
    /\ UNCHANGED <<first, handlerVars, pumpVars, storeVars>>

-----------------------------------------------------------------------------
(* The writePump goroutine                                                 *)

\* msg, ok := <-c.send, with a message.  A closed channel is drained first.
TakeMessage(c) ==
    /\ writer[c] = "wait" /\ send[c] # <<>>
    /\ writer' = [writer EXCEPT ![c] = "write"]
    /\ taken' = [taken EXCEPT ![c] = <<Head(send[c])>>]
    /\ send' = [send EXCEPT ![c] = Tail(@)]
    /\ UNCHANGED <<handlerVars, hubVars, received, storeVars>>

\* conn.WriteMessage(TextMessage, msg) succeeds.
WriteMessage(c) ==
    /\ writer[c] = "write" /\ sock[c] # "closed"
    /\ writer' = [writer EXCEPT ![c] = "wait"]
    /\ received' = [received EXCEPT ![c] = @ \o taken[c]]
    /\ taken' = [taken EXCEPT ![c] = <<>>]
    /\ UNCHANGED <<handlerVars, hubVars, send, storeVars>>

\* A write or a ping fails, or its deadline passes: writePump just returns.
\* Nobody receives from c.send any more.
WriteFails(c) ==
    /\ writer[c] \in {"wait", "write"}
    /\ writer' = [writer EXCEPT ![c] = "done"]
    /\ UNCHANGED <<handlerVars, hubVars, send, taken, received, storeVars>>

\* Mutant: a closed channel is noticed before it is drained.
WriteCloseUndrained(c) ==
    /\ writer[c] = "wait" /\ ~open[c]
    /\ writer' = [writer EXCEPT ![c] = "done"]
    /\ \/ sock[c] = "open" /\ sock' = [sock EXCEPT ![c] = "closing"]
       \/ UNCHANGED sock
    /\ UNCHANGED <<pc, sent, hubVars, send, taken, received, storeVars>>

\* Mutant: the return after the close frame is missing, and the pings go on.
WriteCloseAndGoOn(c) ==
    /\ writer[c] = "wait" /\ send[c] = <<>> /\ ~open[c] /\ sock[c] = "open"
    /\ sock' = [sock EXCEPT ![c] = "closing"]
    /\ UNCHANGED <<pc, sent, writer, hubVars, send, taken, received, storeVars>>

\* msg, ok := <-c.send on a closed and drained channel: the close frame is
\* written, if the socket still takes it, and writePump returns.
WriteClose(c) ==
    /\ writer[c] = "wait" /\ send[c] = <<>> /\ ~open[c]
    /\ writer' = [writer EXCEPT ![c] = "done"]
    /\ \/ sock[c] = "open" /\ sock' = [sock EXCEPT ![c] = "closing"]
       \/ UNCHANGED sock
    /\ UNCHANGED <<pc, sent, hubVars, send, taken, received, storeVars>>

-----------------------------------------------------------------------------

Handler(c) ==
    \/ Accept(c) \/ Register(c) \/ StartPumps(c)
    \/ ReadFrame(c) \/ ReadEnds(c)
    \/ SaveMessage(c) \/ BroadcastEvent(c) \/ PublishToRedis(c)
    \/ Unregister(c) \/ CloseConn(c)

WritePump(c) == TakeMessage(c) \/ WriteMessage(c) \/ WriteFails(c) \/ WriteClose(c)

\* Every connection has come and gone; the hub's goroutine waits for ever.
Quiescent ==
    /\ broadcast = <<>>
    /\ \A c \in Conns : pc[c] = "done" /\ writer[c] = "done"
    /\ UNCHANGED vars

Next ==
    \/ \E c \in Conns : Handler(c) \/ WritePump(c)
    \/ FanOut
    \/ Quiescent

Spec == Init /\ [][Next]_vars

\* The steps a handler takes without waiting for its peer.  The last one is the
\* read deadline: once writePump has returned nobody pings the peer.
HandlerProgress(c) ==
    \/ Register(c) \/ StartPumps(c) \/ SaveMessage(c) \/ PublishToRedis(c)
    \/ Unregister(c) \/ CloseConn(c)
    \/ writer[c] = "done" /\ ReadEnds(c)

\* The steps writePump takes without waiting for the hub: a write returns, with
\* or without an error, by its deadline.
WriterProgress(c) ==
    \/ TakeMessage(c) \/ WriteMessage(c) \/ WriteClose(c)
    \/ writer[c] = "write" /\ WriteFails(c)

\* What the Go runtime guarantees.  The hub is always at its select, which picks
\* among the ready cases at random, so each case that stays ready is taken in
\* the end.  A full channel serves its blocked senders in order: hence strong
\* fairness for BroadcastEvent, which other senders can disable again.
Fairness ==
    /\ WF_vars(FanOut)
    /\ \A c \in Conns : /\ WF_vars(HandlerProgress(c))
                        /\ SF_vars(BroadcastEvent(c))
                        /\ WF_vars(WriterProgress(c))

FairSpec == Spec /\ Fairness

-----------------------------------------------------------------------------
(* Properties                                                              *)

Elements(queue) == {queue[i] : i \in DOMAIN queue}

\* What has been put into c.send so far: what the peer has, what writePump has
\* in hand and what is still queued.
Accepted(c) == received[c] \o taken[c] \o send[c]

\* A send on a closed channel, or a second close, would take the whole service
\* down.  Two places of Hub.run close c.send (the unregister case and the slow
\* client), two goroutines lead to them in either order, and every fan-out
\* sends: none of it ever meets a closed channel.
NoPanic == ~panicked

\* The stream of a connection is a contiguous piece of the channel's order that
\* begins where the connection was registered, whatever is dropped, closed or
\* failing; and as long as the hub has the client, the piece reaches the end of
\* the order, so a client is never skipped and kept.
ContiguousStream ==
    \A c \in Conns :
        /\ \A i \in 1..Len(Accepted(c)) : Accepted(c)[i] = log[first[c] + i]
        /\ c \in clients => Len(Accepted(c)) = Len(log) - first[c]

\* The close frame goes out only when the client's queue has been written to
\* the last message and the hub has let go of the client.
CloseFrameIsLast ==
    \A c \in Conns : sock[c] = "closing" =>
        /\ c \notin clients /\ ~open[c]
        /\ Accepted(c) = received[c]

\* In the hub's queue and order the messages of one connection are in the
\* order it sent them, each at most once.
SenderOrder ==
    LET order == log \o broadcast
    IN \A i, j \in DOMAIN order :
           (i < j /\ order[i].from = order[j].from) => order[i].n < order[j].n

\* Only a message that is in the table is fanned out or published; and a row is
\* never silently kept from the hub: it has been queued, or its handler is
\* still on the way to do so, or its SaveMessage failed after the insertion.
SavedAndBroadcast ==
    LET onTheWay == {Current(c) : c \in {d \in Conns : pc[d] = "fanout"}}
    IN /\ published \subseteq Elements(log \o broadcast)
       /\ Elements(log \o broadcast) \cap (orphans \cup onTheWay) = {}
       /\ rows = Elements(log \o broadcast) \cup orphans \cup onTheWay

\* The hub implements the channel's abstract promise.
Abstract == INSTANCE ChannelBroadcast WITH
    log <- log,
    joined <- {c \in Conns : pc[c] \notin {"new", "register"}},
    members <- clients,
    first <- first,
    last <- [c \in Conns |-> first[c] + Len(Accepted(c))],
    received <- received

ImplementsBroadcast == Abstract!Spec

\* A message whose SaveMessage succeeded is fanned out in the end, even if its
\* own connection is gone by then.
SavedIsFannedOut ==
    \A c \in Conns : \A n \in 1..Frames[c] :
        (pc[c] = "fanout" /\ sent[c] = n) ~> ([from |-> c, n |-> n] \in Elements(log))

\* A connection whose readPump has ended leaves nothing behind: the hub forgets
\* it, the socket is closed and its writePump returns.
TornDown ==
    \A c \in Conns :
        (pc[c] = "unregister") ~> (pc[c] = "done" /\ c \notin clients /\ writer[c] = "done")

\* "drop and disconnect": a slow client that has lost its place in the hub is
\* disconnected in the end, though the hub itself never touches the socket.
DroppedIsDisconnected ==
    \A c \in Conns : (pc[c] \notin {"new", "register"} /\ c \notin clients) ~> (sock[c] = "closed")

=============================================================================
