-------------------------- MODULE ConversationView --------------------------
(***************************************************************************)
(* What one browser shows (MyChat.jsx): the messages of the channel or of  *)
(* the direct conversation the user has selected.  They come by three      *)
(* ways that nothing orders: the answer to a history request, the          *)
(* channel's WebSocket, and Socket.IO's events and acknowledgements.  The  *)
(* servers appear by what reaches the browser: a message is saved, then    *)
(* fanned out (Go) or emitted (Node), and published events pass the relay. *)
(***************************************************************************)
EXTENDS Naturals, Sequences, FiniteSets

CONSTANTS Channels, Peers,   \* the conversations: channels and DM partners
          None,              \* nothing is selected
          Limit,             \* how many messages a history answer holds
          MaxMessages,       \* bound: messages saved in a behaviour
          MaxSelections      \* bound: how often the user selects

Convs == Channels \cup Peers

ASSUME ViewAssumption ==
    /\ Channels \cap Peers = {} /\ None \notin Convs
    /\ Limit \in Nat \ {0} /\ MaxMessages \in Nat /\ MaxSelections \in Nat

VARIABLES
    stored,     \* the conversations' messages, in the order they were saved
    pending,    \* saved, not yet fanned out or emitted
    selected,   \* to or activeChannel
    view,       \* conversation: what is on the screen
    fetches,    \* the history requests, one per selection
    socket,     \* the WebSocket of the selected channel, and what it has in store
    events,     \* Socket.IO packets on their way to the browser
    \* history
    stray,      \* an answer for another conversation has been applied
    missed      \* messages whose way to the screen is known to have ended elsewhere

serverVars == <<stored, pending>>
vars == <<serverVars, selected, view, fetches, socket, events, stray, missed>>

Messages == 1..MaxMessages
Elements(s) == {s[i] : i \in DOMAIN s}
Count(s, m) == Cardinality({i \in DOMAIN s : s[i] = m})
ConvOf(m) == CHOOSE c \in Convs : m \in Elements(stored[c])

\* Who sent it: somebody else (or anybody, in a channel), or, for a direct message, this
\* user by the text box or by an upload.
Kinds == {"received", "text", "upload"}
Saved == [id : Messages, kind : Kinds]
Fetches == [conv : Convs, pc : {"asked", "answered", "done"}, rows : Seq(Messages)]
Sockets == [conv : Channels \cup {None}, pc : {"closed", "connecting", "open"},
            inbox : Seq(Messages)]
Events == [type : {"message_sent", "ack", "upload_ack", "channel_message"}, id : Messages]

TypeOK ==
    /\ stored \in [Convs -> Seq(Messages)]
    /\ pending \in SUBSET Saved
    /\ selected \in Convs \cup {None}
    /\ view \in Seq(Messages)
    /\ fetches \in Seq(Fetches) /\ Len(fetches) <= MaxSelections
    /\ socket \in Sockets
    /\ events \in Seq(Events)
    /\ stray \in BOOLEAN
    /\ missed \in SUBSET Messages

Closed == [conv |-> None, pc |-> "closed", inbox |-> <<>>]

Init ==
    /\ stored = [c \in Convs |-> <<>>] /\ pending = {}
    /\ selected = None /\ view = <<>> /\ fetches = <<>>
    /\ socket = Closed /\ events = <<>>
    /\ stray = FALSE /\ missed = {}

-----------------------------------------------------------------------------
(* The servers                                                             *)

Total == Cardinality(UNION {Elements(stored[c]) : c \in Convs})

\* A message of a conversation is written to Postgres or Mongo.  One's own
\* direct message goes to a conversation one has selected.
Save(c, kind) ==
    /\ Total < MaxMessages
    /\ kind # "received" => c \in Peers /\ \E f \in DOMAIN fetches : fetches[f].conv = c
    /\ stored' = [stored EXCEPT ![c] = Append(@, Total + 1)]
    /\ pending' = pending \cup {[id |-> Total + 1, kind |-> kind]}
    /\ UNCHANGED <<selected, view, fetches, socket, events, stray, missed>>

\* The hub fans a channel's message out to the open sockets, and publishes it;
\* the relay, if it is subscribed, emits it to every browser.
FanOut(s) ==
    /\ s \in pending /\ ConvOf(s.id) \in Channels
    /\ pending' = pending \ {s}
    /\ LET reached == socket.pc = "open" /\ socket.conv = ConvOf(s.id)
       IN /\ socket' = IF reached THEN [socket EXCEPT !.inbox = Append(@, s.id)] ELSE socket
          /\ missed' = IF reached THEN missed ELSE missed \cup {s.id}
    /\ \/ events' = Append(events, [type |-> "channel_message", id |-> s.id])
       \/ UNCHANGED events
    /\ UNCHANGED <<stored, selected, view, fetches, stray>>

\* The acknowledgement of a message this user sent, by the callback that takes it.
AckOf(s) ==
    CASE s.kind = "text"   -> <<[type |-> "ack", id |-> s.id]>>
      [] s.kind = "upload" -> <<[type |-> "upload_ack", id |-> s.id]>>
      [] OTHER             -> <<>>

\* send_message emits a direct message to the sockets it finds for recipient and
\* sender, and acknowledges it to the sender.  Where no socket was found for this
\* browser, only the callback of a text can still show the message.
EmitDirect(s) ==
    /\ s \in pending /\ ConvOf(s.id) \in Peers
    /\ pending' = pending \ {s}
    /\ \/ /\ events' = events \o <<[type |-> "message_sent", id |-> s.id]>> \o AckOf(s)
          /\ UNCHANGED missed
       \/ /\ events' = events \o AckOf(s)
          /\ missed' = IF s.kind = "text" THEN missed ELSE missed \cup {s.id}
    /\ UNCHANGED <<stored, selected, view, fetches, socket, stray>>

\* The server answers with an error although the row is there, or dies, after the save
\* and before the message has gone anywhere.
NeverSent(s) ==
    /\ s \in pending
    /\ pending' = pending \ {s}
    /\ missed' = missed \cup {s.id}
    /\ UNCHANGED <<stored, selected, view, fetches, socket, events, stray>>

Shorter(m, n) == IF m < n THEN m ELSE n
FirstOf(s) == SubSeq(s, 1, Shorter(Limit, Len(s)))
LastOf(s) == SubSeq(s, Len(s) - Shorter(Limit, Len(s)) + 1, Len(s))

\* GetMessages orders a channel's rows by created_at and takes the first ones.
GetMessages(c) == FirstOf(stored[c])

\* getDirectMessages orders them the other way round, and reverses the answer.
GetDirectMessages(c) == LastOf(stored[c])

History(c) == IF c \in Channels THEN GetMessages(c) ELSE GetDirectMessages(c)

\* Mutant: a request that failed is neither under way nor over.
AnswerHistoryHangs(f) ==
    /\ fetches[f].pc = "asked"
    /\ \/ fetches' = [fetches EXCEPT ![f].pc = "answered", ![f].rows = History(fetches[f].conv)]
       \/ fetches' = [fetches EXCEPT ![f].pc = "error"]
    /\ UNCHANGED <<serverVars, selected, view, socket, events, stray, missed>>

\* The server answers a history request (or it fails, and is only logged).
AnswerHistory(f) ==
    /\ fetches[f].pc = "asked"
    /\ \/ /\ fetches' = [fetches EXCEPT ![f].pc = "answered", ![f].rows = History(fetches[f].conv)]
          /\ UNCHANGED missed
       \/ /\ fetches' = [fetches EXCEPT ![f].pc = "done"]
          /\ missed' = missed \cup Elements(stored[fetches[f].conv])
    /\ UNCHANGED <<serverVars, selected, view, socket, events, stray>>

-----------------------------------------------------------------------------
(* The browser                                                             *)

\* A conversation is selected: the view is wiped, the old socket closed, history
\* asked for.
Select(c) ==
    /\ c # selected /\ Len(fetches) < MaxSelections
    /\ selected' = c
    /\ view' = <<>>
    /\ fetches' = Append(fetches, [conv |-> c, pc |-> "asked", rows |-> <<>>])
    /\ stray' = FALSE /\ missed' = {}
    /\ UNCHANGED <<serverVars, events>>

\* Mutant: the channel's socket is left open.
SelectDirectKeepingSocket(p) ==
    /\ Select(p)
    /\ UNCHANGED socket

\* The effect of `to': a direct conversation has no socket of its own.
SelectDirect(p) ==
    /\ Select(p)
    /\ socket' = Closed

\* The effect of `activeChannel': a new socket for the channel.
SelectChannel(c) ==
    /\ Select(c)
    /\ socket' = [conv |-> c, pc |-> "connecting", inbox |-> <<>>]

OpenSocket ==
    /\ socket.pc = "connecting"
    /\ socket' = [socket EXCEPT !.pc = "open"]
    /\ UNCHANGED <<serverVars, selected, view, fetches, events, stray, missed>>

\* The socket breaks; nothing connects it again before the next selection.
DropSocket ==
    /\ socket.pc # "closed"
    /\ socket' = Closed
    /\ missed' = missed \cup Elements(socket.inbox)
    /\ UNCHANGED <<serverVars, selected, view, fetches, events, stray>>

\* The Socket.IO connection breaks: what was under way is lost.
DropEvents ==
    /\ events # <<>>
    /\ events' = <<>>
    /\ missed' = missed \cup {events[i].id : i \in DOMAIN events}
    /\ UNCHANGED <<serverVars, selected, view, fetches, socket, stray>>

\* The answer to a history request replaces what is shown, whatever is selected
\* by now and whatever has arrived meanwhile.
ApplyHistory(f) ==
    /\ fetches[f].pc = "answered"
    /\ view' = fetches[f].rows
    /\ fetches' = [fetches EXCEPT ![f].pc = "done"]
    /\ stray' = (stray \/ fetches[f].conv # selected)
    /\ missed' = missed \cup (Elements(view) \ Elements(view'))
    /\ UNCHANGED <<serverVars, selected, socket, events>>

\* ws.onmessage appends, without a look at what is there.
OnMessage ==
    /\ socket.inbox # <<>>
    /\ view' = Append(view, Head(socket.inbox))
    /\ socket' = [socket EXCEPT !.inbox = Tail(@)]
    /\ UNCHANGED <<serverVars, selected, fetches, events, stray, missed>>

\* Mutant: the callback of an emit trusts that the message is new.
AppendBlindly(s, m) == Append(s, m)

AppendUnique(s, m) == IF m \in Elements(s) THEN s ELSE Append(s, m)

Arrives(type) == events # <<>> /\ Head(events).type = type
Arrived == Head(events).id

\* Mutant: the listener sees the selection of an earlier rendering.
HandleNewMessageStale ==
    /\ Arrives("message_sent")
    /\ events' = Tail(events)
    /\ view' = IF fetches # <<>> /\ ConvOf(Arrived) = fetches[1].conv
               THEN AppendUnique(view, Arrived) ELSE view
    /\ UNCHANGED <<serverVars, selected, fetches, socket, stray, missed>>

\* The listener of message_sent takes what belongs to the selected conversation.
HandleNewMessage ==
    /\ Arrives("message_sent")
    /\ events' = Tail(events)
    /\ view' = IF ConvOf(Arrived) = selected THEN AppendUnique(view, Arrived) ELSE view
    /\ UNCHANGED <<serverVars, selected, fetches, socket, stray, missed>>

\* The callback of a text's emit appends whatever is selected by now.
HandleAck ==
    /\ Arrives("ack")
    /\ events' = Tail(events)
    /\ view' = AppendUnique(view, Arrived)
    /\ stray' = (stray \/ ConvOf(Arrived) # selected)
    /\ UNCHANGED <<serverVars, selected, fetches, socket, missed>>

\* The callback of an upload's emit looks at an error only.
HandleUploadAck ==
    /\ Arrives("upload_ack")
    /\ events' = Tail(events)
    /\ UNCHANGED <<serverVars, selected, view, fetches, socket, stray, missed>>

\* Mutant: a relayed channel message is shown as well.
HandleChannelMessageShown ==
    /\ Arrives("channel_message")
    /\ events' = Tail(events)
    /\ view' = IF ConvOf(Arrived) = selected THEN Append(view, Arrived) ELSE view
    /\ UNCHANGED <<serverVars, selected, fetches, socket, stray, missed>>

\* The listener of relayed channel messages does nothing.
HandleChannelMessage ==
    /\ Arrives("channel_message")
    /\ events' = Tail(events)
    /\ UNCHANGED <<serverVars, selected, view, fetches, socket, stray, missed>>

-----------------------------------------------------------------------------

Next ==
    \/ \E c \in Convs, kind \in Kinds : Save(c, kind)
    \/ \E s \in pending : FanOut(s) \/ EmitDirect(s) \/ NeverSent(s)
    \/ \E f \in DOMAIN fetches : AnswerHistory(f) \/ ApplyHistory(f)
    \/ \E p \in Peers : SelectDirect(p)
    \/ \E c \in Channels : SelectChannel(c)
    \/ OpenSocket \/ DropSocket \/ DropEvents
    \/ OnMessage \/ HandleNewMessage
    \/ HandleAck \/ HandleUploadAck \/ HandleChannelMessage

Spec == Init /\ [][Next]_vars

-----------------------------------------------------------------------------

\* What is shown belongs to the selection, unless an answer for another
\* conversation came late: a history answer, or the callback of a message sent
\* there.  Live messages never go astray, however quickly the user switches.
StrayOnlyByLateAnswer ==
    ~stray => \A m \in Elements(view) : ConvOf(m) = selected

\* A direct message is shown once, though history, event and callback may all
\* bring it; a channel message at most twice, when it is in the history and comes
\* over the socket too.
ShownOnce ==
    \A m \in Elements(view) : Count(view, m) <= IF ConvOf(m) \in Peers THEN 1 ELSE 2

\* Nothing of the selected conversation is under way to the browser.
Settled ==
    /\ events = <<>> /\ socket.inbox = <<>> /\ pending = {}
    /\ \A f \in DOMAIN fetches : fetches[f].pc = "done"

\* When all is quiet, a message of the selected conversation that its history answer
\* would hold is on the screen, unless one of these kept it away: the server never sent
\* it (an error after the insert, a crash); it went to a socket not yet open, or broken
\* since; no socket of this browser was found for a direct message (other than a text of
\* the user's own, which its callback shows); a history answer older than it overwrote
\* it; the history request failed.
MissedForAReason ==
    selected # None /\ ~stray /\ Settled =>
        \A m \in Elements(stored[selected]) :
            m \in Elements(view) \cup missed \/ m \notin Elements(History(selected))

\* GetMessages "retrieves the last `limit` messages for a channel, ordered ASC"
\* (repository.go).
HistoryIsLatest == \A c \in Channels : GetMessages(c) = LastOf(stored[c])

=============================================================================
