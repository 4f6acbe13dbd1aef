----------------------------- MODULE HubProofs ------------------------------
(***************************************************************************)
(* Proofs about module Hub, for any set of connections, any number of      *)
(* frames and any capacities: types, no panic, contiguous streams, the     *)
(* order of messages, the rows of the table, the close frame, and that the *)
(* hub implements ChannelBroadcast.                                        *)
(***************************************************************************)
EXTENDS Hub, SequenceTheorems, TLAPS

\* The message a handler is working on is a message, once it has read a frame.
LEMMA CurrentTyped ==
    ASSUME TypeOK, NEW c \in Conns, 0 < sent[c]
    PROVE  Current(c) \in Messages
  <1>1. sent[c] \in 1..Frames[c]
    BY HubAssumption DEF TypeOK, HandlerTypes
  <1>2. Current(c) \in [from: {c}, n: 1..Frames[c]]
    BY <1>1 DEF Current
  <1> QED BY <1>2 DEF Messages

\* A handler works on a message only after it has read one.
Working == \A c \in Conns : pc[c] \in {"save", "fanout", "publish"} => 0 < sent[c]

\* The first state is well formed.
LEMMA TypingInit == Init => TypeOK /\ Working
  <1> SUFFICES ASSUME Init PROVE TypeOK /\ Working
    OBVIOUS
  <1>1. <<>> \in Seq(Messages) /\ Len(<<>>) = 0
    OBVIOUS
  <1>2. pc \in [Conns -> HandlerPoints] /\ sock \in [Conns -> SocketStates]
        /\ writer \in [Conns -> WriterPoints]
    BY DEF Init, HandlerPoints, SocketStates, WriterPoints
  <1>3. sent \in [Conns -> Nat] /\ \A c \in Conns : sent[c] <= Frames[c]
    BY HubAssumption DEF Init
  <1>4. \A c \in Conns : Len(send[c]) <= SendCap /\ Len(taken[c]) <= 1
    <2>1. \A c \in Conns : send[c] = <<>> /\ taken[c] = <<>>
      BY DEF Init
    <2>2. \A c \in Conns : Len(send[c]) = 0 /\ Len(taken[c]) = 0
      BY <2>1, <1>1, Zenon
    <2>3. 0 <= SendCap /\ 0 <= 1
      BY HubAssumption
    <2> QED
      BY <2>2, <2>3, Zenon
  <1>5. Len(broadcast) <= BroadcastCap
    BY <1>1, HubAssumption DEF Init
  <1> QED
    BY <1>1, <1>2, <1>3, <1>4, <1>5 DEF Init, TypeOK, HandlerTypes, HubTypes, SendTypes,
       PumpTypes, StoreTypes, Working

\* Every step of a goroutine keeps the state well formed.
LEMMA TypingStep == TypeOK /\ Working /\ [Next]_vars => TypeOK' /\ Working'
  <1> SUFFICES ASSUME TypeOK, Working, [Next]_vars PROVE TypeOK' /\ Working'
    OBVIOUS
  <1> USE DEF TypeOK
  <1>a. UNCHANGED handlerVars => HandlerTypes' /\ Working'
    BY DEF handlerVars, HandlerTypes, Working
  <1>b. UNCHANGED hubVars => HubTypes'
    BY DEF hubVars, HubTypes
  <1>c. UNCHANGED send => SendTypes'
    BY DEF SendTypes
  <1>d. UNCHANGED pumpVars => PumpTypes'
    BY DEF pumpVars, PumpTypes
  <1>e. UNCHANGED storeVars => StoreTypes'
    BY DEF storeVars, StoreTypes
  <1>1. ASSUME NEW c \in Conns, Accept(c) PROVE TypeOK' /\ Working'
    <2>1. HandlerTypes' /\ Working'
      BY <1>1 DEF Accept, Goto, HandlerTypes, HandlerPoints, SocketStates, Working
    <2>2. HubTypes'
      BY <1>1 DEF Accept, HubTypes
    <2> QED
      BY <1>1, <2>1, <2>2, <1>c, <1>d, <1>e DEF Accept
  <1>2. ASSUME NEW c \in Conns, Register(c) PROVE TypeOK' /\ Working'
    <2>1. HandlerTypes' /\ Working'
      BY <1>2 DEF Register, Goto, HandlerTypes, HandlerPoints, SocketStates, Working
    <2>2. HubTypes'
      BY <1>2 DEF Register, HubTypes
    <2> QED
      BY <1>2, <2>1, <2>2, <1>c, <1>d, <1>e DEF Register
  <1>3. ASSUME NEW c \in Conns, StartPumps(c) PROVE TypeOK' /\ Working'
    <2>1. HandlerTypes' /\ Working'
      BY <1>3 DEF StartPumps, Goto, HandlerTypes, HandlerPoints, SocketStates, Working
    <2>2. PumpTypes'
      BY <1>3 DEF StartPumps, PumpTypes, WriterPoints
    <2> QED
      BY <1>3, <2>1, <2>2, <1>b, <1>c, <1>e DEF StartPumps
  <1>4. ASSUME NEW c \in Conns, ReadFrame(c) PROVE TypeOK' /\ Working'
    <2>1. /\ sent' = [sent EXCEPT ![c] = sent[c] + 1]
          /\ sent[c] < Frames[c] /\ sent[c] \in Nat /\ Frames[c] \in Nat
      BY <1>4, HubAssumption DEF ReadFrame, HandlerTypes
    <2>2. HandlerTypes' /\ Working'
      BY <1>4, <2>1 DEF ReadFrame, Goto, HandlerTypes, HandlerPoints, Working
    <2> QED
      BY <1>4, <2>2, <1>b, <1>c, <1>d, <1>e DEF ReadFrame
  <1>5. ASSUME NEW c \in Conns, ReadEnds(c) PROVE TypeOK' /\ Working'
    <2>1. HandlerTypes' /\ Working'
      BY <1>5 DEF ReadEnds, Goto, HandlerTypes, HandlerPoints, SocketStates, Working
    <2> QED
      BY <1>5, <2>1, <1>b, <1>c, <1>d, <1>e DEF ReadEnds
  <1>6. ASSUME NEW c \in Conns, SaveMessage(c) PROVE TypeOK' /\ Working'
    <2>1. Current(c) \in Messages
      BY <1>6, CurrentTyped DEF SaveMessage, Working
    <2>2. HandlerTypes' /\ Working'
      BY <1>6 DEF SaveMessage, Goto, HandlerTypes, HandlerPoints, SocketStates, Working
    <2>3. StoreTypes'
      BY <1>6, <2>1 DEF SaveMessage, StoreTypes
    <2> QED
      BY <1>6, <2>1, <2>2, <2>3, <1>b, <1>c, <1>d DEF SaveMessage
  <1>7. ASSUME NEW c \in Conns, BroadcastEvent(c) PROVE TypeOK' /\ Working'
    <2>1. Current(c) \in Messages
      BY <1>7, CurrentTyped DEF BroadcastEvent, Working
    <2>2. HandlerTypes' /\ Working'
      BY <1>7 DEF BroadcastEvent, Goto, HandlerTypes, HandlerPoints, SocketStates, Working
    <2>3. broadcast' \in Seq(Messages) /\ Len(broadcast') <= BroadcastCap
      BY <1>7, <2>1, HubAssumption DEF BroadcastEvent, HubTypes
    <2>4. HubTypes'
      BY <1>7, <2>3 DEF BroadcastEvent, HubTypes
    <2> QED
      BY <1>7, <2>1, <2>2, <2>3, <2>4, <1>c, <1>d, <1>e DEF BroadcastEvent
  <1>8. ASSUME NEW c \in Conns, PublishToRedis(c) PROVE TypeOK' /\ Working'
    <2>1. Current(c) \in Messages
      BY <1>8, CurrentTyped DEF PublishToRedis, Working
    <2>2. HandlerTypes' /\ Working'
      BY <1>8 DEF PublishToRedis, Goto, HandlerTypes, HandlerPoints, SocketStates, Working
    <2>3. StoreTypes'
      BY <1>8, <2>1 DEF PublishToRedis, StoreTypes
    <2> QED
      BY <1>8, <2>1, <2>2, <2>3, <1>b, <1>c, <1>d DEF PublishToRedis
  <1>9. ASSUME NEW c \in Conns, Unregister(c) PROVE TypeOK' /\ Working'
    <2>1. HandlerTypes' /\ Working'
      BY <1>9 DEF Unregister, Goto, HandlerTypes, HandlerPoints, SocketStates, Working
    <2>2. HubTypes'
      BY <1>9 DEF Unregister, HubTypes
    <2> QED
      BY <1>9, <2>1, <2>2, <1>c, <1>d, <1>e DEF Unregister
  <1>10. ASSUME NEW c \in Conns, CloseConn(c) PROVE TypeOK' /\ Working'
    <2>1. HandlerTypes' /\ Working'
      BY <1>10 DEF CloseConn, Goto, HandlerTypes, HandlerPoints, SocketStates, Working
    <2> QED
      BY <1>10, <2>1, <1>b, <1>c, <1>d, <1>e DEF CloseConn
  <1>11. ASSUME NEW c \in Conns, TakeMessage(c) PROVE TypeOK' /\ Working'
    <2>1. /\ Head(send[c]) \in Messages
          /\ Tail(send[c]) \in Seq(Messages) /\ Len(Tail(send[c])) <= SendCap
      BY <1>11, HubAssumption DEF TakeMessage, SendTypes
    <2>2. SendTypes'
      BY <1>11, <2>1 DEF TakeMessage, SendTypes
    <2>3. <<Head(send[c])>> \in Seq(Messages) /\ Len(<<Head(send[c])>>) <= 1
      BY <2>1
    <2>4. PumpTypes'
      BY <1>11, <2>3 DEF TakeMessage, PumpTypes, WriterPoints
    <2> QED
      BY <1>11, <2>1, <2>2, <2>3, <2>4, <1>a, <1>b, <1>e DEF TakeMessage
  <1>12. ASSUME NEW c \in Conns, WriteMessage(c) PROVE TypeOK' /\ Working'
    <2>1. received[c] \o taken[c] \in Seq(Messages) /\ <<>> \in Seq(Messages) /\ Len(<<>>) <= 1
      BY ConcatProperties, EmptySeq DEF PumpTypes
    <2>2. PumpTypes'
      BY <1>12, <2>1 DEF WriteMessage, PumpTypes, WriterPoints
    <2> QED
      BY <1>12, <2>1, <2>2, <1>a, <1>b, <1>c, <1>e DEF WriteMessage
  <1>13. ASSUME NEW c \in Conns, WriteFails(c) PROVE TypeOK' /\ Working'
    <2>1. PumpTypes'
      BY <1>13 DEF WriteFails, PumpTypes, WriterPoints
    <2> QED
      BY <1>13, <2>1, <1>a, <1>b, <1>c, <1>e DEF WriteFails
  <1>14. ASSUME NEW c \in Conns, WriteClose(c) PROVE TypeOK' /\ Working'
    <2>1. HandlerTypes' /\ Working'
      BY <1>14 DEF WriteClose, HandlerTypes, SocketStates, Working
    <2>2. PumpTypes'
      BY <1>14 DEF WriteClose, PumpTypes, WriterPoints
    <2> QED
      BY <1>14, <2>1, <2>2, <1>b, <1>c, <1>e DEF WriteClose
  <1>15. CASE FanOut
    <2>1. /\ Head(broadcast) \in Messages
          /\ broadcast' \in Seq(Messages) /\ Len(broadcast') <= BroadcastCap
      BY <1>15, HubAssumption DEF FanOut, HubTypes
    <2>2. HubTypes'
      BY <1>15, <2>1 DEF FanOut, HubTypes
    <2>3. \A c \in Conns : /\ Offer(c, Head(broadcast)) \in Seq(Messages)
                           /\ Len(Offer(c, Head(broadcast))) <= SendCap
      BY <2>1, HubAssumption DEF SendTypes, Offer, HasRoom
    <2>4. SendTypes'
      BY <1>15, <2>3 DEF FanOut, SendTypes
    <2> QED
      BY <1>15, <2>2, <2>4, <1>a, <1>d, <1>e DEF FanOut
  <1>16. CASE Quiescent \/ UNCHANGED vars
    BY <1>16, <1>a, <1>b, <1>c, <1>d, <1>e DEF Quiescent, vars
  <1> QED
    BY <1>1, <1>2, <1>3, <1>4, <1>5, <1>6, <1>7, <1>8, <1>9, <1>10, <1>11, <1>12, <1>13,
       <1>14, <1>15, <1>16 DEF Next, Handler, WritePump

\* Type correctness: every variable stays in its type and neither kind of Go
\* channel ever holds more than its capacity.
THEOREM TypeCorrect == Spec => []TypeOK
  <1>1. Init => TypeOK /\ Working
    BY TypingInit
  <1>2. (TypeOK /\ Working) /\ [Next]_vars => (TypeOK /\ Working)'
    BY TypingStep
  <1> QED BY <1>1, <1>2, PTL DEF Spec

-----------------------------------------------------------------------------
(* The hub never panics                                                    *)

\* Why no send and no close meets a closed channel: the clients map holds only
\* open channels, and only those of connections between their registration and
\* their unregistration.
Registration ==
    /\ ~panicked
    /\ \A c \in clients : open[c]
    /\ \A c \in Conns : pc[c] \in {"new", "register", "close", "done"} => c \notin clients
    /\ \A c \in Conns : pc[c] = "register" => open[c]

\* Nobody is registered at first.
LEMMA RegistrationInit == Init => Registration
  BY DEF Init, Registration

\* No goroutine closes a send channel and leaves its client in the map.
LEMMA RegistrationStep == TypeOK /\ Registration /\ [Next]_vars => Registration'
  <1> SUFFICES ASSUME TypeOK, Registration, [Next]_vars PROVE Registration'
    OBVIOUS
  <1> USE DEF Registration, TypeOK, HandlerTypes, HubTypes, HandlerPoints, Goto, handlerVars,
          hubVars
  <1>1. ASSUME NEW c \in Conns, Accept(c) PROVE Registration'
    BY <1>1 DEF Accept
  <1>2. ASSUME NEW c \in Conns, Register(c) PROVE Registration'
    BY <1>2 DEF Register
  <1>3. ASSUME NEW c \in Conns, StartPumps(c) PROVE Registration'
    BY <1>3 DEF StartPumps
  <1>4. ASSUME NEW c \in Conns, ReadFrame(c) PROVE Registration'
    BY <1>4 DEF ReadFrame
  <1>5. ASSUME NEW c \in Conns, ReadEnds(c) PROVE Registration'
    BY <1>5 DEF ReadEnds
  <1>6. ASSUME NEW c \in Conns, SaveMessage(c) PROVE Registration'
    BY <1>6 DEF SaveMessage
  <1>7. ASSUME NEW c \in Conns, BroadcastEvent(c) PROVE Registration'
    BY <1>7 DEF BroadcastEvent
  <1>8. ASSUME NEW c \in Conns, PublishToRedis(c) PROVE Registration'
    BY <1>8 DEF PublishToRedis
  <1>9. ASSUME NEW c \in Conns, Unregister(c) PROVE Registration'
    BY <1>9 DEF Unregister
  <1>10. ASSUME NEW c \in Conns, CloseConn(c) PROVE Registration'
    BY <1>10 DEF CloseConn
  <1>11. ASSUME NEW c \in Conns, TakeMessage(c) PROVE Registration'
    BY <1>11 DEF TakeMessage
  <1>12. ASSUME NEW c \in Conns, WriteMessage(c) PROVE Registration'
    BY <1>12 DEF WriteMessage
  <1>13. ASSUME NEW c \in Conns, WriteFails(c) PROVE Registration'
    BY <1>13 DEF WriteFails
  <1>14. ASSUME NEW c \in Conns, WriteClose(c) PROVE Registration'
    BY <1>14 DEF WriteClose
  <1>15. CASE FanOut
    BY <1>15 DEF FanOut, Dropped
  <1>16. CASE Quiescent \/ UNCHANGED vars
    BY <1>16 DEF Quiescent, vars
  <1> QED
    BY <1>1, <1>2, <1>3, <1>4, <1>5, <1>6, <1>7, <1>8, <1>9, <1>10,
       <1>11, <1>12, <1>13, <1>14, <1>15, <1>16 DEF Next, Handler, WritePump

\* The service never panics on a channel of the hub: no message is sent to a
\* closed send channel and no send channel is closed twice, in whatever order a
\* slow client is dropped and its readPump ends.
THEOREM NeverPanics == Spec => []NoPanic
  <1>1. Init => TypeOK /\ Working /\ Registration
    BY TypingInit, RegistrationInit
  <1>2. (TypeOK /\ Working /\ Registration) /\ [Next]_vars
          => (TypeOK /\ Working /\ Registration)'
    BY TypingStep, RegistrationStep
  <1>3. Registration => NoPanic
    BY DEF Registration, NoPanic
  <1> QED BY <1>1, <1>2, <1>3, PTL DEF Spec

-----------------------------------------------------------------------------
(* The stream of a connection has no gap                                   *)

\* Appending to the last of three queues appends to the three in a row.
LEMMA AppendToLast ==
    ASSUME NEW S, NEW r \in Seq(S), NEW s \in Seq(S), NEW t \in Seq(S), NEW m \in S
    PROVE  r \o s \o Append(t, m) = Append(r \o s \o t, m)
  <1>1. r \o s \in Seq(S)
    BY ConcatProperties
  <1>2. Append(t, m) = t \o <<m>> /\ <<m>> \in Seq(S)
    BY AppendIsConcat
  <1>3. (r \o s) \o (t \o <<m>>) = ((r \o s) \o t) \o <<m>>
    BY <1>1, <1>2, ConcatAssociative
  <1>4. (r \o s) \o t \in Seq(S)
    BY <1>1, ConcatProperties
  <1>5. Append((r \o s) \o t, m) = ((r \o s) \o t) \o <<m>>
    BY <1>4, AppendIsConcat
  <1> QED BY <1>2, <1>3, <1>5

\* Moving the head of the last queue into the empty one before it keeps the row.
LEMMA MoveHead ==
    ASSUME NEW S, NEW r \in Seq(S), NEW t \in Seq(S), t # <<>>
    PROVE  r \o <<Head(t)>> \o Tail(t) = r \o <<>> \o t
  <1>1. Head(t) \in S /\ Tail(t) \in Seq(S) /\ <<Head(t)>> \in Seq(S)
    BY HeadTailProperties
  <1>2. (r \o <<Head(t)>>) \o Tail(t) = r \o (<<Head(t)>> \o Tail(t))
    BY <1>1, ConcatAssociative
  <1>3. <<Head(t)>> \o Tail(t) = t
    BY <1>1, SMT
  <1>4. r \o <<>> = r
    BY ConcatEmptySeq
  <1> QED BY <1>2, <1>3, <1>4

\* What has been put into c.send is a sequence of messages.
LEMMA AcceptedTyped ==
    ASSUME TypeOK, NEW c \in Conns PROVE Accepted(c) \in Seq(Messages)
  <1>1. received[c] \in Seq(Messages) /\ taken[c] \in Seq(Messages) /\ send[c] \in Seq(Messages)
    BY DEF TypeOK, SendTypes, PumpTypes
  <1>2. received[c] \o taken[c] \in Seq(Messages)
    BY <1>1, ConcatProperties
  <1> QED BY <1>1, <1>2, ConcatProperties DEF Accepted

\* What writePump has in hand, and what there is before it has started.
Pump ==
    \A c \in Conns :
        /\ writer[c] \in {"none", "wait"} => taken[c] = <<>>
        /\ pc[c] \in {"new", "register", "track"} => writer[c] = "none"
        /\ pc[c] \in {"new", "register"} => send[c] = <<>>
        /\ writer[c] = "none" => received[c] = <<>>

\* writePump has a message in hand only between its receive and its write.
LEMMA PumpStep == TypeOK /\ Registration /\ Pump /\ [Next]_vars => Pump'
  <1> SUFFICES ASSUME TypeOK, Registration, Pump, [Next]_vars PROVE Pump'
    OBVIOUS
  <1> USE DEF Pump, TypeOK, HandlerTypes, PumpTypes, HandlerPoints, WriterPoints, Goto,
          handlerVars, pumpVars
  <1>1. ASSUME NEW c \in Conns, Accept(c) PROVE Pump'
    BY <1>1 DEF Accept
  <1>2. ASSUME NEW c \in Conns, Register(c) PROVE Pump'
    BY <1>2 DEF Register
  <1>3. ASSUME NEW c \in Conns, StartPumps(c) PROVE Pump'
    BY <1>3 DEF StartPumps
  <1>4. ASSUME NEW c \in Conns, ReadFrame(c) PROVE Pump'
    BY <1>4 DEF ReadFrame
  <1>5. ASSUME NEW c \in Conns, ReadEnds(c) PROVE Pump'
    BY <1>5 DEF ReadEnds
  <1>6. ASSUME NEW c \in Conns, SaveMessage(c) PROVE Pump'
    BY <1>6 DEF SaveMessage
  <1>7. ASSUME NEW c \in Conns, BroadcastEvent(c) PROVE Pump'
    BY <1>7 DEF BroadcastEvent
  <1>8. ASSUME NEW c \in Conns, PublishToRedis(c) PROVE Pump'
    BY <1>8 DEF PublishToRedis
  <1>9. ASSUME NEW c \in Conns, Unregister(c) PROVE Pump'
    BY <1>9 DEF Unregister
  <1>10. ASSUME NEW c \in Conns, CloseConn(c) PROVE Pump'
    BY <1>10 DEF CloseConn
  <1>11. ASSUME NEW c \in Conns, TakeMessage(c) PROVE Pump'
    BY <1>11 DEF TakeMessage
  <1>12. ASSUME NEW c \in Conns, WriteMessage(c) PROVE Pump'
    BY <1>12 DEF WriteMessage
  <1>13. ASSUME NEW c \in Conns, WriteFails(c) PROVE Pump'
    BY <1>13 DEF WriteFails
  <1>14. ASSUME NEW c \in Conns, WriteClose(c) PROVE Pump'
    BY <1>14 DEF WriteClose
  <1>15. CASE FanOut
    BY <1>15 DEF FanOut, Offer, Registration
  <1>16. CASE Quiescent \/ UNCHANGED vars
    BY <1>16 DEF Quiescent, vars
  <1> QED
    BY <1>1, <1>2, <1>3, <1>4, <1>5, <1>6, <1>7, <1>8, <1>9, <1>10,
       <1>11, <1>12, <1>13, <1>14, <1>15, <1>16 DEF Next, Handler, WritePump

\* a is the piece of b that follows its first f elements.
IsPiece(a, b, f) == f + Len(a) <= Len(b) /\ \A i \in 1..Len(a) : a[i] = b[f + i]

\* ContiguousStream, strengthened: a stream never runs ahead of the order.
Piece(c) ==
    /\ IsPiece(Accepted(c), log, first[c])
    /\ c \in clients => first[c] + Len(Accepted(c)) = Len(log)

Streams == \A c \in Conns : Piece(c)

\* A piece stays one when nothing it depends on changes, and c does not join.
LEMMA PieceKept ==
    ASSUME TypeOK, NEW c \in Conns, Piece(c),
           Accepted(c)' = Accepted(c), first'[c] = first[c], log' = log,
           c \in clients' => c \in clients
    PROVE  Piece(c)'
  BY DEF Piece, IsPiece

\* A piece of c's after the step is a piece of the new order.
LEMMA PieceNext ==
    ASSUME NEW c \in Conns, NEW a, NEW b, NEW f,
           Accepted(c)' = a, log' = b, first'[c] = f,
           IsPiece(a, b, f), c \in clients' => f + Len(a) = Len(b)
    PROVE  Piece(c)'
  BY DEF Piece, IsPiece

\* The steps of writePump only move messages along the row.
LEMMA AcceptedKept ==
    ASSUME TypeOK, Pump, NEW c \in Conns, NEW d \in Conns,
           TakeMessage(d) \/ WriteMessage(d) \/ WriteFails(d) \/ WriteClose(d)
    PROVE  Accepted(c)' = Accepted(c)
  <1>1. CASE TakeMessage(d)
    <2>1. CASE c = d
      <3>1. taken[c] = <<>> /\ received'[c] = received[c]
            /\ taken'[c] = <<Head(send[c])>> /\ send'[c] = Tail(send[c])
        BY <1>1, <2>1 DEF TakeMessage, Pump, TypeOK, SendTypes, PumpTypes
      <3>2. received[c] \in Seq(Messages) /\ send[c] \in Seq(Messages) /\ send[c] # <<>>
        BY <1>1, <2>1 DEF TakeMessage, TypeOK, SendTypes, PumpTypes
      <3> QED BY <3>1, <3>2, MoveHead DEF Accepted
    <2>2. CASE c # d
      BY <1>1, <2>2 DEF TakeMessage, TypeOK, SendTypes, PumpTypes, Accepted
    <2> QED BY <2>1, <2>2
  <1>2. CASE WriteMessage(d)
    <2>1. CASE c = d
      <3>1. received'[c] = received[c] \o taken[c] /\ taken'[c] = <<>> /\ send'[c] = send[c]
        BY <1>2, <2>1 DEF WriteMessage, TypeOK, PumpTypes
      <3>2. received[c] \o taken[c] \in Seq(Messages)
        BY ConcatProperties DEF TypeOK, PumpTypes
      <3>3. (received[c] \o taken[c]) \o <<>> = received[c] \o taken[c]
        BY <3>2, ConcatEmptySeq
      <3> QED BY <3>1, <3>3 DEF Accepted
    <2>2. CASE c # d
      BY <1>2, <2>2 DEF WriteMessage, TypeOK, PumpTypes, Accepted
    <2> QED BY <2>1, <2>2
  <1>3. CASE WriteFails(d) \/ WriteClose(d)
    BY <1>3 DEF WriteFails, WriteClose, Accepted
  <1> QED BY <1>1, <1>2, <1>3

\* Appending one message to a piece and to the order it ends at keeps it a piece.
LEMMA PieceExtended ==
    ASSUME NEW S, NEW a \in Seq(S), NEW b \in Seq(S), NEW m \in S, NEW f \in Nat,
           IsPiece(a, b, f), f + Len(a) = Len(b)
    PROVE  /\ IsPiece(Append(a, m), Append(b, m), f)
           /\ f + Len(Append(a, m)) = Len(Append(b, m))
  <1>1. /\ Len(Append(a, m)) = Len(a) + 1 /\ Len(Append(b, m)) = Len(b) + 1
        /\ Len(a) \in Nat /\ Len(b) \in Nat
    BY AppendProperties, LenProperties
  <1>2. ASSUME NEW i \in 1..Len(Append(a, m)) PROVE Append(a, m)[i] = Append(b, m)[f + i]
    <2>1. CASE i = Len(a) + 1
      BY <2>1, <1>1, AppendProperties
    <2>2. CASE i # Len(a) + 1
      <3>1. i \in 1..Len(a) /\ f + i \in 1..Len(b)
        BY <2>2, <1>1
      <3> QED BY <3>1, AppendProperties DEF IsPiece
    <2> QED BY <2>1, <2>2
  <1> QED BY <1>1, <1>2 DEF IsPiece

\* Appending to the order beyond a piece keeps it a piece.
LEMMA PieceBefore ==
    ASSUME NEW S, NEW a \in Seq(S), NEW b \in Seq(S), NEW m \in S, NEW f \in Nat,
           IsPiece(a, b, f)
    PROVE  IsPiece(a, Append(b, m), f)
  <1>1. Len(Append(b, m)) = Len(b) + 1 /\ Len(a) \in Nat /\ Len(b) \in Nat
    BY AppendProperties, LenProperties
  <1>2. \A i \in 1..Len(a) : f + i \in 1..Len(b)
    BY <1>1 DEF IsPiece
  <1> QED BY <1>1, <1>2, AppendProperties DEF IsPiece

\* A fan-out extends the order, and the row of every client with room, by the
\* same message.
LEMMA FanOutPieces ==
    ASSUME TypeOK, Registration, Streams, FanOut, NEW c \in Conns
    PROVE  Piece(c)'
  <1>1. PICK msg \in Messages : msg = Head(broadcast)
    BY HeadTailProperties DEF FanOut, TypeOK, HubTypes
  <1>2. log' = Append(log, msg) /\ log \in Seq(Messages)
    BY <1>1 DEF FanOut, TypeOK, HubTypes
  <1>3. Accepted(c) \in Seq(Messages)
    BY AcceptedTyped
  <1>4. first'[c] = first[c] /\ first[c] \in Nat /\ Piece(c)
    BY DEF FanOut, Streams, TypeOK, HubTypes
  <1>5. CASE c \in clients /\ HasRoom(c)
    <2>1. send'[c] = Append(send[c], msg) /\ received'[c] = received[c] /\ taken'[c] = taken[c]
      BY <1>1, <1>5 DEF FanOut, Offer, TypeOK, PumpTypes, pumpVars
    <2>2. received[c] \o taken[c] \o Append(send[c], msg) = Append(Accepted(c), msg)
      <3>1. received[c] \in Seq(Messages) /\ taken[c] \in Seq(Messages) /\ send[c] \in Seq(Messages)
        BY DEF TypeOK, SendTypes, PumpTypes
      <3>2. \A r, s, t \in Seq(Messages) : r \o s \o Append(t, msg) = Append(r \o s \o t, msg)
        BY AppendToLast
      <3> QED BY <3>1, <3>2 DEF Accepted
    <2>3. Accepted(c)' = Append(Accepted(c), msg)
      BY <2>1, <2>2 DEF Accepted
    <2>4. /\ IsPiece(Append(Accepted(c), msg), Append(log, msg), first[c])
          /\ first[c] + Len(Append(Accepted(c), msg)) = Len(Append(log, msg))
      BY <1>2, <1>3, <1>4, <1>5, PieceExtended DEF Piece
    <2> QED BY <2>3, <2>4, <1>2, <1>4, PieceNext
  <1>6. CASE ~(c \in clients /\ HasRoom(c))
    <2>1. Accepted(c)' = Accepted(c)
      BY <1>6 DEF FanOut, Offer, Accepted, TypeOK, PumpTypes, pumpVars
    <2>2. c \notin clients'
      BY <1>6 DEF FanOut, Dropped
    <2>3. IsPiece(Accepted(c), Append(log, msg), first[c])
      BY <1>2, <1>3, <1>4, PieceBefore DEF Piece
    <2> QED BY <2>1, <2>2, <2>3, <1>2, <1>4, PieceNext
  <1> QED BY <1>5, <1>6

\* Every step keeps every connection's row a piece of the order.
LEMMA StreamsStep ==
    TypeOK /\ Registration /\ Pump /\ Streams /\ [Next]_vars => Streams'
  <1> SUFFICES ASSUME TypeOK, Registration, Pump, Streams, [Next]_vars, NEW c \in Conns
               PROVE  Piece(c)'
    BY DEF Streams
  <1>0. Piece(c)
    BY DEF Streams
  <1>1. ASSUME NEW d \in Conns, Register(d) PROVE Piece(c)'
    <2>1. Accepted(c)' = Accepted(c) /\ log' = log
      BY <1>1 DEF Register, Accepted, pumpVars
    <2>2. CASE c = d
      <3>1. first'[c] = Len(log) /\ Len(log) \in Nat
        BY <1>1, <2>2, LenProperties DEF Register, TypeOK, HubTypes
      <3>2. received[c] = <<>> /\ taken[c] = <<>> /\ send[c] = <<>>
        BY <1>1, <2>2 DEF Register, Pump, TypeOK, PumpTypes
      <3>3. Len(Accepted(c)) = 0
        BY <3>2, ConcatEmptySeq, EmptySeq DEF Accepted
      <3> QED BY <2>1, <3>1, <3>3 DEF Piece, IsPiece
    <2>3. CASE c # d
      BY <1>0, <1>1, <2>1, <2>3, PieceKept DEF Register, TypeOK, PumpTypes
    <2> QED BY <2>2, <2>3
  <1>2. ASSUME NEW d \in Conns,
               \/ Accept(d) \/ StartPumps(d) \/ ReadFrame(d) \/ ReadEnds(d) \/ SaveMessage(d)
               \/ BroadcastEvent(d) \/ PublishToRedis(d) \/ Unregister(d) \/ CloseConn(d)
        PROVE  Piece(c)'
    <2>1. Accepted(c)' = Accepted(c) /\ first' = first /\ log' = log /\ clients' \subseteq clients
      BY <1>2 DEF Accept, StartPumps, ReadFrame, ReadEnds, SaveMessage, BroadcastEvent,
           PublishToRedis, Unregister, CloseConn, Accepted, pumpVars, hubVars
    <2> QED BY <2>1, <1>0, PieceKept
  <1>3. ASSUME NEW d \in Conns, WritePump(d) PROVE Piece(c)'
    <2>1. Accepted(c)' = Accepted(c)
      BY <1>3, AcceptedKept DEF WritePump
    <2>2. first' = first /\ log' = log /\ clients' = clients
      BY <1>3 DEF WritePump, TakeMessage, WriteMessage, WriteFails, WriteClose, hubVars
    <2> QED BY <2>1, <2>2, <1>0, PieceKept
  <1>4. CASE FanOut
    BY <1>4, FanOutPieces
  <1>5. CASE Quiescent \/ UNCHANGED vars
    <2>1. Accepted(c)' = Accepted(c) /\ first' = first /\ log' = log /\ clients' = clients
      BY <1>5 DEF Quiescent, vars, hubVars, pumpVars, Accepted
    <2> QED BY <2>1, <1>0, PieceKept
  <1> QED BY <1>1, <1>2, <1>3, <1>4, <1>5 DEF Next, Handler

\* The rows and the order are empty at first.
LEMMA StreamsInit == Init => Pump /\ Streams
  <1> SUFFICES ASSUME Init PROVE Pump /\ Streams
    OBVIOUS
  <1>1. Pump
    BY DEF Init, Pump
  <1>2. ASSUME NEW c \in Conns PROVE Piece(c)
    <2>1. received[c] = <<>> /\ taken[c] = <<>> /\ send[c] = <<>> /\ first[c] = 0 /\ log = <<>>
      BY DEF Init
    <2>2. Len(Accepted(c)) = 0 /\ Len(log) = 0
      BY <2>1, ConcatEmptySeq, EmptySeq DEF Accepted
    <2> QED BY <2>1, <2>2 DEF Piece, IsPiece
  <1> QED BY <1>1, <1>2 DEF Streams

\* What a connection is sent is, for ever, one contiguous piece of the channel's
\* order from its registration on; and a connection the hub still has as a
\* client has been sent, or has queued, everything up to the end of the order.
THEOREM StreamsAreContiguous == Spec => []ContiguousStream
  <1> DEFINE IInv == TypeOK /\ Working /\ Registration /\ Pump /\ Streams
  <1>1. Init => IInv
    BY TypingInit, RegistrationInit, StreamsInit
  <1>2. IInv /\ [Next]_vars => IInv'
    BY TypingStep, RegistrationStep, PumpStep, StreamsStep
  <1>3. IInv => ContiguousStream
    <2> SUFFICES ASSUME IInv, NEW c \in Conns
                 PROVE  /\ \A i \in 1..Len(Accepted(c)) : Accepted(c)[i] = log[first[c] + i]
                        /\ c \in clients => Len(Accepted(c)) = Len(log) - first[c]
      BY DEF ContiguousStream
    <2>1. Piece(c) /\ first[c] \in Nat /\ Len(log) \in Nat /\ Len(Accepted(c)) \in Nat
      BY AcceptedTyped, LenProperties DEF Streams, TypeOK, HubTypes
    <2> QED BY <2>1 DEF Piece, IsPiece
  <1> HIDE DEF IInv
  <1> QED BY <1>1, <1>2, <1>3, PTL DEF Spec

-----------------------------------------------------------------------------
(* The order of the messages                                               *)

\* The order as far as it is settled: fanned out, then queued in the hub.
Order == log \o broadcast

\* The saved messages whose handlers are about to hand them to the hub.
OnTheWay == {Current(c) : c \in {d \in Conns : pc[d] = "fanout"}}

\* In q the messages of one sender are in the order they were sent.
Sorted(q) ==
    \A i, j \in DOMAIN q : (i < j /\ q[i].from = q[j].from) => q[i].n < q[j].n

\* What a sender has placed is no newer than its latest frame, and older than the
\* one its handler is still working on.
Older(m) ==
    /\ m.n <= sent[m.from]
    /\ pc[m.from] \in {"save", "fanout"} => m.n < sent[m.from]

\* Whatever is in the order, or will never be, is older than what is to come, and
\* a handler publishes only what it has handed to the hub.
Aged ==
    /\ \A m \in Elements(Order) \cup orphans : m \in Messages /\ Older(m)
    /\ \A c \in Conns : pc[c] = "publish" => Current(c) \in Elements(Order)

-----------------------------------------------------------------------------
(* The order as a sequence                                                 *)

\* The order is a sequence of messages.
LEMMA OrderTyped == TypeOK => Order \in Seq(Messages)
  BY ConcatProperties DEF TypeOK, HubTypes, Order

\* A fan-out moves the border between fanned out and queued, not the order.
LEMMA OrderKept == ASSUME TypeOK, FanOut PROVE Order' = Order
  <1>1. /\ log \in Seq(Messages) /\ broadcast \in Seq(Messages) /\ broadcast # <<>>
        /\ log' = Append(log, Head(broadcast)) /\ broadcast' = Tail(broadcast)
    BY DEF TypeOK, HubTypes, FanOut
  <1>2. Head(broadcast) \in Messages /\ Tail(broadcast) \in Seq(Messages)
    BY <1>1, HeadTailProperties
  <1>3. <<Head(broadcast)>> \in Seq(Messages)
    BY <1>2
  <1>4. broadcast = <<Head(broadcast)>> \o Tail(broadcast)
    BY <1>1, <1>2
  <1>5. Append(log, Head(broadcast)) = log \o <<Head(broadcast)>>
    BY <1>1, <1>2, AppendIsConcat
  <1>6. (log \o <<Head(broadcast)>>) \o Tail(broadcast)
          = log \o (<<Head(broadcast)>> \o Tail(broadcast))
    BY <1>1, <1>2, <1>3, ConcatAssociative
  <1> QED BY <1>1, <1>4, <1>5, <1>6, Zenon DEF Order

\* A message handed to the hub enters the order at its end.
LEMMA OrderExtended ==
    ASSUME TypeOK, Working, NEW c \in Conns, BroadcastEvent(c)
    PROVE  Order' = Append(Order, Current(c)) /\ Current(c) \in Messages
  <1>1. /\ log \in Seq(Messages) /\ broadcast \in Seq(Messages) /\ Current(c) \in Messages
        /\ log' = log /\ broadcast' = Append(broadcast, Current(c))
    BY CurrentTyped DEF TypeOK, HubTypes, Working, BroadcastEvent
  <1>2. <<Current(c)>> \in Seq(Messages)
    BY <1>1
  <1>3. /\ Append(broadcast, Current(c)) = broadcast \o <<Current(c)>>
        /\ Append(Order, Current(c)) = Order \o <<Current(c)>>
    BY <1>1, AppendIsConcat, OrderTyped
  <1>4. (log \o broadcast) \o <<Current(c)>> = log \o (broadcast \o <<Current(c)>>)
    BY <1>1, <1>2, ConcatAssociative
  <1> QED BY <1>1, <1>3, <1>4, Zenon DEF Order

\* Appending adds one element.
LEMMA ElementsAppend ==
    ASSUME NEW S, NEW q \in Seq(S), NEW m \in S
    PROVE  Elements(Append(q, m)) = Elements(q) \cup {m}
  <1>1. /\ Append(q, m) \in Seq(S) /\ Len(Append(q, m)) = Len(q) + 1 /\ Len(q) \in Nat
        /\ \A i \in 1..Len(q) : Append(q, m)[i] = q[i]
        /\ Append(q, m)[Len(q) + 1] = m
    BY AppendProperties, LenProperties
  <1>2. DOMAIN q = 1..Len(q) /\ DOMAIN Append(q, m) = 1..(Len(q) + 1)
    BY <1>1, LenProperties
  <1> QED BY <1>1, <1>2 DEF Elements

\* ... and is then one of its elements.
LEMMA ElementsExtended ==
    ASSUME TypeOK, Working, NEW c \in Conns, BroadcastEvent(c)
    PROVE  Elements(Order)' = Elements(Order) \cup {Current(c)} /\ Current(c) \in Messages
  <1>1. Order \in Seq(Messages)
    BY OrderTyped
  <1>2. Order' = Append(Order, Current(c)) /\ Current(c) \in Messages
    BY OrderExtended
  <1>3. Elements(Append(Order, Current(c))) = Elements(Order) \cup {Current(c)}
    BY <1>1, <1>2, ElementsAppend
  <1>4. Elements(Order)' = Elements(Order')
    BY DEF Elements
  <1> QED BY <1>2, <1>3, <1>4, Zenon

\* Appending keeps a sorted queue sorted if the sender's earlier messages are older.
LEMMA SortedAppend ==
    ASSUME NEW S, NEW q \in Seq(S), NEW m \in S, Sorted(q),
           \A x \in Elements(q) : x.from = m.from => x.n < m.n
    PROVE  Sorted(Append(q, m))
  <1>1. /\ Len(q) \in Nat /\ \A i \in 1..Len(q) : Append(q, m)[i] = q[i]
        /\ Append(q, m)[Len(q) + 1] = m
    BY AppendProperties, LenProperties
  <1>2. DOMAIN q = 1..Len(q) /\ DOMAIN Append(q, m) = 1..(Len(q) + 1)
    BY AppendProperties, LenProperties
  <1> SUFFICES ASSUME NEW i \in 1..(Len(q) + 1), NEW j \in 1..(Len(q) + 1), i < j,
                      Append(q, m)[i].from = Append(q, m)[j].from
               PROVE  Append(q, m)[i].n < Append(q, m)[j].n
    BY <1>2 DEF Sorted
  <1>3. i \in 1..Len(q) /\ Append(q, m)[i] = q[i]
    BY <1>1
  <1>4. CASE j \in 1..Len(q)
    BY <1>1, <1>2, <1>3, <1>4 DEF Sorted
  <1>5. CASE j = Len(q) + 1
    <2>1. q[i] \in Elements(q)
      BY <1>2, <1>3 DEF Elements
    <2> QED BY <1>1, <1>3, <1>5, <2>1
  <1> QED BY <1>1, <1>4, <1>5

-----------------------------------------------------------------------------
(* What is placed is older                                                 *)

\* What a fresh step adds to the order or to the orphans is the sender's latest
\* frame, and only reading a frame makes a later one.
LEMMA AgedStep == TypeOK /\ Working /\ Aged /\ [Next]_vars => Aged'
  <1> SUFFICES ASSUME TypeOK, Working, Aged, [Next]_vars PROVE Aged'
    OBVIOUS
  <1>a. UNCHANGED <<log, broadcast>> => Elements(Order)' = Elements(Order)
    BY DEF Order, Elements
  <1>t. /\ pc \in [Conns -> HandlerPoints] /\ sent \in [Conns -> Nat]
        /\ \A m \in Messages : m.from \in Conns /\ m.n \in Nat
    BY HubAssumption DEF TypeOK, HandlerTypes, Messages
  <1>1. ASSUME NEW c \in Conns,
               \/ Accept(c) \/ Register(c) \/ StartPumps(c) \/ ReadEnds(c)
               \/ Unregister(c) \/ CloseConn(c) \/ PublishToRedis(c)
        PROVE  Aged'
    BY <1>1, <1>a, <1>t DEF Aged, Older, Current, Goto, hubVars, storeVars, Accept, Register,
       StartPumps, ReadEnds, Unregister, CloseConn, PublishToRedis
  <1>2. ASSUME NEW c \in Conns, WritePump(c) PROVE Aged'
    BY <1>2, <1>a DEF Aged, Older, Current, handlerVars, hubVars, storeVars, WritePump,
       TakeMessage, WriteMessage, WriteFails, WriteClose
  <1>3. ASSUME NEW c \in Conns, ReadFrame(c) PROVE Aged'
    BY <1>3, <1>a, <1>t DEF Aged, Older, Current, Goto, hubVars, storeVars, ReadFrame
  <1>4. ASSUME NEW c \in Conns, SaveMessage(c) PROVE Aged'
    <2>1. Current(c) \in Messages
      BY <1>4, CurrentTyped DEF SaveMessage, Working
    <2> QED
      BY <1>4, <2>1, <1>a, <1>t DEF Aged, Older, Current, Goto, hubVars, SaveMessage
  <1>5. ASSUME NEW c \in Conns, BroadcastEvent(c) PROVE Aged'
    <2>1. Elements(Order)' = Elements(Order) \cup {Current(c)} /\ Current(c) \in Messages
      BY <1>5, ElementsExtended
    <2> QED
      BY <1>5, <2>1, <1>t DEF Aged, Older, Current, Goto, storeVars, BroadcastEvent
  <1>6. CASE FanOut
    <2>1. Elements(Order)' = Elements(Order)
      BY <1>6, OrderKept
    <2> QED
      BY <1>6, <2>1 DEF Aged, Older, Current, handlerVars, storeVars, FanOut
  <1>7. CASE Quiescent \/ UNCHANGED vars
    BY <1>7, <1>a DEF Aged, Older, Current, Quiescent, vars, handlerVars, hubVars, storeVars
  <1> QED
    BY <1>1, <1>2, <1>3, <1>4, <1>5, <1>6, <1>7 DEF Next, Handler

\* Nothing is placed at first.
LEMMA AgedInit == Init => Aged /\ Sorted(Order) /\ Elements(Order) = {}
  <1> SUFFICES ASSUME Init PROVE Aged /\ Sorted(Order) /\ Elements(Order) = {}
    OBVIOUS
  <1>1. Order = <<>>
    BY ConcatEmptySeq, EmptySeq DEF Init, Order
  <1>2. DOMAIN Order = {}
    BY <1>1
  <1>3. Elements(Order) = {}
    BY <1>2 DEF Elements
  <1> QED BY <1>2, <1>3 DEF Init, Aged, Sorted

-----------------------------------------------------------------------------
(* The order of a sender                                                   *)

\* Only a handler that hands over a message changes the order, and what it hands
\* over is newer than what its connection has placed before.
LEMMA SortedStep ==
    TypeOK /\ Working /\ Aged /\ Sorted(Order) /\ [Next]_vars => Sorted(Order)'
  <1> SUFFICES ASSUME TypeOK, Working, Aged, Sorted(Order), [Next]_vars PROVE Sorted(Order)'
    OBVIOUS
  <1>1. ASSUME NEW c \in Conns, BroadcastEvent(c) PROVE Sorted(Order)'
    <2>1. \A x \in Elements(Order) : x.from = Current(c).from => x.n < Current(c).n
      BY <1>1 DEF Aged, Older, Current, BroadcastEvent
    <2> QED
      BY <1>1, <2>1, OrderTyped, OrderExtended, SortedAppend
  <1>2. CASE FanOut
    BY <1>2, OrderKept
  <1>3. ASSUME UNCHANGED <<log, broadcast>> PROVE Sorted(Order)'
    BY <1>3 DEF Order, Sorted
  <1> QED
    BY <1>1, <1>2, <1>3 DEF Next, Handler, WritePump, Quiescent, vars, hubVars, Accept, Register,
       StartPumps, ReadFrame, ReadEnds, SaveMessage, PublishToRedis, Unregister, CloseConn,
       TakeMessage, WriteMessage, WriteFails, WriteClose

\* The hub keeps the messages of every connection in the order they were sent,
\* each at most once, however many senders wait for room in the queue.
THEOREM SendersKeepOrder == Spec => []SenderOrder
  <1>1. Init => TypeOK /\ Working /\ Aged /\ Sorted(Order)
    BY TypingInit, AgedInit
  <1>2. (TypeOK /\ Working /\ Aged /\ Sorted(Order)) /\ [Next]_vars
          => (TypeOK /\ Working /\ Aged /\ Sorted(Order))'
    BY TypingStep, AgedStep, SortedStep
  <1>3. Sorted(Order) => SenderOrder
    BY DEF Sorted, Order, SenderOrder
  <1> QED BY <1>1, <1>2, <1>3, PTL DEF Spec

-----------------------------------------------------------------------------
(* Rows and messages                                                       *)

\* SavedAndBroadcast in the terms of this module.
Accounted ==
    /\ published \subseteq Elements(Order)
    /\ Elements(Order) \cap (orphans \cup OnTheWay) = {}
    /\ rows = Elements(Order) \cup orphans \cup OnTheWay

\* A handler that goes to the fan-out puts its message on the way.
LEMMA WayEntered ==
    ASSUME NEW c \in Conns, pc \in [Conns -> HandlerPoints], UNCHANGED sent, Goto(c, "fanout")
    PROVE  OnTheWay' = OnTheWay \cup {Current(c)}
  <1>1. \A d \in Conns : Current(d)' = Current(d)
    BY DEF Current
  <1>2. \A d \in Conns : pc'[d] = "fanout" <=> (d = c \/ pc[d] = "fanout")
    BY DEF Goto
  <1>3. OnTheWay' = {Current(d) : d \in {e \in Conns : e = c \/ pc[e] = "fanout"}}
    BY <1>1, <1>2 DEF OnTheWay
  <1> QED BY <1>3, Zenon DEF OnTheWay

\* A handler that leaves the fan-out takes its message, and no other, off the way.
LEMMA WayLeft ==
    ASSUME NEW c \in Conns, NEW point \in HandlerPoints \ {"fanout"},
           pc \in [Conns -> HandlerPoints], pc[c] = "fanout", UNCHANGED sent, Goto(c, point)
    PROVE  Current(c) \in OnTheWay /\ OnTheWay' = OnTheWay \ {Current(c)}
  <1>1. \A d \in Conns : Current(d)' = Current(d)
    BY DEF Current
  <1>2. \A d \in Conns : pc'[d] = "fanout" <=> (d # c /\ pc[d] = "fanout")
    BY DEF Goto
  <1>3. OnTheWay' = {Current(d) : d \in {e \in Conns : e # c /\ pc[e] = "fanout"}}
    BY <1>1, <1>2 DEF OnTheWay
  <1>4. \A d \in Conns : Current(d) = Current(c) => d = c
    BY DEF Current
  <1> QED BY <1>3, <1>4, Zenon DEF OnTheWay

\* A handler that goes elsewhere from elsewhere changes nothing on the way.
LEMMA WayKept ==
    ASSUME NEW c \in Conns, NEW point \in HandlerPoints \ {"fanout"},
           pc \in [Conns -> HandlerPoints], pc[c] # "fanout", UNCHANGED sent, Goto(c, point)
    PROVE  OnTheWay' = OnTheWay
  <1>1. \A d \in Conns : Current(d)' = Current(d)
    BY DEF Current
  <1>2. \A d \in Conns : pc'[d] = "fanout" <=> pc[d] = "fanout"
    BY DEF Goto
  <1> QED BY <1>1, <1>2 DEF OnTheWay

\* A row is inserted together with its being on the way or orphaned, and leaves
\* the way only into the order.
LEMMA AccountedStep ==
    TypeOK /\ Working /\ Aged /\ Accounted /\ [Next]_vars => Accounted'
  <1> SUFFICES ASSUME TypeOK, Working, Aged, Accounted, [Next]_vars PROVE Accounted'
    OBVIOUS
  <1>a. UNCHANGED <<log, broadcast>> => Elements(Order)' = Elements(Order)
    BY DEF Order, Elements
  <1>t. pc \in [Conns -> HandlerPoints] /\ sent \in [Conns -> Nat]
    BY DEF TypeOK, HandlerTypes
  <1>1. ASSUME NEW c \in Conns,
               \/ Accept(c) \/ Register(c) \/ StartPumps(c) \/ ReadFrame(c) \/ ReadEnds(c)
               \/ Unregister(c) \/ CloseConn(c)
        PROVE  Accounted'
    <2>1. OnTheWay' = OnTheWay
      BY <1>1, <1>t DEF OnTheWay, Current, Goto, Accept, Register, StartPumps, ReadFrame, ReadEnds,
         Unregister, CloseConn
    <2>2. Elements(Order)' = Elements(Order) /\ UNCHANGED <<rows, published, orphans>>
      BY <1>1, <1>a DEF hubVars, storeVars, Accept, Register, StartPumps, ReadFrame, ReadEnds,
         Unregister, CloseConn
    <2> QED BY <2>1, <2>2 DEF Accounted
  <1>2. ASSUME NEW c \in Conns, SaveMessage(c) PROVE Accounted'
    <2>1. Current(c) \notin Elements(Order)
      <3>1. pc[Current(c).from] = "save" /\ Current(c).n = sent[Current(c).from] /\ sent[c] \in Nat
        BY <1>2, <1>t DEF Current, SaveMessage
      <3>2. ~Older(Current(c))
        BY <3>1, <1>t DEF Older, Current
      <3> QED BY <3>2 DEF Aged
    <2>2. \/ OnTheWay' = OnTheWay \cup {Current(c)} /\ rows' = rows \cup {Current(c)}
             /\ orphans' = orphans
          \/ OnTheWay' = OnTheWay /\ rows' = rows /\ orphans' = orphans
          \/ /\ OnTheWay' = OnTheWay
             /\ rows' = rows \cup {Current(c)} /\ orphans' = orphans \cup {Current(c)}
      <3>1. pc[c] # "fanout" /\ UNCHANGED sent /\ "read" \in HandlerPoints \ {"fanout"}
        BY <1>2 DEF SaveMessage, HandlerPoints
      <3>2. Goto(c, "read") => OnTheWay' = OnTheWay
        BY <3>1, <1>t, WayKept
      <3>3. Goto(c, "fanout") => OnTheWay' = OnTheWay \cup {Current(c)}
        BY <3>1, <1>t, WayEntered
      <3> QED BY <1>2, <3>2, <3>3 DEF SaveMessage
    <2>3. Elements(Order)' = Elements(Order) /\ published' = published
      BY <1>2, <1>a DEF hubVars, SaveMessage
    <2> QED BY <2>1, <2>2, <2>3 DEF Accounted
  <1>3. ASSUME NEW c \in Conns, BroadcastEvent(c) PROVE Accounted'
    <2>1. Elements(Order)' = Elements(Order) \cup {Current(c)}
      BY <1>3, ElementsExtended
    <2>2. Current(c) \notin orphans
      <3>1. pc[Current(c).from] = "fanout" /\ Current(c).n = sent[Current(c).from] /\ sent[c] \in Nat
        BY <1>3, <1>t DEF Current, BroadcastEvent
      <3>2. ~Older(Current(c))
        BY <3>1, <1>t DEF Older, Current
      <3> QED BY <3>2 DEF Aged
    <2>3. Current(c) \in OnTheWay /\ OnTheWay' = OnTheWay \ {Current(c)}
      <3>1. /\ pc[c] = "fanout" /\ UNCHANGED sent /\ Goto(c, "publish")
            /\ "publish" \in HandlerPoints \ {"fanout"}
        BY <1>3 DEF BroadcastEvent, HandlerPoints
      <3> QED BY <3>1, <1>t, WayLeft
    <2>4. UNCHANGED <<rows, published, orphans>>
      BY <1>3 DEF BroadcastEvent, storeVars
    <2> QED BY <2>1, <2>2, <2>3, <2>4 DEF Accounted
  <1>4. ASSUME NEW c \in Conns, PublishToRedis(c) PROVE Accounted'
    <2>1. OnTheWay' = OnTheWay
      BY <1>4, <1>t DEF OnTheWay, Current, Goto, PublishToRedis
    <2>2. Elements(Order)' = Elements(Order)
      BY <1>4, <1>a DEF hubVars, PublishToRedis
    <2>3. Current(c) \in Elements(Order)
      BY <1>4 DEF Aged, PublishToRedis
    <2> QED BY <1>4, <2>1, <2>2, <2>3 DEF Accounted, PublishToRedis
  <1>5. CASE FanOut
    <2>1. Elements(Order)' = Elements(Order)
      BY <1>5, OrderKept
    <2>2. OnTheWay' = OnTheWay /\ UNCHANGED <<rows, published, orphans>>
      BY <1>5 DEF FanOut, OnTheWay, Current, handlerVars, storeVars
    <2> QED BY <2>1, <2>2 DEF Accounted
  <1>6. ASSUME UNCHANGED <<pc, sent, log, broadcast, rows, published, orphans>> PROVE Accounted'
    <2>1. OnTheWay' = OnTheWay
      BY <1>6 DEF OnTheWay, Current
    <2> QED BY <1>6, <1>a, <2>1 DEF Accounted
  <1> QED
    BY <1>1, <1>2, <1>3, <1>4, <1>5, <1>6 DEF Next, Handler, WritePump, Quiescent, vars,
       handlerVars, hubVars, storeVars, TakeMessage, WriteMessage, WriteFails, WriteClose

\* The table and the hub agree: only saved messages are fanned out or published,
\* and a saved message the hub never sees is one whose SaveMessage has failed.
THEOREM RowsAreAccountedFor == Spec => []SavedAndBroadcast
  <1>1. Init => TypeOK /\ Working /\ Aged /\ Accounted
    <2>1. Init => OnTheWay = {}
      BY DEF Init, OnTheWay
    <2> QED BY <2>1, TypingInit, AgedInit DEF Init, Accounted
  <1>2. (TypeOK /\ Working /\ Aged /\ Accounted) /\ [Next]_vars
          => (TypeOK /\ Working /\ Aged /\ Accounted)'
    BY TypingStep, AgedStep, AccountedStep
  <1>3. Accounted => SavedAndBroadcast
    BY DEF Accounted, Order, OnTheWay, SavedAndBroadcast
  <1> QED BY <1>1, <1>2, <1>3, PTL DEF Spec

-----------------------------------------------------------------------------
(* The close frame                                                         *)

\* writePump sends the close frame as its last act, when it has nothing in hand
\* and the closed channel is drained.
Closing ==
    \A c \in Conns : sock[c] = "closing" =>
        /\ writer[c] = "done" /\ ~open[c]
        /\ taken[c] = <<>> /\ send[c] = <<>>

\* Afterwards neither the hub, which has let go of the client, nor writePump,
\* which has returned, touches what belongs to the connection.
LEMMA ClosingStep == TypeOK /\ Registration /\ Pump /\ Closing /\ [Next]_vars => Closing'
  <1> SUFFICES ASSUME TypeOK, Registration, Pump, Closing, [Next]_vars,
                      NEW d \in Conns, sock'[d] = "closing"
               PROVE  /\ writer'[d] = "done" /\ ~open'[d]
                      /\ taken'[d] = <<>> /\ send'[d] = <<>>
    BY DEF Closing
  <1>t. /\ sock \in [Conns -> SocketStates] /\ open \in [Conns -> BOOLEAN]
        /\ writer \in [Conns -> WriterPoints] /\ taken \in [Conns -> Seq(Messages)]
        /\ send \in [Conns -> Seq(Messages)]
    BY DEF TypeOK, HandlerTypes, HubTypes, SendTypes, PumpTypes
  <1>1. ASSUME NEW c \in Conns,
               \/ Accept(c) \/ Register(c) \/ ReadFrame(c) \/ ReadEnds(c) \/ SaveMessage(c)
               \/ BroadcastEvent(c) \/ PublishToRedis(c) \/ Unregister(c) \/ CloseConn(c)
        PROVE  /\ writer'[d] = "done" /\ ~open'[d]
               /\ taken'[d] = <<>> /\ send'[d] = <<>>
    <2>1. UNCHANGED <<send, writer, taken>>
      BY <1>1 DEF pumpVars, Accept, Register, ReadFrame, ReadEnds, SaveMessage, BroadcastEvent,
         PublishToRedis, Unregister, CloseConn
    <2>2. sock[d] = "closing" /\ (~open[d] => ~open'[d])
      BY <1>1, <1>t DEF hubVars, Accept, Register, ReadFrame, ReadEnds, SaveMessage,
         BroadcastEvent, PublishToRedis, Unregister, CloseConn
    <2> QED BY <2>1, <2>2 DEF Closing
  <1>2. ASSUME NEW c \in Conns, StartPumps(c)
        PROVE  /\ writer'[d] = "done" /\ ~open'[d]
               /\ taken'[d] = <<>> /\ send'[d] = <<>>
    <2>1. writer[c] = "none" /\ UNCHANGED <<sock, open, taken, send>>
      BY <1>2 DEF Pump, StartPumps, hubVars
    <2>2. d # c
      BY <2>1 DEF Closing
    <2> QED BY <1>2, <1>t, <2>1, <2>2 DEF Closing, StartPumps
  <1>3. ASSUME NEW c \in Conns, TakeMessage(c) \/ WriteMessage(c) \/ WriteFails(c)
        PROVE  /\ writer'[d] = "done" /\ ~open'[d]
               /\ taken'[d] = <<>> /\ send'[d] = <<>>
    <2>1. writer[c] # "done" /\ UNCHANGED <<sock, open>>
      BY <1>3 DEF TakeMessage, WriteMessage, WriteFails, handlerVars, hubVars
    <2>2. d # c
      BY <2>1 DEF Closing
    <2> QED
      BY <1>3, <1>t, <2>1, <2>2 DEF Closing, TakeMessage, WriteMessage, WriteFails
  <1>4. ASSUME NEW c \in Conns, WriteClose(c)
        PROVE  /\ writer'[d] = "done" /\ ~open'[d]
               /\ taken'[d] = <<>> /\ send'[d] = <<>>
    <2>1. CASE d = c
      BY <1>4, <1>t, <2>1 DEF WriteClose, Pump, hubVars
    <2>2. CASE d # c
      BY <1>4, <1>t, <2>2 DEF WriteClose, Closing, hubVars
    <2> QED BY <2>1, <2>2
  <1>5. CASE FanOut
    <2>1. sock[d] = "closing" /\ UNCHANGED <<writer, taken>>
      BY <1>5 DEF FanOut, handlerVars, pumpVars
    <2>2. d \notin clients
      BY <2>1 DEF Registration, Closing
    <2> QED BY <1>5, <2>1, <2>2 DEF FanOut, Offer, Closing
  <1>6. CASE Quiescent \/ UNCHANGED vars
    BY <1>6 DEF Closing, Quiescent, vars, handlerVars, hubVars, pumpVars
  <1> QED
    BY <1>1, <1>2, <1>3, <1>4, <1>5, <1>6 DEF Next, Handler, WritePump

\* A peer that gets the close frame has got every message that was queued for it,
\* and the hub has forgotten it.
THEOREM NothingAfterClose == Spec => []CloseFrameIsLast
  <1> DEFINE Inv == TypeOK /\ Working /\ Registration /\ Pump /\ Closing
  <1>1. Init => Inv
    <2>1. Init => Closing
      BY DEF Init, Closing
    <2> QED BY <2>1, TypingInit, RegistrationInit, StreamsInit
  <1>2. Inv /\ [Next]_vars => Inv'
    BY TypingStep, RegistrationStep, PumpStep, ClosingStep
  <1>3. Inv => CloseFrameIsLast
    <2> SUFFICES ASSUME Inv, NEW c \in Conns, sock[c] = "closing"
                 PROVE  c \notin clients /\ ~open[c] /\ Accepted(c) = received[c]
      BY DEF CloseFrameIsLast
    <2>1. ~open[c] /\ taken[c] = <<>> /\ send[c] = <<>>
      BY DEF Closing
    <2>2. c \notin clients
      BY <2>1 DEF Registration
    <2>3. received[c] \in Seq(Messages)
      BY DEF TypeOK, PumpTypes
    <2>4. (received[c] \o <<>>) \o <<>> = received[c]
      BY <2>3, ConcatEmptySeq
    <2> QED BY <2>1, <2>2, <2>4, Zenon DEF Accepted
  <1> HIDE DEF Inv
  <1> QED BY <1>1, <1>2, <1>3, PTL DEF Spec

-----------------------------------------------------------------------------
(* The hub implements the channel's promise                                *)

\* The connections that have joined, and where the entitlement of each ends, in
\* the terms of this module: the refinement mapping of Abstract.
Joined == {c \in Conns : pc[c] \notin {"new", "register"}}
Last == [c \in Conns |-> first[c] + Len(Accepted(c))]

\* While writePump writes it has exactly one message in hand.
InHand == \A c \in Conns : writer[c] = "write" => Len(taken[c]) = 1

\* writePump takes one message at a time and lets go of it when it is written.
LEMMA InHandStep == TypeOK /\ InHand /\ [Next]_vars => InHand'
  <1> SUFFICES ASSUME TypeOK, InHand, [Next]_vars PROVE InHand'
    OBVIOUS
  <1>t. writer \in [Conns -> WriterPoints] /\ taken \in [Conns -> Seq(Messages)]
    BY DEF TypeOK, PumpTypes
  <1>1. ASSUME UNCHANGED <<writer, taken>> PROVE InHand'
    BY <1>1 DEF InHand
  <1>2. ASSUME NEW c \in Conns, TakeMessage(c) PROVE InHand'
    BY <1>2, <1>t DEF InHand, TakeMessage
  <1>3. ASSUME NEW c \in Conns, StartPumps(c) PROVE InHand'
    BY <1>3, <1>t DEF InHand, StartPumps
  <1>4. ASSUME NEW c \in Conns, WriteMessage(c) \/ WriteFails(c) \/ WriteClose(c) PROVE InHand'
    BY <1>4, <1>t DEF InHand, WriteMessage, WriteFails, WriteClose
  <1> QED
    BY <1>1, <1>2, <1>3, <1>4 DEF Next, Handler, WritePump, Quiescent, vars, pumpVars, Accept,
       Register, ReadFrame, ReadEnds, SaveMessage, BroadcastEvent, PublishToRedis, Unregister,
       CloseConn, FanOut

\* The message in hand is the one that follows what the peer has.
LEMMA HandFollows ==
    ASSUME TypeOK, NEW c \in Conns, Len(taken[c]) = 1
    PROVE  /\ Len(received[c]) + 1 \in 1..Len(Accepted(c))
           /\ Accepted(c)[Len(received[c]) + 1] = taken[c][1]
           /\ received[c] \o taken[c] = Append(received[c], taken[c][1])
  <1>1. /\ received[c] \in Seq(Messages) /\ taken[c] \in Seq(Messages)
        /\ send[c] \in Seq(Messages)
    BY DEF TypeOK, SendTypes, PumpTypes
  <1>2. Len(received[c]) \in Nat /\ Len(send[c]) \in Nat
    BY <1>1, LenProperties
  <1>3. /\ received[c] \o taken[c] \in Seq(Messages)
        /\ Len(received[c] \o taken[c]) = Len(received[c]) + 1
        /\ (received[c] \o taken[c])[Len(received[c]) + 1] = taken[c][1]
    <2> DEFINE row == received[c] \o taken[c]
    <2>1. \A i \in 1..Len(received[c]) + Len(taken[c]) : row[i]
             = IF i <= Len(received[c]) THEN received[c][i] ELSE taken[c][i - Len(received[c])]
      BY <1>1, ConcatProperties, Zenon
    <2>2. Len(row) = Len(received[c]) + Len(taken[c]) /\ row \in Seq(Messages)
      BY <1>1, ConcatProperties, Zenon
    <2> HIDE DEF row
    <2>3. Len(row) = Len(received[c]) + 1 /\ row[Len(received[c]) + 1] = taken[c][1]
      BY <1>2, <2>1, <2>2
    <2> QED BY <2>2, <2>3 DEF row
  <1>4. /\ Len(Accepted(c)) = Len(received[c]) + 1 + Len(send[c])
        /\ Accepted(c)[Len(received[c]) + 1] = taken[c][1]
    <2> DEFINE inFront == received[c] \o taken[c]
    <2>1. inFront \in Seq(Messages)
      BY <1>3
    <2>2. \A i \in 1..Len(inFront) + Len(send[c]) : (inFront \o send[c])[i]
             = IF i <= Len(inFront) THEN inFront[i] ELSE send[c][i - Len(inFront)]
      BY <1>1, <2>1, ConcatProperties, Zenon
    <2>3. Len(inFront \o send[c]) = Len(inFront) + Len(send[c])
      BY <1>1, <2>1, ConcatProperties, Zenon
    <2>4. Len(inFront) = Len(received[c]) + 1 /\ inFront[Len(received[c]) + 1] = taken[c][1]
      BY <1>3
    <2> HIDE DEF inFront
    <2>5. /\ Len(inFront \o send[c]) = Len(received[c]) + 1 + Len(send[c])
          /\ (inFront \o send[c])[Len(received[c]) + 1] = taken[c][1]
      BY <1>2, <2>2, <2>3, <2>4
    <2> QED BY <2>5 DEF Accepted, inFront
  <1>5. taken[c] = <<taken[c][1]>> /\ taken[c][1] \in Messages
    <2>1. 1 \in 1..Len(taken[c])
      OBVIOUS
    <2>2. taken[c][1] \in Messages
      BY <1>1, <2>1, ElementOfSeq
    <2>3. <<taken[c][1]>> \in Seq(Messages) /\ Len(<<taken[c][1]>>) = 1
      BY <2>2
    <2>4. \A i \in 1..Len(taken[c]) : taken[c][i] = <<taken[c][1]>>[i]
      OBVIOUS
    <2>5. taken[c] = <<taken[c][1]>>
      BY <1>1, <2>3, <2>4, SeqEqual, Zenon
    <2> QED BY <2>2, <2>5
  <1>6. received[c] \o <<taken[c][1]>> = Append(received[c], taken[c][1])
    BY <1>1, <1>5, AppendIsConcat
  <1>7. received[c] \o taken[c] = Append(received[c], taken[c][1])
    BY <1>5, <1>6, Zenon
  <1>8. Len(received[c]) + 1 \in 1..Len(Accepted(c))
    <2>1. Len(Accepted(c)) \in Nat
      BY AcceptedTyped, LenProperties
    <2>2. \A i, j, k \in Nat : k = i + 1 + j => i + 1 \in 1..k
      OBVIOUS
    <2> QED BY <1>2, <1>4, <2>1, <2>2, Zenon
  <1> QED BY <1>4, <1>7, <1>8, Zenon

\* Being registered is joining, at the end of the order.
LEMMA RegisterJoins ==
    ASSUME TypeOK, Pump, NEW c \in Conns, Register(c) PROVE Abstract!Join(c)
  <1>1. c \notin Joined /\ Joined' = Joined \cup {c}
    BY DEF Joined, Register, Goto, TypeOK, HandlerTypes
  <1>2. \A d \in Conns : Accepted(d)' = Accepted(d)
    BY DEF Register, Accepted, pumpVars
  <1>3. Len(Accepted(c)) = 0
    <2>1. received[c] = <<>> /\ taken[c] = <<>> /\ send[c] = <<>>
      BY DEF Register, Pump, TypeOK, PumpTypes
    <2> QED BY <2>1, ConcatEmptySeq, EmptySeq DEF Accepted
  <1>4. first' = [first EXCEPT ![c] = Len(log)] /\ first \in [Conns -> Nat] /\ Len(log) \in Nat
    BY LenProperties DEF Register, TypeOK, HubTypes
  <1>5. Last' = [Last EXCEPT ![c] = Len(log)]
    <2>1. \A d \in Conns : first'[d] + Len(Accepted(d)')
                             = IF d = c THEN Len(log) ELSE first[d] + Len(Accepted(d))
      BY <1>2, <1>3, <1>4
    <2> QED BY <2>1 DEF Last
  <1>6. clients' = clients \cup {c} /\ UNCHANGED <<log, received>>
    BY DEF Register, pumpVars
  <1> QED BY <1>1, <1>4, <1>5, <1>6 DEF Abstract!Join, Joined, Last

\* What the hub fans out is newer than what is in the order from the same sender.
LEMMA HeadIsNewer ==
    ASSUME TypeOK, Sorted(Order), broadcast # <<>>, NEW i \in 1..Len(log),
           log[i].from = Head(broadcast).from
    PROVE  log[i].n < Head(broadcast).n
  <1>1. log \in Seq(Messages) /\ broadcast \in Seq(Messages)
    BY DEF TypeOK, HubTypes
  <1>2. Len(log) \in Nat /\ Len(broadcast) \in Nat \ {0} /\ Head(broadcast) = broadcast[1]
    BY <1>1, LenProperties, EmptySeq
  <1>3. /\ Order \in Seq(Messages) /\ Len(Order) = Len(log) + Len(broadcast)
        /\ Order[i] = log[i] /\ Order[Len(log) + 1] = broadcast[1]
    BY <1>1, <1>2, ConcatProperties DEF Order
  <1>4. i \in DOMAIN Order /\ Len(log) + 1 \in DOMAIN Order /\ i < Len(log) + 1
    BY <1>2, <1>3, LenProperties
  <1> QED BY <1>2, <1>3, <1>4 DEF Sorted

\* A fan-out posts the head of the queue and cuts the slow clients off.
LEMMA FanOutPosts ==
    ASSUME TypeOK, Registration, Streams, Sorted(Order), FanOut
    PROVE  \E m \in Messages, cut \in SUBSET clients : Abstract!Post(m, cut)
  <1>1. /\ broadcast # <<>> /\ log' = Append(log, Head(broadcast))
        /\ clients' = clients \ Dropped
        /\ UNCHANGED <<pc, first, received, taken>>
    BY DEF FanOut, handlerVars, pumpVars
  <1>2. Head(broadcast) \in Messages /\ log \in Seq(Messages)
    BY <1>1, HeadTailProperties DEF TypeOK, HubTypes
  <1>3. \A i \in 1..Len(log) : log[i].from = Head(broadcast).from => log[i].n < Head(broadcast).n
    BY <1>1, HeadIsNewer
  <1>4. Last' = [c \in Conns |-> IF c \in clients \ Dropped THEN Len(log) + 1 ELSE Last[c]]
    <2>1. ASSUME NEW c \in clients \ Dropped
          PROVE  first'[c] + Len(Accepted(c)') = Len(log) + 1
      <3>1. c \in Conns /\ c \in clients'
        BY <1>1 DEF TypeOK, HubTypes
      <3>2. Piece(c)'
        BY <3>1, FanOutPieces
      <3>3. Len(log') = Len(log) + 1
        BY <1>1, <1>2, AppendProperties
      <3> QED BY <3>1, <3>2, <3>3 DEF Piece
    <2>2. ASSUME NEW c \in Conns, c \notin clients \ Dropped
          PROVE  first'[c] + Len(Accepted(c)') = first[c] + Len(Accepted(c))
      <3>1. ~(c \in clients /\ HasRoom(c))
        BY <2>2 DEF Dropped
      <3>2. send'[c] = send[c]
        BY <2>2, <3>1 DEF FanOut, Offer
      <3> QED BY <1>1, <3>2 DEF Accepted
    <2> QED BY <2>1, <2>2 DEF Last
  <1>5. Joined' = Joined
    BY <1>1 DEF Joined
  <1>6. Dropped \subseteq clients
    BY DEF Dropped
  <1>7. PICK m \in Messages, cut \in SUBSET clients : m = Head(broadcast) /\ cut = Dropped
    BY <1>2, <1>6
  <1>8. Abstract!Post(m, cut)
    BY <1>1, <1>3, <1>4, <1>5, <1>7 DEF Abstract!Post, Abstract!Newer, Joined, Last
  <1> QED BY <1>8

\* A write to the socket delivers the message that follows what the peer has.
LEMMA WriteDelivers ==
    ASSUME TypeOK, Pump, Streams, InHand, NEW c \in Conns, WriteMessage(c)
    PROVE  Abstract!Deliver(c)
  <1>1. /\ received' = [received EXCEPT ![c] = received[c] \o taken[c]]
        /\ UNCHANGED <<log, pc, clients, first>>
    BY DEF WriteMessage, handlerVars, hubVars
  <1>2. /\ Len(received[c]) + 1 \in 1..Len(Accepted(c))
        /\ Accepted(c)[Len(received[c]) + 1] = taken[c][1]
        /\ received[c] \o taken[c] = Append(received[c], taken[c][1])
    BY HandFollows DEF InHand, WriteMessage
  <1>3. Last' = Last
    BY <1>1, AcceptedKept DEF Last
  <1>4. /\ first[c] \in Nat /\ Len(received[c]) \in Nat /\ Len(Accepted(c)) \in Nat
    BY AcceptedTyped, LenProperties DEF TypeOK, HubTypes, PumpTypes
  <1>5. taken[c][1] = log[first[c] + Len(received[c]) + 1]
    <2>1. Accepted(c)[Len(received[c]) + 1] = log[first[c] + (Len(received[c]) + 1)]
      BY <1>2 DEF Streams, Piece, IsPiece
    <2>2. first[c] + (Len(received[c]) + 1) = first[c] + Len(received[c]) + 1
      BY <1>4
    <2> QED BY <1>2, <2>1, <2>2
  <1>6. first[c] + Len(received[c]) < Last[c]
    BY <1>2, <1>4 DEF Last
  <1>7. Joined' = Joined
    BY <1>1 DEF Joined
  <1> QED BY <1>1, <1>2, <1>3, <1>5, <1>6, <1>7 DEF Abstract!Deliver, Joined, Last

\* Where nothing enters or leaves a row, entitlements end where they did.
LEMMA LastKept ==
    ASSUME UNCHANGED <<first, send, taken, received>> PROVE Last' = Last
  BY DEF Last, Accepted

\* Being unregistered is leaving, or nothing when the hub has dropped the client.
LEMMA UnregisterLeaves ==
    ASSUME TypeOK, NEW c \in Conns, Unregister(c)
    PROVE  Abstract!Leave(c) \/ UNCHANGED Abstract!vars
  <1>1. /\ clients' = clients \ {c}
        /\ UNCHANGED <<log, first, send, taken, received>>
    BY DEF Unregister, pumpVars
  <1>2. Joined' = Joined
    BY DEF Joined, Unregister, Goto, TypeOK, HandlerTypes
  <1>3. Last' = Last
    BY <1>1, LastKept
  <1>4. CASE c \in clients
    BY <1>1, <1>2, <1>3, <1>4 DEF Abstract!Leave, Joined, Last
  <1>5. CASE c \notin clients
    BY <1>1, <1>2, <1>3, <1>5 DEF Abstract!vars, Joined, Last
  <1> QED BY <1>4, <1>5

\* The other steps are not seen from outside.
LEMMA OthersStutter ==
    ASSUME TypeOK, Pump, NEW c \in Conns,
           \/ Accept(c) \/ StartPumps(c) \/ ReadFrame(c) \/ ReadEnds(c) \/ SaveMessage(c)
           \/ BroadcastEvent(c) \/ PublishToRedis(c) \/ CloseConn(c)
           \/ TakeMessage(c) \/ WriteFails(c) \/ WriteClose(c)
    PROVE  UNCHANGED Abstract!vars
  <1>1. UNCHANGED <<log, clients, first, received>>
    BY DEF Accept, StartPumps, ReadFrame, ReadEnds, SaveMessage, BroadcastEvent, PublishToRedis,
       CloseConn, TakeMessage, WriteFails, WriteClose, hubVars, pumpVars
  <1>2. Joined' = Joined
    BY DEF Joined, Accept, StartPumps, ReadFrame, ReadEnds, SaveMessage, BroadcastEvent,
       PublishToRedis, CloseConn, TakeMessage, WriteFails, WriteClose, Goto, handlerVars, TypeOK,
       HandlerTypes
  <1>3. Last' = Last
    <2>1. CASE TakeMessage(c) \/ WriteFails(c) \/ WriteClose(c)
      BY <1>1, <2>1, AcceptedKept DEF Last
    <2>2. CASE ~(TakeMessage(c) \/ WriteFails(c) \/ WriteClose(c))
      <3>1. UNCHANGED <<first, send, taken, received>>
        BY <2>2 DEF Accept, StartPumps, ReadFrame, ReadEnds, SaveMessage, BroadcastEvent,
           PublishToRedis, CloseConn, hubVars, pumpVars
      <3> QED BY <3>1, LastKept
    <2> QED BY <2>1, <2>2
  <1> QED BY <1>1, <1>2, <1>3 DEF Abstract!vars, Joined, Last

\* The hub implements the channel's promise: whatever the goroutines do, the peers
\* see a channel with one order of messages, which each of them joins at its end
\* and is handed message by message, in that order and without a gap, until it
\* leaves or is cut off.
THEOREM ImplementsChannel == Spec => ImplementsBroadcast
  <1> DEFINE Inv == /\ TypeOK /\ Working /\ Registration /\ Pump /\ Streams
                    /\ Aged /\ Sorted(Order) /\ InHand
  <1>1. Init => Inv
    <2>1. Init => InHand
      BY DEF Init, InHand
    <2> QED BY <2>1, TypingInit, RegistrationInit, StreamsInit, AgedInit
  <1>2. Inv /\ [Next]_vars => Inv'
    BY TypingStep, RegistrationStep, PumpStep, StreamsStep, AgedStep, SortedStep, InHandStep
  <1>3. Init => Abstract!Init
    <2> SUFFICES ASSUME Init PROVE Abstract!Init
      OBVIOUS
    <2>1. Joined = {}
      BY DEF Init, Joined
    <2>2. \A c \in Conns : first[c] + Len(Accepted(c)) = 0
      <3>1. \A c \in Conns : received[c] = <<>> /\ taken[c] = <<>> /\ send[c] = <<>> /\ first[c] = 0
        BY DEF Init
      <3>2. \A c \in Conns : Len(Accepted(c)) = 0
        BY <3>1, ConcatEmptySeq, EmptySeq DEF Accepted
      <3>3. 0 + 0 = 0
        OBVIOUS
      <3> QED BY <3>1, <3>2, <3>3, Zenon
    <2>3. Last = [c \in Conns |-> 0]
      BY <2>2 DEF Last
    <2> QED BY <2>1, <2>3 DEF Init, Abstract!Init, Joined, Last
  <1>4. Inv /\ [Next]_vars => [Abstract!Next]_(Abstract!vars)
    <2> SUFFICES ASSUME Inv, [Next]_vars PROVE Abstract!Next \/ UNCHANGED Abstract!vars
      OBVIOUS
    <2>1. ASSUME NEW c \in Conns, Register(c) PROVE Abstract!Next
      BY <2>1, RegisterJoins DEF Abstract!Next
    <2>2. ASSUME NEW c \in Conns, WriteMessage(c) PROVE Abstract!Next
      BY <2>2, WriteDelivers DEF Abstract!Next
    <2>3. ASSUME NEW c \in Conns, Unregister(c) PROVE Abstract!Next \/ UNCHANGED Abstract!vars
      BY <2>3, UnregisterLeaves DEF Abstract!Next
    <2>4. CASE FanOut
      <3>1. \E m \in Messages, cut \in SUBSET clients : Abstract!Post(m, cut)
        BY <2>4, FanOutPosts
      <3> QED BY <3>1, Zenon DEF Abstract!Next
    <2>5. CASE Quiescent \/ UNCHANGED vars
      <3>1. UNCHANGED <<log, pc, clients, first, send, taken, received>>
        BY <2>5 DEF Quiescent, vars, handlerVars, hubVars, pumpVars
      <3>2. Last' = Last /\ Joined' = Joined
        BY <3>1, LastKept DEF Joined
      <3> QED BY <3>1, <3>2 DEF Abstract!vars, Joined, Last
    <2> HIDE DEF Inv
    <2> QED
      BY <2>1, <2>2, <2>3, <2>4, <2>5, OthersStutter DEF Inv, Next, Handler, WritePump
  <1> HIDE DEF Inv
  <1> QED BY <1>1, <1>2, <1>3, <1>4, PTL DEF Spec, ImplementsBroadcast, Abstract!Spec
=============================================================================
