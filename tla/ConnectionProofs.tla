-------------------------- MODULE ConnectionProofs --------------------------
(***************************************************************************)
(* For every MSS, send buffer, set of sizes and bounds: a connection's     *)
(* output is the accepted stream, in order and without loss, and closing   *)
(* it gracefully delivers all of it.                                       *)
(***************************************************************************)
EXTENDS Connection, WebClientProofs

-----------------------------------------------------------------------------
\* What a callback into the application leaves behind.
LEMMA AnswersSound ==
    ASSUME Sound(client), Open, NEW wok \in BOOLEAN, NEW c \in Answers(wok)
    PROVE  Sound(c) /\ Moves(client, c) /\ c.live = "open"
<1>1. Moves(client, client)
  BY DEF Moves, Sound, Client, Open
<1>2. \A n \in Sizes : LET d == SendBuffer(client, n, wok)
                      IN  Sound(d) /\ Moves(client, d) /\ d.live = "open"
  BY SendSound, SizesAssumption DEF Open
<1> QED
  BY <1>1, <1>2 DEF Answers, Open

-----------------------------------------------------------------------------
(* The inductive invariant                                                  *)

IInv == /\ Sound(client)
        /\ closeFrames \in Nat
        /\ closeFrames <= 1
        /\ client.ws_close_sent \/ closeFrames = 0

\* How an action may change the stream of an open client.
Progress(c, d) ==
    /\ d.live \in {"open", "closed"}
    /\ d.queued >= c.queued
    /\ c.closed => d.closed /\ d.queued = c.queued
    /\ Len(d.wire) >= Len(c.wire)
    /\ d.acked >= c.acked /\ d.acked <= Len(c.wire)

Lost(c, d) == /\ d.live = "lost"
              /\ d.wire = c.wire /\ d.queued = c.queued /\ d.acked = c.acked

\* A step that moves a client forward is a step the stream may take.
LEMMA MovesIsProgress ==
    ASSUME NEW c, NEW d, Sound(c), c.live = "open", Moves(c, d)
    PROVE  Progress(c, d)
<1>1. c.acked \in Nat /\ c.acked <= Len(c.wire)
  BY SoundFacts
<1> QED
  BY <1>1 DEF Moves, Progress

\* A new client satisfies the inductive invariant.
LEMMA InitIInv == Init => IInv
BY NewSound DEF Init, IInv

\* An action that sets no websocket flag and counts no CLOSE frame.
LEMMA PlainStep ==
    ASSUME IInv, Open, Sound(client'), Moves(client, client'),
           closeFrames' = closeFrames
    PROVE  IInv' /\ Progress(client, client')
<1>1. Progress(client, client')
  BY MovesIsProgress DEF IInv, Open
<1> QED
  BY <1>1 DEF IInv, Moves

\* SendWsClose on an open client.
LEMMA WsCloseSound ==
    ASSUME NEW c, Sound(c), c.live = "open", NEW wok \in BOOLEAN
    PROVE  LET d == SendWsClose(c, wok)
           IN  /\ Sound(d) /\ Progress(c, d) /\ d.live = "open"
               /\ d.ws_close_sent /\ d.closed = c.closed
<1> DEFINE e == [c EXCEPT !.ws_close_sent = TRUE]
           d == SendBuffer(e, CtlLen, wok)
<1>1. c \in Client
  BY DEF Sound
<1>2. Sound(e)
  BY FlagsSound
<1>3. /\ e.live = "open" /\ e.closed = c.closed /\ e.queued = c.queued
      /\ e.wire = c.wire /\ e.acked = c.acked /\ e.ws_close_sent
  BY <1>1 DEF Client
<1> HIDE DEF e
<1>4. Sound(d) /\ Moves(e, d) /\ d.live = "open" /\ d.closed = e.closed
  BY <1>2, <1>3, SendSound, SizesAssumption
<1>5. SendWsClose(c, wok) = d
  BY DEF SendWsClose, e
<1> HIDE DEF d
<1>6. Progress(e, d)
  BY <1>2, <1>3, <1>4, MovesIsProgress
<1>7. Progress(c, d)
  BY <1>3, <1>6 DEF Progress
<1>8. d.ws_close_sent
  BY <1>3, <1>4 DEF Moves
<1> QED
  BY <1>3, <1>4, <1>5, <1>7, <1>8

\* A client that is marked for close while it keeps its stream.
LEMMA MarkedProgress ==
    ASSUME NEW c, Sound(c), c.live = "open", NEW d, Sound(d), Progress(c, d),
           d.live = "open", NEW e, e = MarkForClose(d)
    PROVE  Sound(e) /\ Progress(c, e) /\ e.live = "open" /\ e.ws_close_sent = d.ws_close_sent
<1>1. /\ Sound(e) /\ e.live = "open" /\ e.closed
      /\ e.queued = d.queued /\ e.wire = d.wire /\ e.acked = d.acked
      /\ e.ws_close_sent = d.ws_close_sent
  BY MarkedSound
<1> QED
  BY <1>1 DEF Progress

\* Every action keeps the invariant and moves the stream as ByteStream allows.
LEMMA NextStep ==
    ASSUME IInv, Next
    PROVE  /\ IInv' /\ Open
           /\ Progress(client, client') \/ Lost(client, client')
<1> USE DEF Open
<1>0. Sound(client) /\ closeFrames \in Nat
  BY DEF IInv
<1>01. \A b \in WriteOutcomes : b \in BOOLEAN
  BY OutcomesAssumption
<1>02. \A b \in CloseOutcomes : b \in BOOLEAN
  BY OutcomesAssumption
<1>1. ASSUME NEW wok \in WriteOutcomes, NEW n \in Sizes, AppSend(n, wok)
      PROVE  IInv' /\ Open /\ Progress(client, client')
  <2>1. Sound(client') /\ Moves(client, client')
    BY <1>0, <1>01, <1>1, SendSound, SizesAssumption DEF AppSend
  <2> QED
    BY <1>1, <2>1, PlainStep DEF AppSend
<1>2. ASSUME NEW wok \in WriteOutcomes, OpenWebSocket(wok)
      PROVE  IInv' /\ Open /\ Progress(client, client')
  <2> DEFINE d == SendBuffer(client, CtlLen, wok)
  <2>1. Open /\ closeFrames' = closeFrames /\ client' = [d EXCEPT !.websocket = TRUE]
    BY <1>2 DEF OpenWebSocket
  <2>2. Sound(d) /\ Moves(client, d) /\ d.live = "open"
    BY <1>0, <1>01, <2>1, SendSound, SizesAssumption
  <2> HIDE DEF d
  <2>3. Sound(client')
    BY <2>1, <2>2, FlagsSound
  <2>4. /\ client'.live = d.live /\ client'.queued = d.queued /\ client'.closed = d.closed
        /\ client'.wire = d.wire /\ client'.acked = d.acked
        /\ client'.ws_close_sent = d.ws_close_sent
    BY <2>1, <2>2 DEF Sound, Client
  <2>5. Progress(client, d)
    BY <1>0, <2>1, <2>2, MovesIsProgress
  <2>6. Progress(client, client')
    BY <2>4, <2>5 DEF Progress
  <2>7. client'.ws_close_sent = client.ws_close_sent
    BY <2>2, <2>4 DEF Moves
  <2> QED
    BY <2>1, <2>3, <2>6, <2>7 DEF IInv
<1>3. ASSUME NEW wok \in WriteOutcomes, WsText(wok)
      PROVE  IInv' /\ Open /\ Progress(client, client')
  <2>1. Open /\ client' \in Answers(wok) /\ closeFrames' = closeFrames
    BY <1>3 DEF WsText
  <2>2. Sound(client') /\ Moves(client, client')
    BY <1>0, <1>01, <2>1, AnswersSound
  <2> QED
    BY <2>1, <2>2, PlainStep
<1>4. ASSUME NEW wok \in WriteOutcomes, WsPing(wok)
      PROVE  IInv' /\ Open /\ Progress(client, client')
  <2>1. Sound(client') /\ Moves(client, client')
    BY <1>0, <1>01, <1>4, SendSound, SizesAssumption DEF WsPing
  <2> QED
    BY <1>4, <2>1, PlainStep DEF WsPing
<1>5. ASSUME NEW wok \in WriteOutcomes, WsClose(wok)
      PROVE  IInv' /\ Open /\ Progress(client, client')
  <2>1. Open
    BY <1>5 DEF WsClose
  <2>2. CASE client.ws_close_sent
    <3>1. client' = MarkForClose(client) /\ closeFrames' = closeFrames
      BY <1>5, <2>2 DEF WsClose
    <3>2. Progress(client, client)
      <4>1. Moves(client, client)
        BY <1>0, <2>1 DEF Moves, Sound, Client
      <4> QED
        BY <1>0, <2>1, <4>1, MovesIsProgress
    <3>3. /\ Sound(client') /\ Progress(client, client')
          /\ client'.ws_close_sent = client.ws_close_sent
      BY <1>0, <2>1, <3>1, <3>2, MarkedProgress
    <3> QED
      BY <2>1, <3>1, <3>3 DEF IInv
  <2>3. CASE ~client.ws_close_sent
    <3> DEFINE d == SendWsClose(client, wok)
    <3>1. client' = MarkForClose(d) /\ closeFrames' = closeFrames + Counted(client)
      BY <1>5, <2>3 DEF WsClose
    <3>2. Sound(d) /\ Progress(client, d) /\ d.live = "open" /\ d.ws_close_sent
      BY <1>0, <1>01, <2>1, WsCloseSound
    <3> HIDE DEF d
    <3>3. Sound(client') /\ Progress(client, client') /\ client'.ws_close_sent
      BY <1>0, <2>1, <3>1, <3>2, MarkedProgress
    <3>4. closeFrames' \in Nat /\ closeFrames' <= 1
      BY <2>3, <3>1 DEF IInv, Counted
    <3> QED
      BY <2>1, <3>3, <3>4 DEF IInv
  <2> QED BY <2>2, <2>3
<1>6. ASSUME NEW wok \in WriteOutcomes, PollWrite(wok)
      PROVE  IInv' /\ Open /\ Progress(client, client')
  <2>1. Open /\ closeFrames' = closeFrames
        /\ client' = IF MoreToSend(client) THEN WriteNext(client, wok, TRUE) ELSE client
    BY <1>6 DEF PollWrite
  <2>2. Sound(WriteNext(client, wok, TRUE)) /\ Moves(client, WriteNext(client, wok, TRUE))
    BY <1>0, <1>01, <2>1, WriteNextSound
  <2>3. Moves(client, client)
    BY <1>0, <2>1 DEF Moves, Sound, Client
  <2>4. Sound(client') /\ Moves(client, client')
    BY <1>0, <2>1, <2>2, <2>3
  <2> QED
    BY <2>1, <2>4, PlainStep
<1>7. ASSUME NEW wok \in WriteOutcomes, NEW cok \in CloseOutcomes, NEW close \in BOOLEAN,
             HttpHandled(close, wok, cok)
      PROVE  IInv' /\ Open /\ Progress(client, client')
  <2>1. Open /\ closeFrames' = closeFrames
    BY <1>7 DEF HttpHandled
  <2>2. PICK c \in Answers(wok) : client' = EndRequest(c, close, cok)
    BY <1>7 DEF HttpHandled
  <2>3. Sound(c) /\ Moves(client, c) /\ c.live = "open"
    BY <1>0, <1>01, <2>1, AnswersSound
  <2>4. Sound(client') /\ Moves(c, client')
    BY <1>02, <2>2, <2>3, EndRequestSound
  <2>5. Moves(client, client')
    BY <1>0, <2>3, <2>4, MovesTransitive
  <2> QED
    BY <2>1, <2>4, <2>5, PlainStep
<1>8. ASSUME NEW wok \in WriteOutcomes, NEW cok \in CloseOutcomes, NEW close \in BOOLEAN,
             HttpUnhandled(close, wok, cok)
      PROVE  IInv' /\ Open /\ Progress(client, client')
  <2> DEFINE c == SendBuffer(client, CtlLen, wok)
  <2>1. Open /\ closeFrames' = closeFrames /\ client' = EndRequest(c, close, cok)
    BY <1>8 DEF HttpUnhandled
  <2>2. Sound(c) /\ Moves(client, c) /\ c.live = "open"
    BY <1>0, <1>01, <2>1, SendSound, SizesAssumption
  <2> HIDE DEF c
  <2>3. Sound(client') /\ Moves(c, client')
    BY <1>02, <2>1, <2>2, EndRequestSound
  <2>4. Moves(client, client')
    BY <1>0, <2>2, <2>3, MovesTransitive
  <2> QED
    BY <2>1, <2>3, <2>4, PlainStep
<1>9. ASSUME NEW wok \in WriteOutcomes, NEW cok \in CloseOutcomes, NEW n \in 1..SNDBUF,
             Sent(n, wok, cok)
      PROVE  IInv' /\ Open /\ Progress(client, client')
  <2> DEFINE d == [client EXCEPT !.sendbuf = Acknowledge(@, n), !.acked = @ + n]
  <2>1. /\ Open /\ closeFrames' = closeFrames /\ client' = WriteNext(d, wok, cok)
        /\ n <= Len(client.wire) - client.acked /\ n \in Nat
    BY <1>9, WindowAssumption DEF Sent
  <2>2. /\ Sound(d) /\ d.live = "open" /\ d.wire = client.wire
        /\ d.queued = client.queued /\ d.acked = client.acked + n
        /\ d.closed = client.closed /\ d.ws_close_sent = client.ws_close_sent
    BY <1>0, <2>1, AckSound
  <2> HIDE DEF d
  <2>3. Sound(client') /\ Moves(d, client')
    BY <1>01, <1>02, <2>1, <2>2, WriteNextSound
  <2>4. Progress(client, client')
    <3>1. client.acked \in Nat /\ Len(client.wire) \in Nat
      BY <1>0, <2>1, SoundFacts
    <3> QED
      BY <2>1, <2>2, <2>3, <3>1 DEF Moves, Progress
  <2> QED
    BY <2>1, <2>2, <2>3, <2>4 DEF IInv, Moves
<1>10. ASSUME NEW wok \in WriteOutcomes, NEW cok \in CloseOutcomes, PollIdle(wok, cok)
      PROVE  IInv' /\ Open /\ Progress(client, client')
  <2> DEFINE c == IF MoreToSend(client) THEN WriteNext(client, wok, TRUE) ELSE client
  <2>1. Open /\ ~client.closed /\ (MoreToSend(client) => client.ws_close_sent)
    BY <1>10 DEF PollIdle, MayBeIdle
  <2>2. IF c.websocket /\ ~c.ws_close_sent
        THEN client' = SendWsClose(c, wok) /\ closeFrames' = closeFrames + Counted(c)
        ELSE client' = CloseClient(MarkForClose(c), cok) /\ closeFrames' = closeFrames
    BY <1>10 DEF PollIdle
  <2>3. Sound(c) /\ Moves(client, c) /\ c.live = "open"
    <3>1. /\ Sound(WriteNext(client, wok, TRUE)) /\ Moves(client, WriteNext(client, wok, TRUE))
          /\ WriteNext(client, wok, TRUE).live = "open"
      BY <1>0, <1>01, <2>1, WriteNextSound
    <3>2. Moves(client, client)
      BY <1>0, <2>1 DEF Moves, Sound, Client
    <3> QED
      BY <1>0, <2>1, <3>1, <3>2
  <2>4. c.ws_close_sent = client.ws_close_sent /\ Progress(client, c)
    BY <1>0, <2>1, <2>3, MovesIsProgress DEF Moves
  <2>5. CASE c.websocket /\ ~c.ws_close_sent
    <3>1. c = client
      BY <2>1, <2>4, <2>5
    <3>2. client' = SendWsClose(client, wok) /\ closeFrames' = closeFrames + Counted(client)
      BY <2>2, <2>5, <3>1
    <3> HIDE DEF c
    <3>3. Sound(client') /\ Progress(client, client') /\ client'.ws_close_sent
      BY <1>0, <1>01, <2>1, <3>2, WsCloseSound
    <3>4. closeFrames' \in Nat /\ closeFrames' <= 1
      BY <2>4, <2>5, <3>2 DEF IInv, Counted
    <3> QED
      BY <2>1, <3>3, <3>4 DEF IInv
  <2>6. CASE ~(c.websocket /\ ~c.ws_close_sent)
    <3> DEFINE e == MarkForClose(c)
    <3>1. client' = CloseClient(e, cok) /\ closeFrames' = closeFrames
      BY <2>2, <2>6
    <3> HIDE DEF c
    <3>2. Sound(e) /\ Progress(client, e) /\ e.live = "open" /\ e.ws_close_sent = c.ws_close_sent
      BY <1>0, <2>1, <2>3, <2>4, MarkedProgress
    <3> HIDE DEF e
    <3>3. Sound(client') /\ Moves(e, client')
      BY <1>02, <3>1, <3>2, CloseSound
    <3>4. Progress(client, client')
      <4>1. /\ client.queued \in Nat /\ Len(client.wire) \in Nat
            /\ e.queued \in Nat /\ Len(e.wire) \in Nat
            /\ client'.queued \in Nat /\ Len(client'.wire) \in Nat
        BY <1>0, <3>2, <3>3 DEF Sound, Client
      <4> QED
        BY <3>2, <3>3, <4>1 DEF Progress, Moves
    <3>5. client'.ws_close_sent = client.ws_close_sent
      BY <2>4, <3>2, <3>3 DEF Moves
    <3> QED
      BY <2>1, <3>1, <3>3, <3>4, <3>5 DEF IInv
  <2> QED BY <2>5, <2>6
<1>11. ASSUME NEW cok \in CloseOutcomes, BadWebSocket(cok)
      PROVE  IInv' /\ Open /\ Progress(client, client')
  <2>1. Sound(client') /\ Moves(client, client')
    BY <1>0, <1>02, <1>11, EndRequestSound DEF BadWebSocket
  <2> QED
    BY <1>11, <2>1, PlainStep DEF BadWebSocket
<1>12. ASSUME NEW cok \in CloseOutcomes, PollClosed(cok)
      PROVE  IInv' /\ Open /\ Progress(client, client')
  <2>1. Sound(client') /\ Moves(client, client')
    BY <1>0, <1>02, <1>12, CloseSound DEF PollClosed
  <2> QED
    BY <1>12, <2>1, PlainStep DEF PollClosed
<1>13. ASSUME PeerClosed \/ Err
      PROVE  IInv' /\ Open /\ Lost(client, client')
  <2>1. Open /\ client' = Deleted(client, "lost") /\ closeFrames' = closeFrames
    BY <1>13 DEF PeerClosed, Err
  <2>2. /\ Sound(client') /\ Lost(client, client')
        /\ client'.ws_close_sent = client.ws_close_sent
    BY <1>0, <2>1, LostSound DEF Lost
  <2> QED
    BY <2>1, <2>2 DEF IInv
<1> QED
  BY <1>1, <1>2, <1>3, <1>4, <1>5, <1>6, <1>7, <1>8, <1>9, <1>10, <1>11, <1>12, <1>13
     DEF Next

-----------------------------------------------------------------------------
(* Theorems                                                                 *)

\* The inductive invariant implies each invariant the runs check.
LEMMA IInvImplies ==
    ASSUME IInv
    PROVE  /\ TypeOK /\ InOrder /\ AckWithinSent /\ GracefulClose
           /\ OneCloseFrame /\ QueueMatchesStream
<1>1. TypeOK /\ InOrder /\ GracefulClose /\ OneCloseFrame
  BY DEF IInv, Sound, TypeOK, InOrder, GracefulClose, OneCloseFrame
<1>2. QueueMatchesStream
  BY DEF IInv, Sound, QueueMatchesStream, Open, Queue
<1>3. AckWithinSent
  <2>1. CASE client.live = "open"
    BY <2>1 DEF IInv, Sound, Queue, AckWithinSent
  <2>2. CASE client.live # "open"
    <3>1. client.sendbuf = <<>>
      BY <2>2 DEF IInv, Sound
    <3> QED
      BY <3>1 DEF AckWithinSent, WithinBounds
  <2> QED BY <2>1, <2>2
<1> QED
  BY <1>1, <1>2, <1>3

\* A step that changes nothing keeps the inductive invariant.
LEMMA StutterIInv == IInv /\ UNCHANGED vars => IInv'
BY DEF IInv, vars

\* The inductive invariant holds in every state of a connection.
THEOREM Invariance == Spec => []IInv
<1>1. IInv /\ [Next]_vars => IInv'
  BY NextStep, StutterIInv
<1> QED
  BY InitIInv, <1>1, PTL DEF Spec

\* The client stays a well-formed CLIENT through every callback of web.cpp.
THEOREM TypeCorrect == Spec => []TypeOK
<1>1. IInv => TypeOK
  BY IInvImplies
<1> QED
  BY Invariance, <1>1, PTL

\* write_next hands lwIP the accepted bytes in order, each exactly once.
THEOREM BytesInOrder == Spec => []InOrder
<1>1. IInv => InOrder
  BY IInvImplies
<1> QED
  BY Invariance, <1>1, PTL

\* SENDBUF::acknowledge never credits more than was sent.
THEOREM AcksWithinSent == Spec => []AckWithinSent
<1>1. IInv => AckWithinSent
  BY IInvImplies
<1> QED
  BY Invariance, <1>1, PTL

\* A connection that close_client ends has delivered all it accepted.
THEOREM ClosesGracefully == Spec => []GracefulClose
<1>1. IInv => GracefulClose
  BY IInvImplies
<1> QED
  BY Invariance, <1>1, PTL

\* The websocket close handshake sends at most one CLOSE frame.
THEOREM SendsOneCloseFrame == Spec => []OneCloseFrame
<1>1. IInv => OneCloseFrame
  BY IInvImplies
<1> QED
  BY Invariance, <1>1, PTL

\* The queue of send buffers is the unacknowledged part of the stream.
THEOREM QueueIsStream == Spec => []QueueMatchesStream
<1>1. IInv => QueueMatchesStream
  BY IInvImplies
<1> QED
  BY Invariance, <1>1, PTL

\* Two streams in order, the second at least as long: it extends the first.
LEMMA ExtendsStream ==
    ASSUME NEW v \in Seq(Nat), NEW w \in Seq(Nat),
           \A i \in 1..Len(v) : v[i] = i, \A i \in 1..Len(w) : w[i] = i,
           Len(w) >= Len(v)
    PROVE  w = v \o Stream!Span(Len(v), Len(w))
<1> DEFINE s == Stream!Span(Len(v), Len(w))
<1>1. Len(v) \in Nat /\ Len(w) \in Nat
  OBVIOUS
<1>2. s = [i \in 1..(Len(w) - Len(v)) |-> Len(v) + i]
  BY DEF Stream!Span
<1>3. s \in Seq(Nat) /\ Len(s) = Len(w) - Len(v)
      /\ \A i \in 1..Len(s) : s[i] = Len(v) + i
  BY <1>1, <1>2
<1> HIDE DEF s
<1>4. v \o s \in Seq(Nat) /\ Len(v \o s) = Len(w)
  BY <1>1, <1>3, ConcatProperties
<1>5. \A i \in 1..Len(w) : (v \o s)[i] = i
  <2> SUFFICES ASSUME NEW i \in 1..Len(w) PROVE (v \o s)[i] = i
    OBVIOUS
  <2>1. (v \o s)[i] = IF i <= Len(v) THEN v[i] ELSE s[i - Len(v)]
    BY <1>1, <1>3, ConcatProperties
  <2>2. CASE i <= Len(v)
    BY <1>1, <2>1, <2>2
  <2>3. CASE ~(i <= Len(v))
    <3>1. i - Len(v) \in 1..Len(s)
      BY <1>1, <1>3, <2>3
    <3> QED
      BY <1>1, <1>3, <2>1, <2>3, <3>1
  <2> QED BY <2>2, <2>3
<1>6. \A i \in 1..Len(w) : (v \o s)[i] = w[i]
  BY <1>5
<1> QED
  BY <1>4, <1>6, SeqEqual DEF s

\* A step of the connection is a step of the byte stream.
LEMMA StreamStep ==
    ASSUME IInv, IInv', Open, Progress(client, client') \/ Lost(client, client')
    PROVE  Stream!Next
<1> DEFINE ph == IF Open /\ client.closed THEN "closing" ELSE client.live
<1>1. /\ client \in Client /\ client.acked \in Nat /\ client.queued \in Nat
      /\ Len(client.wire) \in Nat
      /\ client.acked <= Len(client.wire) /\ Len(client.wire) <= client.queued
  BY SoundFacts DEF IInv, Open
<1>2. /\ client' \in Client /\ client'.acked \in Nat /\ client'.queued \in Nat
      /\ Len(client'.wire) \in Nat
  BY DEF IInv, Sound, Client
<1>3. ph \in {"open", "closing"} /\ (ph = "closing" <=> client.closed)
  BY <1>1 DEF Open, Client
<1>4. CASE Lost(client, client')
  <2>1. ph' = "lost"
    BY <1>4 DEF Lost, Open
  <2> QED
    BY <1>3, <1>4, <2>1 DEF Lost, Stream!Next, Stream!Lose
<1>5. CASE Progress(client, client')
  <2>1. client'.wire = client.wire \o Stream!Span(Len(client.wire), Len(client'.wire))
    BY <1>1, <1>2, <1>5, ExtendsStream DEF IInv, Sound, StreamInOrder, Client, Progress
  <2>2. CASE client'.live = "open"
    <3>1. Len(client'.wire) <= client'.queued
      BY <2>2, SoundFacts DEF IInv
    <3>2. ph' \in {"open", "closing"} /\ (ph' = "closing" <=> client'.closed)
      BY <1>2, <2>2 DEF Open, Client
    <3>3. Len(client'.wire) \in Len(client.wire)..client'.queued
      BY <1>1, <1>2, <1>5, <3>1 DEF Progress
    <3>4. client'.acked \in client.acked..Len(client.wire)
      BY <1>1, <1>2, <1>5 DEF Progress
    <3>5. client'.queued >= client.queued
          /\ (ph = "closing" => ph' = "closing" /\ client'.queued = client.queued)
      BY <1>3, <1>5, <3>2 DEF Progress
    <3> QED
      BY <1>2, <1>3, <2>1, <3>2, <3>3, <3>4, <3>5 DEF Stream!Next, Stream!Transfer
  <2>3. CASE client'.live = "closed"
    <3>1. Len(client'.wire) = client'.queued /\ client'.acked = client'.queued
      BY <2>3 DEF IInv, Sound, Delivered
    <3>2. Len(client'.wire) = Len(client.wire) /\ client'.queued = client.queued
      BY <1>1, <1>2, <1>5, <3>1 DEF Progress
    <3>3. client'.wire = client.wire
      BY <3>2, SeqEqual DEF IInv, Sound, StreamInOrder, Client
    <3>4. ph' = "closed"
      BY <2>3 DEF Open
    <3> QED
      BY <1>3, <3>1, <3>2, <3>3, <3>4 DEF Stream!Next, Stream!Finish
  <2> QED
    BY <1>5, <2>2, <2>3 DEF Progress
<1> QED BY <1>4, <1>5

\* The connection of web.cpp implements the byte stream it promises: every
\* callback is a step of ByteStream or leaves the stream alone.
THEOREM Refinement == Spec => ImplementsByteStream
<1>1. Init => Stream!Init
  BY DEF Init, NewClient, Stream!Init, Open
<1>2. IInv /\ IInv' /\ [Next]_vars => [Stream!Next]_(Stream!vars)
  <2>1. CASE Next
    BY <2>1, NextStep, StreamStep
  <2>2. CASE UNCHANGED vars
    BY <2>2 DEF vars, Stream!vars, Open
  <2> QED BY <2>1, <2>2
<1> QED
  BY Invariance, <1>1, <1>2, PTL DEF Spec, ImplementsByteStream, Stream!Spec
=============================================================================
