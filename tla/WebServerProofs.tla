--------------------------- MODULE WebServerProofs ---------------------------
(***************************************************************************)
(* For any number of control blocks and requests: clientPCB_ and           *)
(* clientHndl_ describe the same clients, also after the handles have      *)
(* wrapped, and agree with the connections lwIP holds; and no request that *)
(* was answered loses its client within the loop of tcp_server_recv.       *)
(***************************************************************************)
EXTENDS WebServer, WebClientProofs, FiniteSetTheorems, WellFoundedInduction

-----------------------------------------------------------------------------
(* The inductive invariant                                                  *)

\* The tables' keys, and the requests not yet processed.
TablesType ==
    /\ pcb \in [Pcbs -> {"free", "conn", "unclosed"}]
    /\ DOMAIN clientPCB \subseteq Pcbs /\ Live \subseteq Handles
    /\ DOMAIN rqst = Live
    /\ \A h \in Live : rqst[h] \in Seq(Requests)
    /\ next_handle \in (HandleMin - 1)..HandleMax

\* Every client in the table is open and its list of buffers describes its
\* stream.  A client that was closed has left the table.
ClientsSound == \A h \in Live : Sound(clientHndl[h]) /\ clientHndl[h].live = "open"

Tables == TablesType /\ ClientsSound /\ TablesAgree /\ MappedConnected /\ NoOrphan

ServerInv ==
    /\ Tables
    /\ handler \in Pcbs \cup {NoPcb}
    /\ usedFreed \in {"no", "silent"}

-----------------------------------------------------------------------------
(* Handles                                                                  *)

\* A set of natural numbers has a least element.
LEMMA LeastNatural ==
    ASSUME NEW T, T \subseteq Nat, T # {}
    PROVE  \E x \in T : \A y \in T : x <= y
<1>1. \E x \in T : \A y \in T : ~(<<y, x>> \in OpToRel(<, Nat))
  BY NatLessThanWellFounded, WFMin
<1>2. PICK x \in T : \A y \in T : ~(<<y, x>> \in OpToRel(<, Nat))
  BY <1>1
<1>3. \A y \in T : ~(y < x)
  BY <1>2 DEF OpToRel
<1> QED
  BY <1>3

\* There are fewer clients than handles: each has a control block of its own,
\* and there are fewer of these than handles.
LEMMA SomeHandleFree ==
    ASSUME Tables
    PROVE  Handles \ Live # {}
<1> SUFFICES ASSUME Handles \subseteq Live PROVE FALSE
  OBVIOUS
<1> DEFINE D == DOMAIN clientPCB
           f == [p \in D |-> clientPCB[p]]
<1>1. IsFiniteSet(D) /\ Cardinality(D) <= Cardinality(Pcbs)
  BY HandlesAssumption, FS_Subset DEF Tables, TablesType
<1>2. f \in Surjection(D, Live)
  BY DEF Tables, TablesAgree, Range, Surjection
<1>3. IsFiniteSet(Live) /\ Cardinality(Live) <= Cardinality(D)
  <2> HIDE DEF D, f
  <2> QED
    BY <1>1, <1>2, FS_Surjection
<1>4. Cardinality(Handles) <= Cardinality(Live)
  BY <1>3, FS_Subset
<1>5. /\ Cardinality(Pcbs) \in Nat /\ Cardinality(D) \in Nat
      /\ Cardinality(Live) \in Nat
  BY <1>1, <1>3, HandlesAssumption, FS_CardinalityType
<1>6. Cardinality(Handles) = HandleMax - HandleMin + 1
  <2>1. HandleMin \in Int /\ HandleMax \in Int /\ ~(HandleMin > HandleMax)
    BY <1>5, HandlesAssumption
  <2> QED
    BY <2>1, FS_Interval DEF Handles
<1> QED
  BY <1>1, <1>3, <1>4, <1>5, <1>6, HandlesAssumption

\* CLIENT::nextHandle finds a handle no live client has.
LEMMA NextHandleFree ==
    ASSUME Tables
    PROVE  NextHandle \in Handles /\ NextHandle \notin Live
<1> DEFINE first == Advance(next_handle)
           free == Handles \ Live
           N == HandleMax - HandleMin + 1
           steps(h) == (h - first) % N
           T == {steps(h) : h \in free}
<1>1. N \in Nat \ {0} /\ first \in Int
  <2>1. Cardinality(Pcbs) \in Nat
    BY HandlesAssumption, FS_CardinalityType
  <2> QED
    BY <2>1, HandlesAssumption DEF Tables, TablesType, Advance
<1>2. \A h \in free : steps(h) \in Nat
  <2>1. \A h \in free : h - first \in Int
    BY <1>1, HandlesAssumption DEF Handles
  <2>2. \A a \in Int, n \in Nat \ {0} : a % n \in Nat
    OBVIOUS
  <2> QED
    BY <1>1, <2>1, <2>2
<1>3. free # {}
  BY SomeHandleFree
<1>4. \E h \in free : \A g \in free : steps(h) <= steps(g)
  <2> HIDE DEF free, steps
  <2>1. T \subseteq Nat /\ T # {}
    BY <1>2, <1>3
  <2>2. PICK x \in T : \A y \in T : x <= y
    <3> HIDE DEF T
    <3> QED
      BY <2>1, LeastNatural
  <2> QED
    BY <2>2
<1>5. NextHandle = CHOOSE h \in free : \A g \in free : steps(h) <= steps(g)
  BY DEF NextHandle
<1>6. NextHandle \in free
  <2> HIDE DEF free, steps
  <2> QED
    BY <1>4, <1>5
<1> QED
  BY <1>6

-----------------------------------------------------------------------------
(* What may happen to the tables                                            *)

\* addClient for a connection that is new to the server.
LEMMA AddKeeps ==
    ASSUME Tables, NEW p \in Pcbs, ~Mapped(p), AddClient(p),
           pcb' = [pcb EXCEPT ![p] = "conn"]
    PROVE  Tables'
<1> DEFINE h == NextHandle
<1>1. h \in Handles /\ h \notin Live
  BY NextHandleFree
<1>2. Sound(NewClient) /\ NewClient.live = "open"
  BY NewSound
<1> HIDE DEF h
<1>3. /\ clientPCB' = [q \in DOMAIN clientPCB \cup {p} |->
                          IF q = p THEN h ELSE clientPCB[q]]
      /\ clientHndl' = [g \in Live \cup {h} |->
                          IF g = h THEN NewClient ELSE clientHndl[g]]
      /\ rqst' = [g \in DOMAIN rqst \cup {h} |-> IF g = h THEN <<>> ELSE rqst[g]]
      /\ next_handle' = h
  BY <1>1 DEF AddClient, With, Known, Live, h
<1>4. /\ Live' = Live \cup {h}
      /\ DOMAIN clientPCB' = DOMAIN clientPCB \cup {p}
  BY <1>3 DEF Live
<1>5. TablesType'
  <2>1. <<>> \in Seq(Requests)
    OBVIOUS
  <2>2. pcb' \in [Pcbs -> {"free", "conn", "unclosed"}]
    BY DEF Tables, TablesType
  <2>3. DOMAIN rqst' = Live'
    BY <1>3, <1>4 DEF Tables, TablesType
  <2>4. \A g \in Live' : rqst'[g] \in Seq(Requests)
    BY <1>3, <1>4, <2>1 DEF Tables, TablesType
  <2>5. next_handle' \in (HandleMin - 1)..HandleMax
    BY <1>1, <1>3, HandlesAssumption DEF Handles
  <2> QED
    BY <1>1, <1>4, <2>2, <2>3, <2>4, <2>5 DEF Tables, TablesType, Handles
<1>6. ClientsSound'
  BY <1>2, <1>3, <1>4 DEF Tables, ClientsSound
<1>7. TablesAgree'
  <2>1. Range(clientPCB') = Live'
    BY <1>3, <1>4 DEF Tables, TablesAgree, Range, Mapped
  <2>2. \A q \in DOMAIN clientPCB : clientPCB[q] # h
    BY <1>1 DEF Tables, TablesAgree, Range
  <2>3. IsInjective(clientPCB')
    BY <1>3, <1>4, <2>2 DEF Tables, TablesAgree, IsInjective
  <2> QED
    BY <2>1, <2>3 DEF TablesAgree
<1>8. MappedConnected' /\ NoOrphan'
  BY <1>4 DEF Tables, TablesType, MappedConnected, NoOrphan, Mapped
<1> QED
  BY <1>5, <1>6, <1>7, <1>8 DEF Tables

\* deleteClient of a connection that lwIP gives up, or keeps after a failed
\* altcp_close.
LEMMA DeleteKeeps ==
    ASSUME Tables, NEW p \in Pcbs, Mapped(p), DeleteClient(p),
           NEW state \in {"free", "unclosed"}, pcb' = [pcb EXCEPT ![p] = state],
           next_handle' = next_handle
    PROVE  Tables'
<1> DEFINE h == clientPCB[p]
<1>1. h \in Live
  BY DEF Tables, TablesAgree, Range, Mapped
<1> HIDE DEF h
<1>2. /\ clientPCB' = [q \in DOMAIN clientPCB \ {p} |-> clientPCB[q]]
      /\ clientHndl' = [g \in Live \ {h} |-> clientHndl[g]]
      /\ rqst' = [g \in DOMAIN rqst \ {h} |-> rqst[g]]
  BY DEF DeleteClient, Without, Live, h
<1>3. Live' = Live \ {h} /\ DOMAIN clientPCB' = DOMAIN clientPCB \ {p}
  BY <1>2 DEF Live
<1>4. TablesType'
  BY <1>2, <1>3 DEF Tables, TablesType, Handles
<1>5. ClientsSound'
  BY <1>2, <1>3 DEF Tables, ClientsSound
<1>6. TablesAgree'
  <2>1. \A q \in DOMAIN clientPCB \ {p} : clientPCB[q] # h
    BY DEF Tables, TablesAgree, IsInjective, Mapped, h
  <2>2. Range(clientPCB') = Live'
    BY <1>2, <1>3, <2>1 DEF Tables, TablesAgree, Range, h
  <2>3. IsInjective(clientPCB')
    BY <1>2, <1>3 DEF Tables, TablesAgree, IsInjective
  <2> QED
    BY <2>2, <2>3 DEF TablesAgree
<1>7. MappedConnected' /\ NoOrphan'
  BY <1>3 DEF Tables, TablesType, MappedConnected, NoOrphan, Mapped
<1> QED
  BY <1>4, <1>5, <1>6, <1>7 DEF Tables

\* A client is left in the table, with other requests.
LEMMA UpdateKeeps ==
    ASSUME Tables, NEW h \in Live, NEW c, Sound(c), c.live = "open",
           clientHndl' = [clientHndl EXCEPT ![h] = c],
           NEW rest \in Seq(Requests), rqst' = [rqst EXCEPT ![h] = rest],
           UNCHANGED <<pcb, clientPCB, next_handle>>
    PROVE  Tables'
<1>1. Live' = Live
  BY DEF Live
<1>2. TablesType'
  BY <1>1 DEF Tables, TablesType, Handles
<1>3. ClientsSound'
  BY <1>1 DEF Tables, ClientsSound, Live
<1>4. TablesAgree' /\ MappedConnected' /\ NoOrphan'
  BY <1>1 DEF Tables, TablesAgree, MappedConnected, NoOrphan, Mapped
<1> QED
  BY <1>2, <1>3, <1>4 DEF Tables

\* Other clients in the same tables.
LEMMA ReplaceKeeps ==
    ASSUME Tables, Live' = Live, ClientsSound',
           UNCHANGED <<pcb, clientPCB, rqst, next_handle>>
    PROVE  Tables'
<1>1. TablesType'
  BY DEF Tables, TablesType, Handles
<1>2. TablesAgree' /\ MappedConnected' /\ NoOrphan'
  BY DEF Tables, TablesAgree, MappedConnected, NoOrphan, Mapped
<1> QED
  BY <1>1, <1>2 DEF Tables

\* What a routine of WebClient leaves of a client: it is stored, or deleted.
LEMMA StoreKeeps ==
    ASSUME Tables, NEW p \in Pcbs, Mapped(p), NEW c, Sound(c), Store(p, c),
           next_handle' = next_handle
    PROVE  Tables'
<1>1. CASE c.live = "open"
  <2> DEFINE h == clientPCB[p]
  <2>1. h \in Live
    BY DEF Tables, TablesAgree, Range, Mapped
  <2>2. /\ clientHndl' = [clientHndl EXCEPT ![h] = c]
        /\ UNCHANGED <<pcb, clientPCB, rqst>>
    BY <1>1 DEF Store
  <2> HIDE DEF h
  <2>3. Live' = Live /\ ClientsSound'
    BY <1>1, <2>1, <2>2 DEF Live, Tables, ClientsSound
  <2> QED
    BY <2>2, <2>3, ReplaceKeeps
<1>2. CASE c.live # "open"
  <2>1. DeleteClient(p) /\ pcb' = [pcb EXCEPT ![p] = "free"]
    BY <1>2 DEF Store
  <2> QED
    BY <2>1, DeleteKeeps
<1> QED
  BY <1>1, <1>2

-----------------------------------------------------------------------------
(* The loop of tcp_server_recv                                              *)

\* The client of a connection.
LEMMA ClientOf ==
    ASSUME Tables, NEW p, Mapped(p)
    PROVE  /\ p \in Pcbs /\ clientPCB[p] \in Live
           /\ Sound(clientHndl[clientPCB[p]])
           /\ clientHndl[clientPCB[p]].live = "open"
BY DEF Tables, TablesType, ClientsSound, TablesAgree, Range, Mapped

\* A routine that closes the client has queued nothing: everything the client
\* had accepted is acknowledged, and what was queued now cannot be.
LEMMA ClosedQueuedNothing ==
    ASSUME NEW c, NEW d, Sound(c), c.live = "open", Sound(d), Moves(c, d),
           d.live # "open"
    PROVE  d.queued <= c.queued
<1>1. c.acked \in Nat /\ c.queued \in Nat /\ c.acked <= c.queued
  BY SoundFacts
<1>2. d.live = "closed" /\ d.acked = c.acked
  BY DEF Moves
<1>3. d.acked = d.queued
  BY <1>2 DEF Sound, Delivered
<1> QED
  BY <1>1, <1>2, <1>3

\* A turn that leaves the client c behind.
LEMMA EndTurnKeeps ==
    ASSUME ServerInv, Turn, NEW c, Sound(c),
           c.live # "open" => c.queued <= Current.queued,
           NEW rest \in Seq(Requests), EndTurn(c, rest), UNCHANGED next_handle
    PROVE  ServerInv'
<1> DEFINE h == clientPCB[handler]
<1>1. /\ Tables /\ handler \in Pcbs /\ Mapped(handler) /\ h \in Live
      /\ Sound(Current) /\ Current = clientHndl[h]
  BY ClientOf DEF ServerInv, Turn, Current
<1>2. CASE c.live = "open"
  <2>1. /\ clientHndl' = [clientHndl EXCEPT ![h] = c]
        /\ rqst' = [rqst EXCEPT ![h] = rest]
        /\ UNCHANGED <<pcb, clientPCB, handler, usedFreed>>
    BY <1>2 DEF EndTurn
  <2> HIDE DEF h
  <2>2. Tables'
    BY <1>1, <1>2, <2>1, UpdateKeeps
  <2> QED
    BY <2>1, <2>2 DEF ServerInv
<1>3. CASE c.live # "open"
  <2>1. /\ Store(handler, c) /\ handler' = NoPcb
        /\ usedFreed' = IF c.queued > clientHndl[h].queued THEN "answered" ELSE "silent"
    BY <1>3 DEF EndTurn
  <2>2. Tables'
    BY <1>1, <2>1, StoreKeeps
  <2>3. c.queued \in Nat /\ Current.queued \in Nat
    BY <1>1 DEF Sound, Client
  <2>4. usedFreed' = "silent"
    BY <1>1, <1>3, <2>1, <2>3
  <2> QED
    BY <2>1, <2>2, <2>4 DEF ServerInv
<1> QED
  BY <1>2, <1>3

\* What process_rqst leaves of a client that the callback left as c.
LEMMA EndedSound ==
    ASSUME NEW c, NEW d, Sound(c), c.live = "open", Sound(d), d.live = "open",
           Moves(c, d), NEW close \in BOOLEAN, NEW cok \in BOOLEAN
    PROVE  LET e == EndRequest(d, close, cok)
           IN  Sound(e) /\ (e.live # "open" => e.queued <= c.queued)
<1> DEFINE e == EndRequest(d, close, cok)
<1>1. Sound(e) /\ Moves(d, e)
  BY EndRequestSound
<1> HIDE DEF e
<1>2. Moves(c, e)
  BY <1>1, MovesTransitive
<1>3. e.live # "open" => e.queued <= c.queued
  BY <1>1, <1>2, ClosedQueuedNothing
<1> QED
  BY <1>1, <1>3 DEF e

\* The client in the loop, and what a callback may leave of it.
LEMMA CurrentSound ==
    ASSUME ServerInv, Turn
    PROVE  /\ Sound(Current) /\ Current.live = "open" /\ Moves(Current, Current)
           /\ Pending \in Seq(Requests) /\ Tail(Pending) \in Seq(Requests)
<1>1. Sound(Current) /\ Current.live = "open" /\ clientPCB[handler] \in Live
  BY ClientOf DEF ServerInv, Turn, Current
<1>2. Pending \in Seq(Requests) /\ Pending # <<>>
  BY <1>1 DEF ServerInv, Tables, TablesType, Pending, Turn
<1>3. Moves(Current, Current)
  BY <1>1 DEF Moves, Sound, Client
<1>4. Tail(Pending) \in Seq(Requests)
  BY <1>2
<1> QED
  BY <1>1, <1>2, <1>3, <1>4

\* The client after the callback of the application, which may have sent.
LEMMA AnsweredSound ==
    ASSUME ServerInv, Turn, NEW wok \in BOOLEAN, NEW c \in Answers(wok)
    PROVE  Sound(c) /\ c.live = "open" /\ Moves(Current, c)
<1>1. Sound(Current) /\ Current.live = "open" /\ Moves(Current, Current)
  BY CurrentSound
<1>2. LET d == SendBuffer(Current, 1, wok)
      IN  Sound(d) /\ d.live = "open" /\ Moves(Current, d)
  BY <1>1, SendSound
<1> QED
  BY <1>1, <1>2 DEF Answers

\* The turns of process_rqst.
LEMMA RequestTurns ==
    ASSUME ServerInv, NEW close \in BOOLEAN, NEW wok \in BOOLEAN, NEW cok \in BOOLEAN,
           \/ TurnPage(close, wok, cok) \/ TurnNotFound(close, wok, cok)
           \/ TurnBadUpgrade(cok) \/ TurnUpgrade(wok)
    PROVE  ServerInv'
<1>1. Turn
  BY DEF TurnPage, TurnNotFound, TurnBadUpgrade, TurnUpgrade
<1>2. /\ Sound(Current) /\ Current.live = "open" /\ Moves(Current, Current)
      /\ Tail(Pending) \in Seq(Requests)
  BY <1>1, CurrentSound
<1>3. CASE TurnPage(close, wok, cok)
  <2>1. PICK c \in Answers(wok) : EndTurn(EndRequest(c, close, cok), Tail(Pending))
    BY <1>3 DEF TurnPage
  <2>2. Sound(c) /\ c.live = "open" /\ Moves(Current, c)
    BY <1>1, AnsweredSound
  <2>3. LET e == EndRequest(c, close, cok)
        IN  Sound(e) /\ (e.live # "open" => e.queued <= Current.queued)
    BY <1>2, <2>2, EndedSound
  <2> QED
    BY <1>1, <1>2, <1>3, <2>1, <2>3, EndTurnKeeps DEF TurnPage
<1>4. CASE TurnNotFound(close, wok, cok)
  <2> DEFINE c == SendBuffer(Current, 1, wok)
  <2>1. EndTurn(EndRequest(c, close, cok), Tail(Pending))
    BY <1>4 DEF TurnNotFound
  <2>2. Sound(c) /\ c.live = "open" /\ Moves(Current, c)
    BY <1>2, SendSound
  <2> HIDE DEF c
  <2>3. LET e == EndRequest(c, close, cok)
        IN  Sound(e) /\ (e.live # "open" => e.queued <= Current.queued)
    BY <1>2, <2>2, EndedSound
  <2> QED
    BY <1>1, <1>2, <1>4, <2>1, <2>3, EndTurnKeeps DEF TurnNotFound
<1>5. CASE TurnBadUpgrade(cok)
  <2>1. LET e == EndRequest(Current, TRUE, cok)
        IN  Sound(e) /\ (e.live # "open" => e.queued <= Current.queued)
    BY <1>2, EndedSound
  <2> QED
    BY <1>1, <1>2, <1>5, <2>1, EndTurnKeeps DEF TurnBadUpgrade
<1>6. CASE TurnUpgrade(wok)
  <2> DEFINE c == SendBuffer(Current, 1, wok)
             d == [c EXCEPT !.websocket = TRUE]
  <2>1. EndTurn(d, <<>>) /\ UNCHANGED next_handle
    BY <1>6 DEF TurnUpgrade
  <2>2. Sound(c) /\ c.live = "open"
    BY <1>2, SendSound
  <2> HIDE DEF c
  <2>3. Sound(d) /\ d.live = "open"
    BY <2>2, FlagsSound DEF Sound, Client
  <2>4. <<>> \in Seq(Requests)
    OBVIOUS
  <2> HIDE DEF d
  <2> QED
    BY <1>1, <2>1, <2>3, <2>4, EndTurnKeeps
<1> QED
  BY <1>3, <1>4, <1>5, <1>6

\* The turns of process_websocket, which never close the client themselves.
LEMMA WebsocketTurns ==
    ASSUME ServerInv, NEW wok \in BOOLEAN,
           TurnText(wok) \/ TurnPing(wok) \/ TurnClose(wok)
    PROVE  ServerInv'
<1>1. Turn /\ UNCHANGED next_handle
  BY DEF TurnText, TurnPing, TurnClose
<1>2. /\ Sound(Current) /\ Current.live = "open"
      /\ Tail(Pending) \in Seq(Requests)
  BY <1>1, CurrentSound
<1>3. ASSUME NEW c, Sound(c), c.live = "open", EndTurn(c, Tail(Pending))
      PROVE  ServerInv'
  BY <1>1, <1>2, <1>3, EndTurnKeeps
<1>4. CASE TurnText(wok)
  BY <1>1, <1>3, <1>4, AnsweredSound DEF TurnText
<1>5. CASE TurnPing(wok)
  BY <1>2, <1>3, <1>5, SendSound DEF TurnPing
<1>6. CASE TurnClose(wok)
  <2> DEFINE e == [Current EXCEPT !.ws_close_sent = TRUE]
             c == IF Current.ws_close_sent THEN Current ELSE SendBuffer(e, 1, wok)
  <2>1. EndTurn(MarkForClose(c), Tail(Pending))
    BY <1>6 DEF TurnClose
  <2>2. Sound(e) /\ e.live = "open"
    BY <1>2, FlagsSound DEF Sound, Client
  <2> HIDE DEF e
  <2>3. Sound(c) /\ c.live = "open"
    BY <1>2, <2>2, SendSound
  <2> HIDE DEF c
  <2>4. Sound(MarkForClose(c)) /\ MarkForClose(c).live = "open"
    BY <2>3, MarkedSound
  <2> QED
    BY <1>3, <2>1, <2>4
<1> QED
  BY <1>4, <1>5, <1>6

-----------------------------------------------------------------------------
(* The callbacks and calls between requests                                 *)

\* tcp_server_accept and tcp_server_err, for a connection the server knows or
\* does not know.
LEMMA AcceptErrKeep ==
    ASSUME ServerInv, NEW p \in Pcbs, Accept(p) \/ Err(p)
    PROVE  ServerInv'
<1>0. Tables
  BY DEF ServerInv
<1>1. CASE Accept(p)
  <2>1. ~Mapped(p)
    BY <1>0, <1>1 DEF Accept, Tables, MappedConnected, Mapped
  <2>2. Tables'
    BY <1>0, <1>1, <2>1, AddKeeps DEF Accept
  <2> QED
    BY <1>1, <2>2 DEF Accept, ServerInv
<1>2. CASE Err(p) /\ Mapped(p)
  <2>1. Tables'
    BY <1>0, <1>2, DeleteKeeps DEF Err
  <2> QED
    BY <1>2, <2>1 DEF Err, ServerInv
<1>3. CASE Err(p) /\ ~Mapped(p)
  <2>1. /\ pcb' = [pcb EXCEPT ![p] = "free"]
        /\ UNCHANGED <<clientPCB, clientHndl, rqst, next_handle, handler, usedFreed>>
    BY <1>3 DEF Err
  <2>2. Live' = Live
    BY <2>1 DEF Live
  <2>3. TablesType' /\ ClientsSound' /\ TablesAgree'
    BY <1>0, <2>1, <2>2 DEF Tables, TablesType, ClientsSound, TablesAgree, Handles
  <2>4. MappedConnected' /\ NoOrphan'
    BY <1>0, <1>3, <2>1 DEF Tables, TablesType, MappedConnected, NoOrphan, Mapped
  <2> QED
    BY <2>1, <2>3, <2>4 DEF ServerInv, Tables
<1> QED
  BY <1>1, <1>2, <1>3

\* tcp_server_recv without data.
LEMMA PeerClosedKeeps ==
    ASSUME ServerInv, NEW p \in Pcbs, NEW cok \in BOOLEAN, PeerClosed(p, cok)
    PROVE  ServerInv'
<1>1. Tables'
  BY DeleteKeeps DEF ServerInv, PeerClosed
<1> QED
  BY <1>1 DEF ServerInv, PeerClosed

\* tcp_server_recv with data, and the end of its loop.
LEMMA RecvKeeps ==
    ASSUME ServerInv, NEW p \in Pcbs, NEW rs \in Pipelines, Recv(p, rs)
    PROVE  ServerInv'
<1> DEFINE h == clientPCB[p]
<1>1. Tables /\ h \in Live
  BY ClientOf DEF ServerInv, Recv
<1>2. rs \in Seq(Requests)
  <2>1. PICK n \in 1..MaxPipelined : rs \in [1..n -> Requests]
    BY DEF Pipelines
  <2>2. n \in Nat
    BY ServerAssumption
  <2> QED
    BY <2>1, <2>2
<1>3. /\ rqst' = [rqst EXCEPT ![h] = @ \o rs] /\ handler' = p
      /\ UNCHANGED <<pcb, clientPCB, clientHndl, next_handle, usedFreed>>
  BY DEF Recv
<1> HIDE DEF h
<1>4. Live' = Live
  BY <1>3 DEF Live
<1>5. \A g \in Live : rqst[g] \in Seq(Requests) /\ DOMAIN rqst = Live
  BY <1>1 DEF Tables, TablesType
<1>6. rqst[h] \o rs \in Seq(Requests)
  BY <1>1, <1>2, <1>5
<1>7. DOMAIN rqst' = Live /\ \A g \in Live : rqst'[g] \in Seq(Requests)
  BY <1>1, <1>3, <1>5, <1>6
<1>8. TablesType'
  BY <1>1, <1>3, <1>4, <1>7 DEF Tables, TablesType, Handles
<1>9. ClientsSound' /\ TablesAgree' /\ MappedConnected' /\ NoOrphan'
  BY <1>1, <1>3, <1>4 DEF Tables, ClientsSound, TablesAgree, MappedConnected, NoOrphan, Mapped
<1> QED
  BY <1>3, <1>8, <1>9 DEF ServerInv, Tables

\* tcp_server_sent and tcp_server_poll.
LEMMA SentPollKeep ==
    ASSUME ServerInv, NEW p \in Pcbs, NEW wok \in BOOLEAN, NEW cok \in BOOLEAN,
           NEW idle \in BOOLEAN, Sent(p, wok, cok) \/ Poll(p, idle, wok, cok)
    PROVE  ServerInv'
<1> DEFINE c == clientHndl[clientPCB[p]]
<1>1. /\ Tables /\ Mapped(p) /\ UNCHANGED <<next_handle, handler, usedFreed>>
  BY DEF ServerInv, Sent, Poll
<1>2. Sound(c) /\ c.live = "open" /\ c.closed \in BOOLEAN
  BY <1>1, ClientOf DEF Sound, Client
<1>3. ASSUME NEW d, Sound(d), Store(p, d)
      PROVE  ServerInv'
  BY <1>1, <1>3, StoreKeeps DEF ServerInv
<1>4. CASE Sent(p, wok, cok)
  <2> DEFINE n == Len(c.wire) - c.acked
             d == [c EXCEPT !.sendbuf = Acknowledge(@, n), !.acked = @ + n]
  <2>1. n > 0 /\ Store(p, WriteNext(d, wok, cok))
    BY <1>4 DEF Sent
  <2> HIDE DEF c
  <2>2. n \in Nat /\ n <= Len(c.wire) - c.acked
    BY <1>2, SoundFacts
  <2> HIDE DEF n
  <2>3. Sound(d) /\ d.live = "open"
    BY <1>2, <2>2, AckSound
  <2> HIDE DEF d
  <2>4. Sound(WriteNext(d, wok, cok))
    BY <2>3, WriteNextSound
  <2> QED
    BY <1>3, <2>1, <2>4
<1>5. CASE Poll(p, idle, wok, cok)
  <2> DEFINE d == IF MoreToSend(c) THEN WriteNext(c, wok, TRUE) ELSE c
             e == IF c.closed THEN CloseClient(c, cok)
                  ELSE IF idle THEN CloseClient(MarkForClose(d), cok) ELSE d
  <2>1. Store(p, e)
    BY <1>5 DEF Poll
  <2> HIDE DEF c
  <2>2. Sound(d) /\ (~c.closed => d.live = "open")
    BY <1>2, WriteNextSound
  <2> HIDE DEF d
  <2>3. CASE c.closed
    BY <1>2, <1>3, <2>1, <2>3, CloseSound
  <2>4. CASE ~c.closed /\ idle
    <3>1. Sound(MarkForClose(d)) /\ MarkForClose(d).live = "open"
      BY <2>2, <2>4, MarkedSound
    <3>2. Sound(CloseClient(MarkForClose(d), cok))
      BY <3>1, CloseSound
    <3> QED
      BY <1>3, <2>1, <2>4, <3>2
  <2>5. CASE ~c.closed /\ ~idle
    BY <1>3, <2>1, <2>2, <2>5
  <2> QED
    BY <2>3, <2>4, <2>5
<1> QED
  BY <1>4, <1>5

\* send_data, send_message and broadcast_websocket.
LEMMA AppSendsKeep ==
    ASSUME ServerInv, NEW wok \in BOOLEAN,
           Broadcast(wok) \/ \E h \in Handles : AppSend(h, wok)
    PROVE  ServerInv'
<1>0. Tables
  BY DEF ServerInv
<1>1. \A h \in Live : LET d == SendBuffer(clientHndl[h], 1, wok)
                      IN  Sound(d) /\ d.live = "open"
  BY <1>0, SendSound DEF Tables, ClientsSound
<1>2. UNCHANGED <<pcb, clientPCB, rqst, next_handle, handler, usedFreed>>
  BY DEF Broadcast, AppSend
<1>3. CASE Broadcast(wok)
  <2>1. /\ DOMAIN clientHndl' = Live
        /\ \A h \in Live : clientHndl'[h] \in {clientHndl[h], SendBuffer(clientHndl[h], 1, wok)}
    BY <1>3 DEF Broadcast
  <2>2. Live' = Live /\ ClientsSound'
    BY <1>0, <1>1, <2>1 DEF Live, Tables, ClientsSound
  <2> QED
    BY <1>0, <1>2, <2>2, ReplaceKeeps DEF ServerInv
<1>4. ASSUME NEW h \in Handles, AppSend(h, wok)
      PROVE  ServerInv'
  <2>1. /\ h \in Live
        /\ clientHndl' = [clientHndl EXCEPT ![h] = SendBuffer(clientHndl[h], 1, wok)]
    BY <1>4 DEF AppSend, Known
  <2>2. Live' = Live /\ ClientsSound'
    BY <1>0, <1>1, <2>1 DEF Live, Tables, ClientsSound
  <2> QED
    BY <1>0, <1>2, <2>2, ReplaceKeeps DEF ServerInv
<1> QED
  BY <1>3, <1>4

-----------------------------------------------------------------------------
(* The theorems                                                             *)

\* The server starts with empty tables.
LEMMA ServerStart == Init => ServerInv
<1> SUFFICES ASSUME Init PROVE ServerInv
  OBVIOUS
<1>1. Live = {} /\ DOMAIN clientPCB = {} /\ DOMAIN rqst = {}
  BY DEF Init, Live
<1>2. Cardinality(Pcbs) \in Nat
  BY HandlesAssumption, FS_CardinalityType
<1>3. next_handle \in (HandleMin - 1)..HandleMax
  BY <1>2, HandlesAssumption DEF Init
<1>4. TablesType /\ ClientsSound /\ MappedConnected /\ NoOrphan
  BY <1>1, <1>3 DEF Init, TablesType, ClientsSound, MappedConnected, NoOrphan
<1>5. TablesAgree
  BY <1>1 DEF TablesAgree, Range, IsInjective
<1> QED
  BY <1>4, <1>5 DEF Init, ServerInv, Tables

\* Every callback, turn of the loop and call of the application.
LEMMA ServerStep == ServerInv /\ [Next]_vars => ServerInv'
<1> SUFFICES ASSUME ServerInv, [Next]_vars PROVE ServerInv'
  OBVIOUS
<1>1. /\ \A wok \in WriteOutcomes : wok \in BOOLEAN
      /\ \A cok \in CloseOutcomes : cok \in BOOLEAN
  BY ServerAssumption
<1>2. CASE \E p \in Pcbs : Accept(p) \/ Err(p) \/ (\E rs \in Pipelines : Recv(p, rs))
  BY <1>2, AcceptErrKeep, RecvKeeps
<1>3. CASE \E p \in Pcbs, cok \in CloseOutcomes : PeerClosed(p, cok)
  BY <1>1, <1>3, PeerClosedKeeps
<1>4. CASE \E p \in Pcbs, wok \in WriteOutcomes, cok \in CloseOutcomes :
              Sent(p, wok, cok) \/ (\E idle \in BOOLEAN : Poll(p, idle, wok, cok))
  BY <1>1, <1>4, SentPollKeep
<1>5. CASE LoopEnd
  BY <1>5 DEF LoopEnd, ServerInv, Tables, TablesType, ClientsSound, TablesAgree,
              MappedConnected, NoOrphan, Live, Mapped
<1>6. ASSUME NEW wok \in WriteOutcomes,
             \/ TurnUpgrade(wok) \/ TurnText(wok) \/ TurnPing(wok) \/ TurnClose(wok)
             \/ Broadcast(wok)
             \/ \E h \in Handles : AppSend(h, wok)
             \/ \E close \in BOOLEAN, cok \in CloseOutcomes :
                   TurnPage(close, wok, cok) \/ TurnNotFound(close, wok, cok)
      PROVE  ServerInv'
  BY <1>1, <1>6, RequestTurns, WebsocketTurns, AppSendsKeep
<1>7. CASE \E cok \in CloseOutcomes : TurnBadUpgrade(cok)
  BY <1>1, <1>7, RequestTurns
<1>8. CASE UNCHANGED vars
  BY <1>8 DEF vars, ServerInv, Tables, TablesType, ClientsSound, TablesAgree,
              MappedConnected, NoOrphan, Live, Mapped
<1> QED
  BY <1>2, <1>3, <1>4, <1>5, <1>6, <1>7, <1>8 DEF Next

\* The inductive invariant of the server's tables.
THEOREM ServerInvariance == Spec => []ServerInv
BY ServerStart, ServerStep, PTL DEF Spec

\* The tables hold well-formed clients, whatever the callbacks do to them.
THEOREM ServerType == Spec => []TypeOK
<1>1. ServerInv => TypeOK
  BY DEF ServerInv, Tables, TablesType, ClientsSound, Sound, TypeOK
<1> QED
  BY <1>1, ServerInvariance, PTL

\* Every client in the table is open, and the bytes given to lwIP for it are the
\* bytes it accepted, in order, each once: what is true of one connection alone
\* stays true of many that share the server.
THEOREM ServerStreams == Spec => []ClientsSound
<1>1. ServerInv => ClientsSound
  BY DEF ServerInv, Tables
<1> QED
  BY <1>1, ServerInvariance, PTL

\* addClient and deleteClient keep the two tables in step, for every number of
\* connections that is less than that of handles, also after next_handle_ has
\* wrapped any number of times.
THEOREM ServerTables == Spec => []TablesAgree
<1>1. ServerInv => TablesAgree
  BY DEF ServerInv, Tables
<1> QED
  BY <1>1, ServerInvariance, PTL

\* No entry of clientPCB_ outlives its control block: a block that lwIP uses
\* again is new to tcp_server_accept.
THEOREM ServerMapped == Spec => []MappedConnected
<1>1. ServerInv => MappedConnected
  BY DEF ServerInv, Tables
<1> QED
  BY <1>1, ServerInvariance, PTL

\* No connection that lwIP holds is without a client, but for a failed
\* altcp_close after the peer has closed.
THEOREM ServerNoOrphan == Spec => []NoOrphan
<1>1. ServerInv => NoOrphan
  BY DEF ServerInv, Tables
<1> QED
  BY <1>1, ServerInvariance, PTL

\* A request that was answered keeps its client until the loop is done with it.
THEOREM ServerAnswers == Spec => []AnswerKeepsClient
<1>1. ServerInv => AnswerKeepsClient
  BY DEF ServerInv, AnswerKeepsClient
<1> QED
  BY <1>1, ServerInvariance, PTL
=============================================================================
