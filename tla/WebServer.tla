----------------------------- MODULE WebServer -----------------------------
(***************************************************************************)
(* The web server's tables of clients (network/web.cpp): clientPCB_ maps   *)
(* lwIP's control blocks to client handles, clientHndl_ maps handles to    *)
(* CLIENT objects.  Connections are accepted, requests arrive, possibly    *)
(* several in one segment, and are processed one by one in the loop of     *)
(* tcp_server_recv; sends, polls, errors and closes come in any order      *)
(* between the callbacks.  What happens inside one client is WebClient's.  *)
(*                                                                         *)
(* lwIP is external: a control block is free or connected, a freed one may *)
(* be used again for the next connection.                                  *)
(***************************************************************************)
EXTENDS WebClient, FiniteSets, Functions

CONSTANTS
    Pcbs,            \* lwIP's control blocks
    HandleMin,       \* first client handle, 1000 in the code
    HandleMax,       \* last one before the counter wraps, 2^32 - 1 in the code
    Requests,        \* kinds of requests that arrive, HTTP's and websocket's
    MaxPipelined,    \* bound: requests waiting in a client's rqst_
    MaxBytes,        \* bound: bytes accepted over the life of a connection
    WriteOutcomes,   \* results of altcp_write
    CloseOutcomes,   \* results of altcp_close
    NoPcb            \* no control block

ASSUME HandlesAssumption ==
    /\ HandleMin \in Nat \ {0} /\ HandleMax \in Nat
    /\ IsFiniteSet(Pcbs) /\ Cardinality(Pcbs) <= HandleMax - HandleMin
ASSUME NoPcbAssumption == NoPcb \notin Pcbs
ASSUME ServerAssumption ==
    /\ MaxPipelined \in Nat /\ MaxBytes \in Nat
    /\ WriteOutcomes \subseteq BOOLEAN /\ CloseOutcomes \subseteq BOOLEAN

\* The requests the server tells apart.
HttpRequests == {"page", "upgrade", "bad_upgrade"}
WsFrames == {"text", "ping", "close"}
ASSUME RequestsAssumption == Requests \subseteq HttpRequests \cup WsFrames

VARIABLES
    pcb,           \* lwIP: "free", "conn", or "unclosed" after the peer has
                   \* closed and altcp_close has failed
    clientPCB,     \* clientPCB_, a function on the control blocks it knows
    clientHndl,    \* clientHndl_, a function on the live handles
    rqst,          \* rqst_ of every live client: the requests not yet processed
    next_handle,   \* CLIENT::next_handle_
    handler,       \* the recv callback in progress: its control block and the
                   \* handle of the CLIENT it points to, or NoPcb
    usedFreed      \* ghost: the loop used a CLIENT after it was deleted, in a
                   \* turn that had queued an answer ("answered") or not ("silent")

vars == <<pcb, clientPCB, clientHndl, rqst, next_handle, handler, usedFreed>>

Handles == HandleMin..HandleMax
Live == DOMAIN clientHndl
Idle == handler = NoPcb

\* findClient by handle and by control block
Known(h) == h \in Live
Mapped(p) == p \in DOMAIN clientPCB

Without(f, x) == [y \in DOMAIN f \ {x} |-> f[y]]
With(f, x, v) == [y \in DOMAIN f \cup {x} |-> IF y = x THEN v ELSE f[y]]

-----------------------------------------------------------------------------
(* The tables                                                               *)

Advance(h) == IF h = HandleMax THEN HandleMin ELSE h + 1

\* Mutants: the counter alone, without and with its wrap to HandleMin.
NextHandleNoWrap == next_handle + 1
NextHandleNoSkip == Advance(next_handle)

\* CLIENT::nextHandle: the first handle after the last one given out, going
\* round, that no live client has.
NextHandle ==
    LET first == Advance(next_handle)
        free  == Handles \ Live
        steps(h) == (h - first) % (HandleMax - HandleMin + 1)
    IN  CHOOSE h \in free : \A g \in free : steps(h) <= steps(g)

\* addClient: std::map::emplace leaves an existing entry as it is.
AddClient(p) ==
    LET h == NextHandle
    IN  /\ next_handle' = h
        /\ clientPCB' = With(clientPCB, p, h)
        /\ clientHndl' = IF Known(h) THEN clientHndl ELSE With(clientHndl, h, NewClient)
        /\ rqst' = IF Known(h) THEN rqst ELSE With(rqst, h, <<>>)

\* deleteClient
DeleteClient(p) ==
    /\ clientPCB' = Without(clientPCB, p)
    /\ clientHndl' = Without(clientHndl, clientPCB[p])
    /\ rqst' = Without(rqst, clientPCB[p])

\* What a routine of WebClient leaves of the client of p: a client that was
\* closed is deleted, and lwIP has freed its control block.
Store(p, c) ==
    IF c.live = "open"
    THEN /\ clientHndl' = [clientHndl EXCEPT ![clientPCB[p]] = c]
         /\ UNCHANGED <<pcb, clientPCB, rqst>>
    ELSE /\ pcb' = [pcb EXCEPT ![p] = "free"]
         /\ DeleteClient(p)

-----------------------------------------------------------------------------
Init ==
    /\ pcb = [p \in Pcbs |-> "free"]
    /\ clientPCB = <<>> /\ clientHndl = <<>> /\ rqst = <<>>
    /\ next_handle = HandleMin - 1
    /\ handler = NoPcb
    /\ usedFreed = "no"

\* tcp_server_accept of a connection for which lwIP takes control block p.
Accept(p) ==
    /\ Idle /\ pcb[p] = "free"
    /\ pcb' = [pcb EXCEPT ![p] = "conn"]
    /\ IF Mapped(p) THEN UNCHANGED <<clientPCB, clientHndl, rqst, next_handle>>
                    ELSE AddClient(p)
    /\ UNCHANGED <<handler, usedFreed>>

\* tcp_server_recv with data: the requests rs join rqst_ and the loop begins.
\* A peer speaks the protocol its connection is in; data of a connection that
\* has no client is dropped.  The bound leaves a byte of answer per request.
Recv(p, rs) ==
    /\ Idle /\ pcb[p] = "conn" /\ Mapped(p)
    /\ LET c == clientHndl[clientPCB[p]]
       IN  /\ Range(rs) \subseteq IF c.websocket THEN WsFrames ELSE HttpRequests
           /\ c.closed \/ c.queued + Len(rs) <= MaxBytes
    /\ rqst' = [rqst EXCEPT ![clientPCB[p]] = @ \o rs]
    /\ handler' = p
    /\ UNCHANGED <<pcb, clientPCB, clientHndl, next_handle, usedFreed>>

\* The end of the loop of tcp_server_recv: no complete request is left.
LoopEnd ==
    /\ ~Idle /\ Mapped(handler) /\ rqst[clientPCB[handler]] = <<>>
    /\ handler' = NoPcb
    /\ UNCHANGED <<pcb, clientPCB, clientHndl, rqst, next_handle, usedFreed>>

\* One turn of the loop that leaves client c behind: the request is dropped
\* from rqst_ (resetRqst), or all of them (clearRqst).  The client the loop
\* points to is used again, found or not.
EndTurn(c, rest) ==
    LET p == handler
        h == clientPCB[p]
    IN  IF c.live = "open"
        THEN /\ clientHndl' = [clientHndl EXCEPT ![h] = c]
             /\ rqst' = [rqst EXCEPT ![h] = rest]
             /\ UNCHANGED <<pcb, clientPCB, handler, usedFreed>>
        ELSE /\ Store(p, c)
             /\ usedFreed' = IF c.queued > clientHndl[h].queued THEN "answered" ELSE "silent"
             /\ handler' = NoPcb

\* The client the loop works on, its requests, and the next of them.
Turn == ~Idle /\ Mapped(handler) /\ rqst[clientPCB[handler]] # <<>>
Current == clientHndl[clientPCB[handler]]
Pending == rqst[clientPCB[handler]]

Fits(c) == c.queued < MaxBytes

\* What a callback into the application may leave of the client: nothing sent,
\* or one byte with send_data or send_message.
Answers(wok) == {Current, SendBuffer(Current, 1, wok)}

\* process_rqst of a request the application handles.
TurnPage(close, wok, cok) ==
    /\ Turn /\ ~Current.websocket /\ Head(Pending) = "page"
    /\ \E c \in Answers(wok) : EndTurn(EndRequest(c, close, cok), Tail(Pending))
    /\ UNCHANGED next_handle

\* process_rqst of a request it does not handle: the server answers with 404.
TurnNotFound(close, wok, cok) ==
    /\ Turn /\ ~Current.websocket /\ Head(Pending) = "page"
    /\ EndTurn(EndRequest(SendBuffer(Current, 1, wok), close, cok), Tail(Pending))
    /\ UNCHANGED next_handle

\* process_rqst of a websocket upgrade; what follows it in rqst_ is cleared.
TurnUpgrade(wok) ==
    /\ Turn /\ ~Current.websocket /\ Head(Pending) = "upgrade"
    /\ EndTurn([SendBuffer(Current, 1, wok) EXCEPT !.websocket = TRUE], <<>>)
    /\ UNCHANGED next_handle

\* process_rqst of an upgrade that open_websocket rejects without an answer.
TurnBadUpgrade(cok) ==
    /\ Turn /\ ~Current.websocket /\ Head(Pending) = "bad_upgrade"
    /\ EndTurn(EndRequest(Current, TRUE, cok), Tail(Pending))
    /\ UNCHANGED next_handle

\* process_websocket
TurnText(wok) ==
    /\ Turn /\ Current.websocket /\ Head(Pending) = "text"
    /\ \E c \in Answers(wok) : EndTurn(c, Tail(Pending))
    /\ UNCHANGED next_handle

TurnPing(wok) ==
    /\ Turn /\ Current.websocket /\ Head(Pending) = "ping"
    /\ EndTurn(SendBuffer(Current, 1, wok), Tail(Pending))
    /\ UNCHANGED next_handle

TurnClose(wok) ==
    /\ Turn /\ Current.websocket /\ Head(Pending) = "close"
    /\ LET c == IF Current.ws_close_sent THEN Current
                ELSE SendBuffer([Current EXCEPT !.ws_close_sent = TRUE], 1, wok)
       IN  EndTurn(MarkForClose(c), Tail(Pending))
    /\ UNCHANGED next_handle

-----------------------------------------------------------------------------
(* The callbacks and calls that come between requests                       *)

\* tcp_server_sent: the peer has acknowledged the bytes in flight.
Sent(p, wok, cok) ==
    /\ Idle /\ pcb[p] = "conn" /\ Mapped(p)
    /\ LET c == clientHndl[clientPCB[p]]
           n == Len(c.wire) - c.acked
       IN  /\ n > 0
           /\ Store(p, WriteNext([c EXCEPT !.sendbuf = Acknowledge(@, n), !.acked = @ + n],
                                 wok, cok))
    /\ UNCHANGED <<next_handle, handler, usedFreed>>

\* tcp_server_poll.  A connection that is idle is closed.
Poll(p, idle, wok, cok) ==
    /\ Idle /\ pcb[p] = "conn" /\ Mapped(p)
    /\ LET c == clientHndl[clientPCB[p]]
           d == IF MoreToSend(c) THEN WriteNext(c, wok, TRUE) ELSE c
       IN  /\ idle => ~c.closed /\ ~c.websocket /\ ~MoreToSend(c)
           /\ Store(p, IF c.closed THEN CloseClient(c, cok)
                       ELSE IF idle THEN CloseClient(MarkForClose(d), cok)
                       ELSE d)
    /\ UNCHANGED <<next_handle, handler, usedFreed>>

\* Mutant: the client is deleted and its connection left to lwIP.
PeerClosedOnly(p, cok) ==
    /\ Idle /\ pcb[p] = "conn" /\ Mapped(p)
    /\ DeleteClient(p)
    /\ UNCHANGED <<pcb, next_handle, handler, usedFreed>>

\* tcp_server_recv without data: close_client deletes the client whatever
\* altcp_close says.
PeerClosed(p, cok) ==
    /\ Idle /\ pcb[p] = "conn" /\ Mapped(p)
    /\ DeleteClient(p)
    /\ pcb' = [pcb EXCEPT ![p] = IF cok THEN "free" ELSE "unclosed"]
    /\ UNCHANGED <<next_handle, handler, usedFreed>>

\* Mutant: the error callback keeps the client.
ErrKeeps(p) ==
    /\ Idle /\ pcb[p] = "conn"
    /\ pcb' = [pcb EXCEPT ![p] = "free"]
    /\ UNCHANGED <<clientPCB, clientHndl, rqst, next_handle, handler, usedFreed>>

\* tcp_server_err: lwIP has freed the control block.
Err(p) ==
    /\ Idle /\ pcb[p] # "free"
    /\ pcb' = [pcb EXCEPT ![p] = "free"]
    /\ IF Mapped(p) THEN DeleteClient(p) ELSE UNCHANGED <<clientPCB, clientHndl, rqst>>
    /\ UNCHANGED <<next_handle, handler, usedFreed>>

\* send_data or send_message from the application to a live client.
AppSend(h, wok) ==
    /\ Idle /\ Known(h) /\ Fits(clientHndl[h])
    /\ clientHndl' = [clientHndl EXCEPT ![h] = SendBuffer(@, 1, wok)]
    /\ UNCHANGED <<pcb, clientPCB, rqst, next_handle, handler, usedFreed>>

\* broadcast_websocket: every websocket that still has its control block.
Broadcast(wok) ==
    /\ Idle /\ \A h \in Live : clientHndl[h].websocket => Fits(clientHndl[h])
    /\ clientHndl' = [h \in Live |-> IF clientHndl[h].websocket
                                     THEN SendBuffer(clientHndl[h], 1, wok)
                                     ELSE clientHndl[h]]
    /\ UNCHANGED <<pcb, clientPCB, rqst, next_handle, handler, usedFreed>>

Pipelines == UNION {[1..n -> Requests] : n \in 1..MaxPipelined}

Next ==
    \/ \E p \in Pcbs : Accept(p) \/ Err(p) \/ (\E rs \in Pipelines : Recv(p, rs))
    \/ \E p \in Pcbs, cok \in CloseOutcomes : PeerClosed(p, cok)
    \/ \E p \in Pcbs, wok \in WriteOutcomes, cok \in CloseOutcomes :
          Sent(p, wok, cok) \/ (\E idle \in BOOLEAN : Poll(p, idle, wok, cok))
    \/ LoopEnd
    \/ \E wok \in WriteOutcomes :
          \/ TurnUpgrade(wok) \/ TurnText(wok) \/ TurnPing(wok) \/ TurnClose(wok)
          \/ Broadcast(wok)
          \/ \E h \in Handles : AppSend(h, wok)
          \/ \E close \in BOOLEAN, cok \in CloseOutcomes :
                TurnPage(close, wok, cok) \/ TurnNotFound(close, wok, cok)
    \/ \E cok \in CloseOutcomes : TurnBadUpgrade(cok)

Spec == Init /\ [][Next]_vars

-----------------------------------------------------------------------------
(* Properties                                                               *)

\* The tables hold well-formed clients under handles of the handle range.
TypeOK ==
    /\ pcb \in [Pcbs -> {"free", "conn", "unclosed"}]
    /\ DOMAIN clientPCB \subseteq Pcbs /\ Live \subseteq Handles
    /\ \A h \in Live : clientHndl[h] \in Client /\ rqst[h] \in Seq(Requests)
    /\ DOMAIN rqst = Live
    /\ next_handle \in (HandleMin - 1)..HandleMax
    /\ handler \in Pcbs \cup {NoPcb}
    /\ usedFreed \in {"no", "silent", "answered"}

\* clientPCB_ and clientHndl_ describe the same clients: no handle is shared
\* by two connections, also after next_handle_ has wrapped, and no client is
\* left without its connection.
TablesAgree ==
    /\ Range(clientPCB) = Live
    /\ IsInjective(clientPCB)

\* Every control block in clientPCB_ is one lwIP still holds connected: when
\* lwIP uses it again, tcp_server_accept finds no entry of an earlier client.
MappedConnected == \A p \in DOMAIN clientPCB : pcb[p] = "conn"

\* lwIP holds no connection the server has forgotten, but for those whose
\* altcp_close failed after the peer had closed: no other path, of errors,
\* closes and polls, loses one.
NoOrphan == \A p \in Pcbs : pcb[p] = "conn" => Mapped(p)

\* A request that was answered does not lose its client within the loop of
\* tcp_server_recv, which goes on using it: close_client leaves the client to
\* the sent callback as long as the answer is not acknowledged.
AnswerKeepsClient == usedFreed # "answered"

\* No callback uses a CLIENT that deleteClient has freed: the loop of
\* tcp_server_recv must "Look up again in case client was closed"
\* (network/web.cpp:416).
NoUseAfterFree == usedFreed = "no"
=============================================================================
