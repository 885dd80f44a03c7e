----------------------------- MODULE Connection -----------------------------
(***************************************************************************)
(* The life of one connection of the web server (network/web.cpp): every   *)
(* callback lwIP makes for it, every request the server processes on it    *)
(* and every send of the application, each as one action.  The callbacks   *)
(* run one at a time, under the cyw43 lock.                                *)
(*                                                                         *)
(* lwIP is external: it reports as sent what it was given, grants at most  *)
(* SNDBUF unacknowledged bytes, polls for ever, and its altcp_write and    *)
(* altcp_close may fail where WriteOutcomes and CloseOutcomes say so.      *)
(***************************************************************************)
EXTENDS WebClient

CONSTANTS
    Sizes,           \* lengths of the buffers the application sends
    CtlLen,          \* length of the server's own messages: 101, 404, PONG, CLOSE
    MaxBytes,        \* bound: bytes accepted over the life of the connection
    MaxBufs,         \* bound: send buffers queued at a time
    WriteOutcomes,   \* results of altcp_write: {TRUE}, or BOOLEAN if it may fail
    CloseOutcomes,   \* results of altcp_close
    WsIdle           \* WS_IDLE_TIME > 0: websockets are closed when idle

ASSUME SizesAssumption == Sizes \subseteq Nat /\ CtlLen \in Nat
ASSUME BoundsAssumption == MaxBytes \in Nat /\ MaxBufs \in Nat
ASSUME OutcomesAssumption == /\ WriteOutcomes \subseteq BOOLEAN
                             /\ CloseOutcomes \subseteq BOOLEAN
                             /\ WsIdle \in BOOLEAN

VARIABLES
    client,       \* the CLIENT object
    closeFrames,  \* ghost: websocket CLOSE frames queued so far
    hampered      \* ghost: altcp_write has failed, or an empty buffer had to wait

vars == <<client, closeFrames, hampered>>

Open == client.live = "open"

\* The bounds on the inputs: room for one more buffer of n bytes.
Fits(n) == client.queued + n <= MaxBytes /\ Len(client.sendbuf) < MaxBufs

-----------------------------------------------------------------------------
Init == client = NewClient /\ closeFrames = 0 /\ hampered = FALSE

\* What a callback into the application leaves behind: it sends nothing, or
\* one buffer with send_data or send_message.
Answers(wok) ==
    {client} \cup {SendBuffer(client, n, wok) : n \in {m \in Sizes : Fits(m)}}

\* send_data, send_message or broadcast_websocket at a time of its choosing.
AppSend(n, wok) ==
    /\ Open /\ Fits(n)
    /\ client' = SendBuffer(client, n, wok)
    /\ UNCHANGED closeFrames

\* process_rqst for a request the application handles; it chooses close.
HttpHandled(close, wok, cok) ==
    /\ Open /\ ~client.websocket
    /\ \E c \in Answers(wok) : client' = EndRequest(c, close, cok)
    /\ UNCHANGED closeFrames

\* process_rqst for a request it does not handle: 404.
HttpUnhandled(close, wok, cok) ==
    /\ Open /\ ~client.websocket /\ Fits(CtlLen)
    /\ client' = EndRequest(SendBuffer(client, CtlLen, wok), close, cok)
    /\ UNCHANGED closeFrames

\* process_rqst with an Upgrade header, open_websocket succeeds.
OpenWebSocket(wok) ==
    /\ Open /\ ~client.websocket /\ Fits(CtlLen)
    /\ client' = [SendBuffer(client, CtlLen, wok) EXCEPT !.websocket = TRUE]
    /\ UNCHANGED closeFrames

\* The same with a bad websocket request: no answer, and the client is closed.
BadWebSocket(cok) ==
    /\ Open /\ ~client.websocket
    /\ client' = EndRequest(client, TRUE, cok)
    /\ UNCHANGED closeFrames

\* process_websocket, one action per opcode.
WsText(wok) ==
    /\ Open /\ client.websocket
    /\ client' \in Answers(wok)
    /\ UNCHANGED closeFrames

WsPing(wok) ==
    /\ Open /\ client.websocket /\ Fits(CtlLen)
    /\ client' = SendBuffer(client, CtlLen, wok)
    /\ UNCHANGED closeFrames

\* Mutant: nobody remembers that the CLOSE frame was sent.
SendWsCloseAgain(c, wok) == SendBuffer(c, CtlLen, wok)

\* Queue a CLOSE frame; ws_close_sent stops the activity clock.
SendWsClose(c, wok) == SendBuffer([c EXCEPT !.ws_close_sent = TRUE], CtlLen, wok)

\* Whether that CLOSE frame gets into the queue.
Counted(c) == IF c.closed THEN 0 ELSE 1

WsClose(wok) ==
    /\ Open /\ client.websocket /\ Fits(CtlLen)
    /\ IF client.ws_close_sent
       THEN client' = MarkForClose(client) /\ UNCHANGED closeFrames
       ELSE /\ client' = MarkForClose(SendWsClose(client, wok))
            /\ closeFrames' = closeFrames + Counted(client)

\* Mutant: the sent callback credits the bytes and writes no more.
SentNoWrite(n, wok, cok) ==
    /\ Open /\ n <= Len(client.wire) - client.acked
    /\ client' = [client EXCEPT !.sendbuf = Acknowledge(@, n), !.acked = @ + n]
    /\ UNCHANGED closeFrames

\* tcp_server_sent: the peer has acknowledged n more bytes.
Sent(n, wok, cok) ==
    /\ Open /\ n <= Len(client.wire) - client.acked
    /\ client' = WriteNext([client EXCEPT !.sendbuf = Acknowledge(@, n),
                                          !.acked = @ + n], wok, cok)
    /\ UNCHANGED closeFrames

\* CLIENT::isIdle as the poll callback sees it.  The poll has just written,
\* and so refreshed the clock, when there was more to send, unless a CLOSE
\* frame has stopped the clock.
MayBeIdle ==
    /\ ~client.closed
    /\ client.websocket => WsIdle
    /\ MoreToSend(client) => client.ws_close_sent

\* Mutant: the poll callback does not write again.
PollNoWrite(wok) ==
    /\ Open /\ ~client.closed
    /\ UNCHANGED <<client, closeFrames>>

\* tcp_server_poll of a client that is not closed and not idle.
PollWrite(wok) ==
    /\ Open /\ ~client.closed
    /\ client' = IF MoreToSend(client) THEN WriteNext(client, wok, TRUE) ELSE client
    /\ UNCHANGED closeFrames

\* tcp_server_poll of an idle client: a websocket is first sent a CLOSE frame.
PollIdle(wok, cok) ==
    /\ Open /\ MayBeIdle /\ Fits(CtlLen)
    /\ LET c == IF MoreToSend(client) THEN WriteNext(client, wok, TRUE) ELSE client
       IN  IF c.websocket /\ ~c.ws_close_sent
           THEN client' = SendWsClose(c, wok) /\ closeFrames' = closeFrames + Counted(c)
           ELSE client' = CloseClient(MarkForClose(c), cok) /\ UNCHANGED closeFrames

\* tcp_server_poll of a closed client: only another attempt at closing.
PollClosed(cok) ==
    /\ Open /\ client.closed
    /\ client' = CloseClient(client, cok)
    /\ UNCHANGED closeFrames

\* tcp_server_recv without data: the peer has closed; whatever is queued goes.
PeerClosed ==
    /\ Open
    /\ client' = Deleted(client, "lost")
    /\ UNCHANGED closeFrames

\* tcp_server_err: lwIP has already freed the pcb.
Err ==
    /\ Open
    /\ client' = Deleted(client, "lost")
    /\ UNCHANGED closeFrames

\* An attempt to write, in a step that leaves these buffers in the queue.
Attempt(wok) ==
    hampered' = (hampered \/ ~wok \/ \E i \in 1..Len(client'.sendbuf) : client'.sendbuf[i].size = 0)

Next ==
    \/ \E wok \in WriteOutcomes :
       /\ \/ \E n \in Sizes : AppSend(n, wok)
          \/ OpenWebSocket(wok) \/ WsText(wok) \/ WsPing(wok) \/ WsClose(wok)
          \/ PollWrite(wok)
          \/ \E cok \in CloseOutcomes :
                \/ \E close \in BOOLEAN : HttpHandled(close, wok, cok)
                \/ \E close \in BOOLEAN : HttpUnhandled(close, wok, cok)
                \/ \E n \in 1..SNDBUF : Sent(n, wok, cok)
                \/ PollIdle(wok, cok)
       /\ Attempt(wok)
    \/ /\ \/ \E cok \in CloseOutcomes : BadWebSocket(cok) \/ PollClosed(cok)
          \/ PeerClosed
          \/ Err
       /\ UNCHANGED hampered

Spec == Init /\ [][Next]_vars

\* lwIP reports every byte it holds as sent, or the connection dies; its poll
\* timer runs for ever; and it is not out of memory at every poll.
Fairness ==
    /\ WF_client(\E n \in 1..SNDBUF, wok \in WriteOutcomes, cok \in CloseOutcomes :
                    Sent(n, wok, cok))
    /\ SF_client(PollWrite(TRUE))
    /\ SF_client(PollClosed(TRUE))

FairSpec == Spec /\ Fairness

-----------------------------------------------------------------------------
(* Properties                                                               *)

\* Every client the callbacks leave behind is a well-formed CLIENT.
TypeOK == client \in Client /\ closeFrames \in Nat

\* The bytes handed to altcp_write are the accepted bytes, in order, each
\* exactly once, whatever get_next, requeue and acknowledge did in between.
InOrder == StreamInOrder(client)

\* The state SENDBUF::acknowledge reports as "Acknowledge count exceeds sent
\* count" is never reached, and no buffer is sent beyond its end.
AckWithinSent == WithinBounds(client.sendbuf)

\* A connection the server closes by itself has delivered every byte it
\* accepted: close_client waits for write_next and the sent callback.
GracefulClose == client.live = "closed" => Delivered(client)

\* At most one websocket CLOSE frame is sent, whether the idle poll or the
\* peer's own CLOSE comes first.
OneCloseFrame == closeFrames <= 1

\* The queue describes the unacknowledged part of the stream: the buffers are
\* adjacent, the front alone has bytes in flight, and the stream ends where
\* the last buffer ends.
QueueMatchesStream ==
    Open => Describes(client.sendbuf, client.acked, Len(client.wire), client.queued)

Stream == INSTANCE ByteStream WITH
    accepted <- client.queued, wire <- client.wire, acked <- client.acked,
    phase <- IF Open /\ client.closed THEN "closing" ELSE client.live

\* The connection implements the byte stream it promises.
ImplementsByteStream == Stream!Spec

\* What is queued on a client that stays open is delivered, even when
\* altcp_write fails: the poll callback writes again.
OpenDrains == (MoreToSend(client) /\ ~client.closed)
                ~> (~MoreToSend(client) \/ client.closed)

\* A client that is closed or marked for close leaves the tables, unless
\* altcp_write failed or an empty buffer waited in its queue: every sent callback
\* writes the next part until all is acknowledged.
ClosedGoes == client.closed ~> (~Open \/ hampered)

\* After an answer that ends the connection, such as process_http_rqst's 404 to
\* a request nobody handled, the client is closed and the connection goes too:
\* "an error response is sent to client and connection is closed"
\* (network/web.h:373).
ErrorAnswerCloses == (client.closed /\ ~client.websocket) ~> ~Open
=============================================================================
