----------------------------- MODULE WebClient -----------------------------
(***************************************************************************)
(* The CLIENT and SENDBUF classes of network/web.cpp and the two routines  *)
(* that drive a client's output, WEB::write_next and WEB::close_client, as *)
(* operators on the record of one client.                                  *)
(*                                                                         *)
(* A byte is the position it has in the stream of bytes the server         *)
(* accepted for the connection, so a send buffer is the interval of        *)
(* positions that starts at its (ghost) base.  What is handed to lwIP by   *)
(* altcp_write is recorded, byte for byte, in the ghost wire; queued and   *)
(* acked count the bytes accepted by queue_send and reported by the sent   *)
(* callback.                                                               *)
(***************************************************************************)
EXTENDS Integers, Sequences

CONSTANTS
    MSS,      \* TCP_MSS, the most that write_next offers lwIP in one call
    SNDBUF    \* TCP_SND_BUF, what lwIP holds unacknowledged for a connection

ASSUME WindowAssumption == MSS \in Nat \ {0} /\ SNDBUF \in Nat \ {0}

SendBuf == [base : Nat, size : Nat, sent : Nat, ack : Nat]

\* live: "open" while the client is in the tables, "closed" once altcp_close
\* has taken the pcb, "lost" once the peer or an error has ended it.
Client == [sendbuf : Seq(SendBuf), closed : BOOLEAN, websocket : BOOLEAN,
           ws_close_sent : BOOLEAN, live : {"open", "closed", "lost"},
           queued : Nat, wire : Seq(Nat), acked : Nat]

NewClient == [sendbuf |-> <<>>, closed |-> FALSE, websocket |-> FALSE,
              ws_close_sent |-> FALSE, live |-> "open",
              queued |-> 0, wire |-> <<>>, acked |-> 0]

Least(a, b) == IF a < b THEN a ELSE b

-----------------------------------------------------------------------------
(* SENDBUF                                                                  *)

ToSend(b) == b.size - b.sent

\* SENDBUF::get_next advances sent_ by the bytes it hands out.
Take(b, k) == [b EXCEPT !.sent = @ + k]

\* Mutant of Requeue: it takes back one byte too many.
RequeueOneMore(b, k) == [b EXCEPT !.sent = @ - k - 1]

\* SENDBUF::requeue takes back the last k bytes handed out.  The bytes are
\* compared with the buffer's own, which is where they came from.
Requeue(b, k) == IF b.sent >= k THEN [b EXCEPT !.sent = @ - k] ELSE b

\* SENDBUF::acknowledge credits count bytes; what does not fit is returned.
AckBuf(b, count) == [b EXCEPT !.ack = Least(b.size, b.ack + count)]
AckLeft(b, count) == IF b.ack + count > b.size THEN b.ack + count - b.size ELSE 0

-----------------------------------------------------------------------------
(* CLIENT's list of send buffers                                            *)

\* Mutant: a buffer leaves the list as soon as it is sent.
AckFrontSent(q, count) ==
    LET b == AckBuf(Head(q), count)
    IN  IF b.sent = b.size THEN Tail(q) ELSE [q EXCEPT ![1] = b]

\* One turn of the loop of CLIENT::acknowledge: the front is credited and
\* leaves the list when all of it is acknowledged.
AckFront(q, count) ==
    LET b == AckBuf(Head(q), count)
    IN  IF b.ack = b.size THEN Tail(q) ELSE [q EXCEPT ![1] = b]

\* The remaining turns of the loop, taken while some of count is left over.
AckRest[q \in Seq(SendBuf), count \in Nat] ==
    IF q = <<>> \/ count = 0
    THEN q
    ELSE AckRest[AckFront(q, count), AckLeft(Head(q), count)]

\* Acknowledging stops at the first buffer that is not filled: it never
\* credits a later one.
Acknowledge(q, count) ==
    IF q = <<>> THEN q
    ELSE IF AckLeft(Head(q), count) = 0 THEN AckFront(q, count)
    ELSE AckRest[AckFront(q, count), AckLeft(Head(q), count)]

NewBuf(c, n) == [base |-> c.queued, size |-> n, sent |-> 0, ack |-> 0]

QueueSend(c, n) == [c EXCEPT !.sendbuf = Append(@, NewBuf(c, n)),
                             !.queued = @ + n]

MoreToSend(c) == c.sendbuf # <<>>

\* CLIENT::setClosed also forgets the pcb, so closed stands for pcb_ = nullptr.
SetClosed(c) == [c EXCEPT !.closed = TRUE]

-----------------------------------------------------------------------------
(* WEB::close_client and WEB::write_next                                    *)

\* deleteClient runs ~CLIENT, which frees the buffers that are left.
Deleted(c, how) == [c EXCEPT !.sendbuf = <<>>, !.closed = TRUE, !.live = how]

\* Mutant of CloseClient: it does not look for what is left to send.
CloseAtOnce(c, cok) ==
    LET d == [SetClosed(c) EXCEPT !.sendbuf = Acknowledge(@, 0)]
    IN  IF cok THEN Deleted(d, "closed") ELSE d
\* close_client with isClosed = false: the pcb is closed, and the client
\* deleted, only when nothing is left to send or to be acknowledged; cok is
\* whether altcp_close succeeds.
CloseClient(c, cok) ==
    LET d == [SetClosed(c) EXCEPT !.sendbuf = Acknowledge(@, 0)]
    IN  IF ~MoreToSend(d) /\ cok THEN Deleted(d, "closed") ELSE d

\* What write_next may offer: the free part of lwIP's send buffer, at most MSS.
Window(c) == Least(MSS, SNDBUF - (Len(c.wire) - c.acked))

\* CLIENT::get_next drops an acknowledged front, then takes from the front
\* alone, and only when lwIP has room.
Settled(c) == IF Window(c) > 0 THEN Acknowledge(c.sendbuf, 0) ELSE c.sendbuf

NextLen(c) == IF Window(c) > 0 /\ Settled(c) # <<>>
              THEN Least(Window(c), ToSend(Head(Settled(c))))
              ELSE 0

\* The k bytes at sent_ of buffer b.
Chunk(b, k) == [i \in 1..k |-> b.base + b.sent + i]

\* get_next, altcp_write and, when wok is false, requeue.
WriteFront(c, wok) ==
    LET q == Settled(c)
        k == NextLen(c)
    IN  IF k = 0 THEN [c EXCEPT !.sendbuf = q]
        ELSE IF wok
        THEN [c EXCEPT !.sendbuf = [q EXCEPT ![1] = Take(q[1], k)],
                       !.wire = @ \o Chunk(q[1], k)]
        ELSE [c EXCEPT !.sendbuf = [q EXCEPT ![1] = Requeue(Take(q[1], k), k)]]

WriteNext(c, wok, cok) ==
    LET d == WriteFront(c, wok)
    IN  IF d.closed /\ ~MoreToSend(d) THEN CloseClient(d, cok) ELSE d

\* Mutant: a closed client still finds itself.
SendAlways(c, n, wok) == WriteNext(QueueSend(c, n), wok, TRUE)

\* WEB::send_buffer on the client's own pcb, which is null, and so finds no
\* client, once the client is closed.
SendBuffer(c, n, wok) ==
    IF c.closed THEN c ELSE WriteNext(QueueSend(c, n), wok, TRUE)

\* mark_for_close looks the client up by its pcb and only sets the flag.
MarkForClose(c) == SetClosed(c)

\* The end of process_rqst: close_client looks up the client's own pcb, which
\* is null once the client is closed.
EndRequest(c, close, cok) == IF close /\ ~c.closed THEN CloseClient(c, cok) ELSE c

-----------------------------------------------------------------------------
(* What the properties say of a client, in terms of its stream               *)

\* lwIP was given the stream's bytes in order, each once.
StreamInOrder(c) == \A i \in 1..Len(c.wire) : c.wire[i] = i

\* No buffer is acknowledged beyond what was sent, or sent beyond its end.
WithinBounds(q) ==
    \A i \in 1..Len(q) : q[i].ack <= q[i].sent /\ q[i].sent <= q[i].size

\* Every byte accepted was handed to lwIP and acknowledged.
Delivered(c) == Len(c.wire) = c.queued /\ c.acked = c.queued

\* The buffers of q follow each other and only the first has bytes sent; from
\* its first unacknowledged byte to their end they are the rest of the stream.
Adjacent(q) ==
    \A i \in 2..Len(q) : /\ q[i].base = q[i-1].base + q[i-1].size
                         /\ q[i].sent = 0 /\ q[i].ack = 0
Describes(q, acked, written, queued) ==
    /\ Adjacent(q)
    /\ q = <<>> => acked = queued /\ written = queued
    /\ q # <<>> => /\ q[1].base + q[1].ack = acked
                   /\ q[1].base + q[1].sent = written
                   /\ q[Len(q)].base + q[Len(q)].size = queued
=============================================================================
