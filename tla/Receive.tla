------------------------------- MODULE Receive -------------------------------
(***************************************************************************)
(* One connection from the client's bytes to the application's callbacks:  *)
(* tcp_server_recv of network/web.cpp with the request text of CLIENT, the *)
(* parser of HttpRequest and the frames of WsCodec.                        *)
(*                                                                         *)
(* TCP keeps the order of the bytes but cuts them as it likes, so a        *)
(* segment is any part of what is on the way.  The application answers     *)
(* every request it knows and keeps the connection open; an unknown one    *)
(* and a CLOSE frame close it.  How it is closed is in WebServer.          *)
(***************************************************************************)
EXTENDS WsCodec, HttpRequest, SequencesExt

CONSTANTS
    Requests,     \* what the client may ask: names of kinds of request
    Forms,        \* bodies of a POST
    Payloads,     \* payloads of the client's frames
    Key,          \* the masking key
    Opcodes,      \* opcodes of the client's frames
    Pipelined,    \* requests after which the client does not wait for the answer
    Strays,       \* stray cells that may follow a request
    WholeHeads,   \* no segment ends within the head of a request
    MaxMsgs       \* bound: messages of the client

ASSUME KeyAssumption == Key \in Seq(0..(Digit - 1)) /\ Len(Key) = KeyLen
\* The client sends nothing behind a form or an upgrade before it has the answer.
ASSUME RequestsAssumption == Requests \subseteq {"get", "upgrade"} /\ Pipelined \subseteq {"get"}
ASSUME StraysAssumption == Strays \subseteq {"crlf", "cap"}
\* The length of a payload is a uint32_t.
ASSUME FramesAssumption ==
    /\ Opcodes \subseteq {TEXT, BIN, PING, CLOSE}
    /\ \A s \in Payloads : s \in Seq(0..(Digit - 1)) /\ Len(s) < Digit * Digit * Digit * Digit

VARIABLES
    wire,       \* cells on the way to the server
    rqst,       \* rqst_
    websocket,  \* isWebSocket()
    busy,       \* within tcp_server_recv
    closeSent,  \* wasWSCloseSent()
    replies,    \* frames the server sent
    sent,       \* ghost: what the client sent
    conn,       \* open, closed (isClosed(), nothing can be sent) or gone (deleted)
    taken,      \* ghost: the messages the server took from the text
    calls,      \* ghost: those it gave to the application's callbacks
    stray       \* ghost: a stray cell was sent

server == <<rqst, websocket, busy, closeSent, replies, conn, taken, calls>>
vars == <<wire, rqst, websocket, busy, closeSent, replies, sent, conn, taken, calls, stray>>

Init ==
    /\ wire = <<>> /\ rqst = <<>>
    /\ websocket = FALSE /\ busy = FALSE /\ closeSent = FALSE
    /\ replies = <<>> /\ sent = <<>> /\ taken = <<>> /\ calls = <<>>
    /\ conn = "open" /\ stray = FALSE

-----------------------------------------------------------------------------
(* The client *)

\* Request number n, with the body of a form.
Lines(kind, n, body) ==
    CASE kind = "get"     -> << <<"get", n>>, <<"url", n>>, <<"blank", 0>> >>
      [] kind = "upgrade" -> << <<"get", n>>, <<"url", n>>, <<"upgrade", 0>>, <<"blank", 0>> >>
      [] kind = "form"    -> << <<"post", n>>, <<"url", n>>, <<"form", 0>>,
                                <<"length", Len(body)>>, <<"blank", 0>> >> \o body

\* The items of a form: where they start, the first of a kind of cell from there
\* on, and key and value between item start, equal sign and ampersand, or the end.
ItemStarts(body) == {1} \cup {j + 1 : j \in At(body, {"amp"})}
Following(body, p, kind) == Min({j \in p..Len(body) : body[j][1] = kind} \cup {Len(body) + 1})
FormData(body) ==
    {<<SubSeq(body, p, Following(body, p, "eq") - 1),
       SubSeq(body, Following(body, p, "eq") + 1, Following(body, p, "amp") - 1)>> :
       p \in ItemStarts(body)}

\* A form as browsers send it: every item has a key, an equal sign and a value.
ASSUME FormsAssumption ==
    \A body \in Forms :
        /\ body \in Seq({"text", "eq", "amp"} \X Nat)
        /\ \A p \in ItemStarts(body) : Following(body, p, "eq") < Following(body, p, "amp")

\* A frame as the websocket protocol has it.
Frame(opcode, payload, key) ==
    LET n == Len(payload)
        ext == IF n <= Len16 - 1 THEN <<n>>
               ELSE IF n \div Digit < Digit THEN <<Len16>> \o Digits(n, 2)
               ELSE <<Len64>> \o Digits(n, 8)
    IN IF key = <<>> THEN <<opcode>> \o ext \o payload
       ELSE <<opcode, ext[1] + MaskBit>> \o Tail(ext) \o key \o Masked(payload, key)

\* The client waits until some requests were taken, for the answer to an upgrade
\* before it sends frames, and sends nothing after a close frame.
MaySend ==
    /\ Len(sent) < MaxMsgs /\ conn # "gone"
    /\ sent # <<>> =>
          LET last == sent[Len(sent)]
          IN /\ last.kind \in Pipelined \cup {TEXT, BIN, PING} \/ Len(taken) = Len(sent)
             /\ last.kind # CLOSE

SendRequest(kind, body) ==
    /\ MaySend
    /\ ~websocket
    /\ wire' = wire \o Lines(kind, Len(sent) + 1, body)
    /\ sent' = Append(sent, [kind |-> kind, id |-> Len(sent) + 1,
                             data |-> IF kind = "form" THEN FormData(body) ELSE {}])
    /\ UNCHANGED server /\ UNCHANGED stray

SendFrame(opcode, payload) ==
    /\ MaySend
    /\ websocket /\ conn = "open"
    /\ \/ wire' = wire \o Frame(opcode, payload, Key)
       \/ wire' = wire \o BuildPacket(opcode, payload, Key)
    /\ sent' = Append(sent, [kind |-> opcode, data |-> payload])
    /\ UNCHANGED server /\ UNCHANGED stray

SendStray(kind) ==
    /\ ~stray /\ conn # "gone"
    /\ sent # <<>> /\ sent[Len(sent)].kind \in {"get", "form"}
    /\ wire' = Append(wire, <<kind, 0>>)
    /\ stray' = TRUE
    /\ UNCHANGED server /\ UNCHANGED sent

-----------------------------------------------------------------------------
(* The server *)

\* A segment of n cells arrives: tcp_server_recv adds it to the text.
Recv(n) ==
    /\ ~busy /\ conn # "gone"
    /\ ~(WholeHeads /\ ~websocket /\ wire[n][1] \in HeadKinds)
    /\ rqst' = rqst \o SubSeq(wire, 1, n)
    /\ wire' = SubSeq(wire, n + 1, Len(wire))
    /\ busy' = TRUE
    /\ UNCHANGED <<websocket, closeSent, replies, sent, conn, taken, calls, stray>>

\* resetRqst
ResetRqst(r, size) == SubSeq(r, size + 1, Len(r))

\* rqstIsReady holds for a request: process_rqst with open_websocket or with
\* the application's callback, and resetRqst.  A request that begins with a
\* stray newline is an empty one, that the application does not know: its 404
\* closes the connection, and the client stays until that is acknowledged.
ProcessRqst ==
    /\ busy /\ ~websocket
    /\ ParseRequest(rqst).complete
    /\ \E post \in {ParsePost(rqst)} :
       LET kind == IF HasHeader(rqst, "form") THEN "form"
                   ELSE IF HasHeader(rqst, "upgrade") THEN "upgrade" ELSE "get"
           message == [kind |-> kind, id |-> rqst[1][2], data |-> post.data]
           empty == rqst[1][1] = "crlf"
       IN /\ ~post.loops
          /\ websocket' = (kind = "upgrade")
          /\ rqst' = IF kind = "upgrade" THEN <<>> ELSE ResetRqst(post.rqst, Size(rqst))
          /\ taken' = IF empty THEN taken ELSE Append(taken, message)
          /\ calls' = IF empty \/ kind = "upgrade" THEN calls ELSE Append(calls, message)
          /\ conn' = IF empty THEN "closed" ELSE conn
    /\ UNCHANGED <<wire, busy, closeSent, replies, sent, stray>>

\* send_websocket in the cases of process_websocket.
Reply(opcode, payload) ==
    CASE conn # "open" -> <<>>
      [] conn = "open" /\ opcode = PING -> <<BuildPacket(PONG, payload, <<>>)>>
      [] conn = "open" /\ opcode = CLOSE /\ ~closeSent -> <<BuildPacket(CLOSE, payload, <<>>)>>
      [] OTHER -> <<>>

\* rqstIsReady holds for a frame: process_websocket and resetRqst.  Text goes to
\* the application, a close frame marks the client for closing, and other
\* opcodes are only logged.
ProcessWebsocket ==
    /\ busy /\ websocket
    /\ \E p \in {ParsePacket(rqst)} :
       LET h == p.header
           payload == SubSeq(p.packet, h.start + 1, h.start + h.length)
           message == [kind |-> h.opcode, data |-> payload]
       IN /\ p.ok
          /\ taken' = Append(taken, message)
          /\ calls' = IF h.opcode = TEXT THEN Append(calls, message) ELSE calls
          /\ replies' = replies \o Reply(h.opcode, payload)
          /\ closeSent' = (closeSent \/ h.opcode = CLOSE)
          /\ conn' = IF h.opcode = CLOSE THEN "closed" ELSE conn
          /\ rqst' = ResetRqst(p.packet, h.start + h.length)
    /\ UNCHANGED <<wire, websocket, busy, sent, stray>>

\* rqstIsReady does not hold: the callback returns, unless the parser is in a
\* loop it never leaves.
Return ==
    /\ busy
    /\ \/ /\ ~websocket
          /\ \E p \in {ParseRequest(rqst)} : ~p.complete /\ ~p.loops /\ rqst' = p.rqst
       \/ /\ websocket
          /\ \E p \in {ParsePacket(rqst)} : ~p.ok /\ rqst' = p.packet
    /\ busy' = FALSE
    /\ UNCHANGED <<wire, websocket, closeSent, replies, sent, conn, taken, calls, stray>>

\* The last bytes of a closed client are acknowledged: tcp_server_sent closes the
\* connection and deletes the client, and what is still on the way is refused.
Gone ==
    /\ conn = "closed" /\ ~busy
    /\ conn' = "gone" /\ wire' = <<>> /\ rqst' = <<>>
    /\ UNCHANGED <<websocket, busy, closeSent, replies, sent, taken, calls, stray>>

ServerStep ==
    \/ \E n \in 1..Len(wire) : Recv(n)
    \/ ProcessRqst
    \/ ProcessWebsocket
    \/ Return

Next ==
    \/ \E kind \in Requests : SendRequest(kind, <<>>)
    \/ \E body \in Forms : SendRequest("form", body)
    \/ \E opcode \in Opcodes, payload \in Payloads : SendFrame(opcode, payload)
    \/ \E kind \in Strays : SendStray(kind)
    \/ ServerStep
    \/ Gone

\* lwIP delivers what is on the way and the callback goes on.
Spec == Init /\ [][Next]_vars /\ WF_vars(ServerStep)

-----------------------------------------------------------------------------
(* Properties                                                               *)

\* The messages of some kinds among the first n that were taken.
NumberOf(n, kinds) == Cardinality({i \in 1..n : taken[i].kind \in kinds})

\* The application gets the requests and the text messages, once and in order;
\* an upgrade, a ping, a close frame and a binary frame do not reach it.
ToCall == {"get", "form", TEXT}
Called ==
    /\ Len(calls) = NumberOf(Len(taken), ToCall)
    /\ \A i \in 1..Len(taken) : taken[i].kind \in ToCall =>
          calls[NumberOf(i, ToCall)] = taken[i]

\* Every ping is answered by a pong with its payload, a close frame by one, in
\* frames as the protocol has them for every length of payload, and in order.
ToAnswer == {PING, CLOSE}
Answered ==
    /\ Len(replies) = NumberOf(Len(taken), ToAnswer)
    /\ \A i \in 1..Len(taken) : taken[i].kind \in ToAnswer =>
          replies[NumberOf(i, ToAnswer)]
              = Frame(IF taken[i].kind = PING THEN PONG ELSE CLOSE, taken[i].data, <<>>)

\* The server takes what the client sent: requests and frames whole and in
\* order, forms with all their values, frames unmasked exactly once, however
\* the bytes are cut into segments; it gives the application what is meant for
\* it, and the client the answers to its pings.
Delivered == IsPrefix(taken, sent) /\ Called /\ Answered

\* Whatever the client sends is taken in the end, unless a stray newline made the
\* server close the connection.
AllHandled == []<>(Len(taken) = Len(sent) \/ (conn = "gone" /\ stray))
=============================================================================
