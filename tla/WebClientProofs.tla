---------------------------- MODULE WebClientProofs ----------------------------
(***************************************************************************)
(* What the routines of CLIENT, SENDBUF, write_next and close_client keep  *)
(* of a client, for every MSS and send buffer size: a client that is sound *)
(* stays sound, and its stream only grows.  Connection's and WebServer's   *)
(* proofs rest on these lemmas.                                            *)
(***************************************************************************)
EXTENDS WebClient, SequenceTheorems, TLAPS

-----------------------------------------------------------------------------
(* One send buffer                                                          *)

\* The four counters of a SENDBUF are natural numbers.
LEMMA BufFields ==
    ASSUME NEW b \in SendBuf
    PROVE  b.base \in Nat /\ b.size \in Nat /\ b.sent \in Nat /\ b.ack \in Nat
BY DEF SendBuf

\* SENDBUF::acknowledge of bytes that fit credits all of them, returns
\* nothing, and changes no other field.
LEMMA BufAcked ==
    ASSUME NEW b \in SendBuf, NEW n \in Nat, b.ack + n <= b.size
    PROVE  /\ AckLeft(b, n) = 0
           /\ AckBuf(b, n) \in SendBuf
           /\ AckBuf(b, n).base = b.base /\ AckBuf(b, n).size = b.size
           /\ AckBuf(b, n).sent = b.sent /\ AckBuf(b, n).ack = b.ack + n
BY DEF SendBuf, AckLeft, AckBuf, Least

\* SENDBUF::get_next advances sent_ alone, and SENDBUF::requeue of the same
\* bytes, after altcp_write failed, restores the buffer.
LEMMA BufTaken ==
    ASSUME NEW b \in SendBuf, NEW k \in Nat
    PROVE  /\ Take(b, k) \in SendBuf /\ Take(b, k).sent = b.sent + k
           /\ Take(b, k).base = b.base /\ Take(b, k).size = b.size
           /\ Take(b, k).ack = b.ack
           /\ Requeue(Take(b, k), k) \in SendBuf
           /\ Requeue(Take(b, k), k).base = b.base
           /\ Requeue(Take(b, k), k).size = b.size
           /\ Requeue(Take(b, k), k).sent = b.sent
           /\ Requeue(Take(b, k), k).ack = b.ack
<1>1. /\ Take(b, k) \in SendBuf /\ Take(b, k).sent = b.sent + k
      /\ Take(b, k).base = b.base /\ Take(b, k).size = b.size
      /\ Take(b, k).ack = b.ack
  BY DEF SendBuf, Take
<1>2. b.sent \in Nat
  BY BufFields
<1>3. Requeue(Take(b, k), k) = [Take(b, k) EXCEPT !.sent = @ - k]
  BY <1>1, <1>2 DEF Requeue
<1>4. Take(b, k).sent - k \in Nat /\ Take(b, k).sent - k = b.sent
  BY <1>1, <1>2
<1> QED
  BY <1>1, <1>3, <1>4 DEF SendBuf

\* f is b with k more bytes sent.
LEMMA BufWritten ==
    ASSUME NEW b \in SendBuf, NEW f \in SendBuf, NEW k \in Nat,
           NEW acked \in Nat, NEW written \in Nat,
           f.sent = b.sent + k, f.base = b.base, f.size = b.size, f.ack = b.ack,
           b.ack <= b.sent, b.sent + k <= b.size,
           b.base + b.ack = acked, b.base + b.sent = written
    PROVE  /\ f.base + f.ack = acked /\ f.base + f.sent = written + k
           /\ f.ack <= f.sent /\ f.sent <= f.size
BY BufFields

-----------------------------------------------------------------------------
(* The list of send buffers                                                 *)

\* No buffer reaches beyond the end of the stream.  This follows from the
\* buffers being adjacent, but only by induction on the list.
EndsWithin(q, queued) == \A i \in 1..Len(q) : q[i].base + q[i].size <= queued

\* A well-formed list that describes the stream.
Queue(q, acked, written, queued) ==
    /\ q \in Seq(SendBuf)
    /\ WithinBounds(q)
    /\ EndsWithin(q, queued)
    /\ Describes(q, acked, written, queued)

\* The front buffer holds the next byte to acknowledge and the next to write.
LEMMA FrontFacts ==
    ASSUME NEW acked \in Nat, NEW written \in Nat, NEW queued \in Nat,
           NEW q, Queue(q, acked, written, queued), q # <<>>
    PROVE  /\ Len(q) \in Nat /\ Len(q) >= 1
           /\ q[1] \in SendBuf /\ Head(q) = q[1]
           /\ q[1].ack <= q[1].sent /\ q[1].sent <= q[1].size
           /\ q[1].base + q[1].ack = acked
           /\ q[1].base + q[1].sent = written
           /\ q[1].base + q[1].size <= queued
BY DEF Queue, WithinBounds, EndsWithin, Describes

\* What a list that describes the stream says of the counters: acknowledged
\* bytes were written, and written bytes were queued.
LEMMA QueueBounds ==
    ASSUME NEW acked \in Nat, NEW written \in Nat, NEW queued \in Nat,
           NEW q, Queue(q, acked, written, queued)
    PROVE  acked <= written /\ written <= queued
<1>1. CASE q = <<>>
  BY <1>1 DEF Queue, Describes
<1>2. CASE q # <<>>
  <2>1. \A b \in SendBuf : (/\ b.ack <= b.sent /\ b.sent <= b.size
                            /\ b.base + b.ack = acked /\ b.base + b.sent = written
                            /\ b.base + b.size <= queued)
                              => acked <= written /\ written <= queued
    BY BufFields
  <2> QED
    BY <1>2, <2>1, FrontFacts
<1> QED BY <1>1, <1>2

\* A buffer whose last n bytes are acknowledged was sent to its end.
LEMMA FrontDone ==
    ASSUME NEW b \in SendBuf, NEW acked \in Nat, NEW written \in Nat, NEW n \in Nat,
           b.base + b.ack = acked, b.base + b.sent = written, b.sent <= b.size,
           b.ack + n = b.size, n <= written - acked
    PROVE  b.sent = b.size /\ acked + n = written /\ b.base + b.size = written
BY BufFields

\* The front buffer leaves when all of it is acknowledged.
LEMMA QueueTail ==
    ASSUME NEW acked \in Nat, NEW written \in Nat, NEW queued \in Nat,
           NEW q, Queue(q, acked, written, queued), q # <<>>,
           NEW n \in Nat, q[1].ack + n = q[1].size, n <= written - acked
    PROVE  Queue(Tail(q), acked + n, written, queued)
<1> DEFINE r == Tail(q)
<1>1. /\ q[1] \in SendBuf /\ q[1].base + q[1].ack = acked
      /\ q[1].base + q[1].sent = written /\ q[1].sent <= q[1].size
  BY FrontFacts
<1>2. q[1].sent = q[1].size /\ acked + n = written /\ q[1].base + q[1].size = written
  BY <1>1, FrontDone
<1>3. q \in Seq(SendBuf) /\ Len(q) \in Nat
  BY DEF Queue
<1>4. r \in Seq(SendBuf) /\ Len(r) = Len(q) - 1 /\ \A i \in 1..Len(r) : r[i] = q[i+1]
  BY <1>3
<1> HIDE DEF r
<1>5. WithinBounds(r) /\ EndsWithin(r, queued)
  <2>1. WithinBounds(r)
    BY <1>3, <1>4 DEF Queue, WithinBounds
  <2>2. EndsWithin(r, queued)
    BY <1>3, <1>4 DEF Queue, EndsWithin
  <2> QED
    BY <2>1, <2>2
<1>6. Adjacent(r)
  <2> SUFFICES ASSUME NEW i \in 2..Len(r)
               PROVE  /\ r[i].base = r[i-1].base + r[i-1].size
                      /\ r[i].sent = 0 /\ r[i].ack = 0
    BY DEF Adjacent
  <2>1. i + 1 \in 2..Len(q) /\ (i + 1) - 1 = i /\ r[i] = q[i+1] /\ r[i-1] = q[i]
    <3>1. i - 1 \in 1..Len(r) /\ (i - 1) + 1 = i
      BY <1>3, <1>4
    <3> QED
      BY <3>1, <1>3, <1>4
  <2>2. \A j \in 2..Len(q) : /\ q[j].base = q[j-1].base + q[j-1].size
                             /\ q[j].sent = 0 /\ q[j].ack = 0
    BY DEF Queue, Describes, Adjacent
  <2> QED
    BY <2>1, <2>2
<1>7. CASE r = <<>>
  <2>1. Len(q) = 1
    BY <1>3, <1>4, <1>7
  <2>2. queued = written
    BY <2>1, <1>2 DEF Queue, Describes
  <2> QED
    BY <2>2, <1>2, <1>4, <1>5, <1>6, <1>7 DEF Queue, Describes, r
<1>8. CASE r # <<>>
  <2>1. Len(q) >= 2 /\ r[1] = q[2] /\ r[Len(r)] = q[Len(q)]
    BY <1>3, <1>4, <1>8
  <2>2. q[2].base = q[1].base + q[1].size /\ q[2].sent = 0 /\ q[2].ack = 0
    BY <2>1, <1>3 DEF Queue, Describes, Adjacent
  <2>3. r[1].base + r[1].ack = acked + n /\ r[1].base + r[1].sent = written
    BY <2>1, <2>2, <1>2
  <2>4. r[Len(r)].base + r[Len(r)].size = queued
    BY <2>1 DEF Queue, Describes
  <2> QED
    BY <2>3, <2>4, <1>4, <1>5, <1>6, <1>8 DEF Queue, Describes, r
<1> QED BY <1>7, <1>8

\* The front buffer may be replaced by one that agrees on base and size.
LEMMA QueueFront ==
    ASSUME NEW acked \in Nat, NEW written \in Nat, NEW queued \in Nat,
           NEW q, Queue(q, acked, written, queued), q # <<>>,
           NEW b \in SendBuf, b.base = q[1].base, b.size = q[1].size,
           b.ack <= b.sent, b.sent <= b.size
    PROVE  Queue([q EXCEPT ![1] = b], b.base + b.ack, b.base + b.sent, queued)
<1> DEFINE r == [q EXCEPT ![1] = b]
<1>1. q \in Seq(SendBuf) /\ Len(q) \in Nat /\ Len(q) >= 1
  BY DEF Queue
<1>2. r \in Seq(SendBuf) /\ Len(r) = Len(q) /\ r[1] = b /\ \A i \in 2..Len(r) : r[i] = q[i]
  BY <1>1
<1> HIDE DEF r
<1>3. WithinBounds(r)
  BY <1>1, <1>2 DEF Queue, WithinBounds
<1>4. \A i \in 1..Len(r) : r[i].base = q[i].base /\ r[i].size = q[i].size
  BY <1>1, <1>2
<1>5. Adjacent(r)
  BY <1>1, <1>2, <1>4 DEF Queue, Describes, Adjacent
<1>6. r[Len(r)].base + r[Len(r)].size = queued
  BY <1>1, <1>2, <1>4 DEF Queue, Describes
<1>7. r # <<>>
  BY <1>1, <1>2
<1>8. EndsWithin(r, queued)
  BY <1>1, <1>2, <1>4 DEF Queue, EndsWithin
<1> QED
  BY <1>2, <1>3, <1>5, <1>6, <1>7, <1>8 DEF Queue, Describes, r

\* A buffer is appended where the stream ends.
LEMMA QueueAppend ==
    ASSUME NEW acked \in Nat, NEW written \in Nat, NEW queued \in Nat,
           NEW q, Queue(q, acked, written, queued),
           NEW b \in SendBuf, b.base = queued, b.sent = 0, b.ack = 0
    PROVE  Queue(Append(q, b), acked, written, queued + b.size)
<1> DEFINE r == Append(q, b)
<1>1. q \in Seq(SendBuf) /\ Len(q) \in Nat
  BY DEF Queue
<1>2. r \in Seq(SendBuf) /\ Len(r) = Len(q) + 1 /\ r[Len(r)] = b
      /\ \A i \in 1..Len(q) : r[i] = q[i]
  BY <1>1
<1> HIDE DEF r
<1>3. WithinBounds(r)
  <2>1. 0 <= b.size
    BY BufFields
  <2> QED
    BY <1>1, <1>2, <2>1 DEF Queue, WithinBounds
<1>6. EndsWithin(r, queued + b.size)
  <2>1. b.size \in Nat
    BY BufFields
  <2>2. \A i \in 1..Len(q) : q[i] \in SendBuf /\ q[i].base + q[i].size <= queued
    BY <1>1 DEF Queue, EndsWithin
  <2>3. \A d \in SendBuf : d.base + d.size <= queued => d.base + d.size <= queued + b.size
    BY <2>1, BufFields
  <2> QED
    BY <1>1, <1>2, <2>1, <2>2, <2>3 DEF EndsWithin
<1>4. CASE q = <<>>
  <2>1. Len(r) = 1 /\ r[1] = b /\ acked = queued /\ written = queued
    BY <1>1, <1>2, <1>4 DEF Queue, Describes
  <2>2. Adjacent(r)
    BY <2>1 DEF Adjacent
  <2> QED
    BY <1>2, <1>3, <1>6, <2>1, <2>2 DEF Queue, Describes, r
<1>5. CASE q # <<>>
  <2>1. Len(q) >= 1 /\ r[1] = q[1] /\ r # <<>>
    BY <1>1, <1>2, <1>5
  <2>2. q[Len(q)].base + q[Len(q)].size = queued
    BY <1>5 DEF Queue, Describes
  <2>3. Adjacent(r)
    <3> SUFFICES ASSUME NEW i \in 2..Len(r)
                 PROVE  /\ r[i].base = r[i-1].base + r[i-1].size
                        /\ r[i].sent = 0 /\ r[i].ack = 0
      BY DEF Adjacent
    <3>1. CASE i = Len(r)
      BY <3>1, <1>1, <1>2, <2>1, <2>2
    <3>2. CASE i # Len(r)
      <4>1. i \in 2..Len(q) /\ r[i] = q[i] /\ r[i-1] = q[i-1]
        BY <3>2, <1>1, <1>2
      <4> QED
        BY <4>1 DEF Queue, Describes, Adjacent
    <3> QED BY <3>1, <3>2
  <2> QED
    BY <1>2, <1>3, <1>5, <1>6, <2>1, <2>3 DEF Queue, Describes, r
<1> QED BY <1>4, <1>5

\* The loop of CLIENT::acknowledge on a count that is in flight: it ends with
\* the front buffer.
LEMMA QueueAcknowledge ==
    ASSUME NEW acked \in Nat, NEW written \in Nat, NEW queued \in Nat,
           NEW q, Queue(q, acked, written, queued),
           NEW n \in Nat, n <= written - acked
    PROVE  Queue(Acknowledge(q, n), acked + n, written, queued)
<1>1. CASE q = <<>>
  <2>1. acked = written
    BY <1>1 DEF Queue, Describes
  <2> QED
    BY <2>1, <1>1 DEF Acknowledge
<1>2. CASE q # <<>>
  <2>1. /\ q[1] \in SendBuf /\ Head(q) = q[1]
        /\ q[1].ack + n <= q[1].sent /\ q[1].sent <= q[1].size
        /\ q[1].base + q[1].ack = acked /\ q[1].base + q[1].sent = written
    <3>1. /\ q[1] \in SendBuf /\ Head(q) = q[1]
          /\ q[1].ack <= q[1].sent /\ q[1].sent <= q[1].size
          /\ q[1].base + q[1].ack = acked /\ q[1].base + q[1].sent = written
      BY <1>2, FrontFacts
    <3>2. \A b \in SendBuf : b.base + b.ack = acked /\ b.base + b.sent = written
                               => b.ack + n <= b.sent
      BY BufFields
    <3> QED
      BY <3>1, <3>2
  <2>2. q[1].ack + n <= q[1].size
    BY <2>1, BufFields
  <2> DEFINE b == AckBuf(q[1], n)
  <2>3. /\ AckLeft(q[1], n) = 0 /\ b \in SendBuf
        /\ b.base = q[1].base /\ b.size = q[1].size
        /\ b.sent = q[1].sent /\ b.ack = q[1].ack + n
    BY <2>1, <2>2, BufAcked
  <2>4. Acknowledge(q, n) = IF b.ack = b.size THEN Tail(q) ELSE [q EXCEPT ![1] = b]
    BY <1>2, <2>1, <2>3 DEF Acknowledge, AckFront
  <2> HIDE DEF b
  <2>5. CASE b.ack = b.size
    BY <2>3, <2>4, <2>5, <1>2, QueueTail
  <2>6. CASE b.ack # b.size
    <3>1. b.base + b.ack = acked + n /\ b.base + b.sent = written
          /\ b.ack <= b.sent /\ b.sent <= b.size
      <4>1. q[1].base \in Nat /\ q[1].size \in Nat /\ q[1].sent \in Nat /\ q[1].ack \in Nat
        BY <2>1, BufFields
      <4> QED
        BY <2>1, <2>3, <4>1
    <3>2. Queue([q EXCEPT ![1] = b], b.base + b.ack, b.base + b.sent, queued)
      BY <1>2, <2>3, <3>1, QueueFront
    <3> QED
      BY <2>4, <2>6, <3>1, <3>2
  <2> QED BY <2>5, <2>6
<1> QED BY <1>1, <1>2
-----------------------------------------------------------------------------
(* The client                                                               *)

\* What every routine of the server keeps of a client.
Sound(c) ==
    /\ c \in Client
    /\ StreamInOrder(c)
    /\ c.live = "open" => Queue(c.sendbuf, c.acked, Len(c.wire), c.queued)
    /\ c.live # "open" => c.sendbuf = <<>>
    /\ c.live = "closed" => Delivered(c)

\* What a routine may change of an open client c that it leaves as d.
Moves(c, d) ==
    /\ d.live \in {"open", "closed"}
    /\ d.queued >= c.queued
    /\ c.closed => d.closed /\ d.queued = c.queued
    /\ Len(d.wire) >= Len(c.wire)
    /\ d.acked = c.acked
    /\ d.websocket = c.websocket
    /\ d.ws_close_sent = c.ws_close_sent

\* The fields of a sound open client have their types, and its list describes
\* its stream.
LEMMA SoundFacts ==
    ASSUME NEW c, Sound(c), c.live = "open"
    PROVE  /\ c \in Client /\ c.acked \in Nat /\ c.queued \in Nat /\ Len(c.wire) \in Nat
           /\ Queue(c.sendbuf, c.acked, Len(c.wire), c.queued)
           /\ c.acked <= Len(c.wire) /\ Len(c.wire) <= c.queued
<1>1. /\ c \in Client /\ c.acked \in Nat /\ c.queued \in Nat /\ Len(c.wire) \in Nat
      /\ Queue(c.sendbuf, c.acked, Len(c.wire), c.queued)
  BY DEF Sound, Client
<1> QED
  BY <1>1, QueueBounds

\* A new CLIENT has an empty stream.
LEMMA NewSound == Sound(NewClient) /\ NewClient.live = "open"
<1>1. /\ NewClient.live = "open" /\ NewClient.sendbuf = <<>> /\ NewClient.wire = <<>>
      /\ NewClient.queued = 0 /\ NewClient.acked = 0
  BY DEF NewClient
<1>2. <<>> \in Seq(SendBuf) /\ <<>> \in Seq(Nat) /\ Len(<<>>) = 0
  OBVIOUS
<1>3. NewClient \in Client
  BY <1>2 DEF NewClient, Client
<1>4. Queue(<<>>, 0, 0, 0)
  BY <1>2 DEF Queue, WithinBounds, EndsWithin, Describes, Adjacent
<1> QED
  BY <1>1, <1>2, <1>3, <1>4 DEF Sound, StreamInOrder

\* The bookkeeping half of tcp_server_sent: crediting bytes that are in flight
\* keeps a client sound.
LEMMA AckSound ==
    ASSUME NEW c, Sound(c), c.live = "open", NEW n \in Nat,
           n <= Len(c.wire) - c.acked
    PROVE  LET d == [c EXCEPT !.sendbuf = Acknowledge(@, n), !.acked = @ + n]
           IN  /\ Sound(d) /\ d.live = "open" /\ d.wire = c.wire
               /\ d.queued = c.queued /\ d.acked = c.acked + n
               /\ d.closed = c.closed /\ d.websocket = c.websocket
               /\ d.ws_close_sent = c.ws_close_sent
<1> DEFINE d == [c EXCEPT !.sendbuf = Acknowledge(@, n), !.acked = @ + n]
<1>1. /\ c \in Client /\ c.acked \in Nat /\ c.queued \in Nat /\ Len(c.wire) \in Nat
      /\ Queue(c.sendbuf, c.acked, Len(c.wire), c.queued)
  BY SoundFacts
<1>2. Queue(Acknowledge(c.sendbuf, n), c.acked + n, Len(c.wire), c.queued)
  BY <1>1, QueueAcknowledge
<1>3. Acknowledge(c.sendbuf, n) \in Seq(SendBuf)
  BY <1>2 DEF Queue
<1> DEFINE q == Acknowledge(c.sendbuf, n)
           a == c.acked + n
<1>6. d = [c EXCEPT !.sendbuf = q, !.acked = a]
  OBVIOUS
<1>7. q \in Seq(SendBuf) /\ a \in Nat
  BY <1>1, <1>3
<1> HIDE DEF q, a, d
<1>4. /\ d \in Client /\ d.sendbuf = q
      /\ d.live = "open" /\ d.wire = c.wire
      /\ d.queued = c.queued /\ d.acked = a
      /\ d.closed = c.closed /\ d.websocket = c.websocket
      /\ d.ws_close_sent = c.ws_close_sent
  BY <1>1, <1>6, <1>7 DEF Client
<1>5. Sound(d)
  BY <1>2, <1>4 DEF Sound, StreamInOrder, q, a
<1> QED
  BY <1>4, <1>5 DEF d, a

\* close_client keeps a client sound: it deletes it only when everything it
\* accepted was delivered.
LEMMA CloseSound ==
    ASSUME NEW c, Sound(c), c.live = "open", NEW cok \in BOOLEAN
    PROVE  Sound(CloseClient(c, cok)) /\ Moves(c, CloseClient(c, cok))
<1> DEFINE q == Acknowledge(c.sendbuf, 0)
           d == [SetClosed(c) EXCEPT !.sendbuf = Acknowledge(@, 0)]
<1>1. /\ c \in Client /\ c.acked \in Nat /\ c.queued \in Nat /\ Len(c.wire) \in Nat
      /\ Queue(c.sendbuf, c.acked, Len(c.wire), c.queued)
      /\ c.acked <= Len(c.wire)
  BY SoundFacts
<1>2. Queue(q, c.acked, Len(c.wire), c.queued)
  <2>1. Queue(q, c.acked + 0, Len(c.wire), c.queued)
    BY <1>1, QueueAcknowledge
  <2> QED
    BY <1>1, <2>1
<1>3. q \in Seq(SendBuf)
  BY <1>2 DEF Queue
<1> HIDE DEF q
<1>4. /\ d \in Client /\ d.sendbuf = q /\ d.live = "open" /\ d.wire = c.wire
      /\ d.queued = c.queued /\ d.acked = c.acked /\ d.closed
      /\ d.websocket = c.websocket /\ d.ws_close_sent = c.ws_close_sent
  BY <1>1, <1>3 DEF Client, SetClosed, q
<1>5. CloseClient(c, cok) = IF ~MoreToSend(d) /\ cok THEN Deleted(d, "closed") ELSE d
  BY DEF CloseClient
<1> HIDE DEF d
<1>6. Sound(d) /\ Moves(c, d)
  <2>1. Sound(d)
    BY <1>2, <1>4 DEF Sound, StreamInOrder
  <2>2. Moves(c, d)
    BY <1>1, <1>4 DEF Moves
  <2> QED
    BY <2>1, <2>2
<1>7. CASE ~MoreToSend(d) /\ cok
  <2> DEFINE e == Deleted(d, "closed")
  <2>1. q = <<>>
    BY <1>4, <1>7 DEF MoreToSend
  <2>2. Delivered(d)
    BY <1>2, <1>4, <2>1 DEF Queue, Describes, Delivered
  <2>3. <<>> \in Seq(SendBuf)
    OBVIOUS
  <2>4. /\ e \in Client /\ e.sendbuf = <<>> /\ e.live = "closed" /\ e.wire = c.wire
        /\ e.queued = c.queued /\ e.acked = c.acked /\ e.closed
        /\ e.websocket = c.websocket /\ e.ws_close_sent = c.ws_close_sent
    BY <1>4, <2>3 DEF Client, Deleted
  <2> HIDE DEF e
  <2>5. Sound(e)
    BY <1>4, <1>6, <2>2, <2>4 DEF Sound, StreamInOrder, Delivered
  <2>6. Moves(c, e)
    BY <1>1, <2>4 DEF Moves
  <2> QED
    BY <1>5, <1>7, <2>5, <2>6 DEF e
<1>8. CASE ~(~MoreToSend(d) /\ cok)
  BY <1>5, <1>6, <1>8
<1> QED BY <1>7, <1>8

\* Bytes base + sent + 1 onwards, put behind a stream that ends at base + sent.
LEMMA AppendChunk ==
    ASSUME NEW w \in Seq(Nat), \A i \in 1..Len(w) : w[i] = i,
           NEW b \in SendBuf, b.base + b.sent = Len(w), NEW k \in Nat
    PROVE  LET v == w \o Chunk(b, k)
           IN  v \in Seq(Nat) /\ Len(v) = Len(w) + k /\ \A i \in 1..Len(v) : v[i] = i
<1> DEFINE ch == Chunk(b, k)
<1>1. Len(w) \in Nat
  OBVIOUS
<1>2. ch = [i \in 1..k |-> Len(w) + i]
  <2>1. \A i \in 1..k : b.base + b.sent + i = Len(w) + i
    BY BufFields
  <2> QED
    BY <2>1 DEF Chunk
<1>3. ch \in Seq(Nat) /\ Len(ch) = k /\ \A i \in 1..k : ch[i] = Len(w) + i
  BY <1>1, <1>2
<1> HIDE DEF ch
<1> DEFINE v == w \o ch
<1>4. v \in Seq(Nat) /\ Len(v) = Len(w) + k
  BY <1>3, ConcatProperties
<1>5. \A i \in 1..Len(v) : v[i] = i
  <2> SUFFICES ASSUME NEW i \in 1..Len(v) PROVE v[i] = i
    OBVIOUS
  <2>1. v[i] = IF i <= Len(w) THEN w[i] ELSE ch[i - Len(w)]
    BY <1>1, <1>3, <1>4
  <2>2. CASE i <= Len(w)
    BY <2>1, <2>2, <1>1, <1>4
  <2>3. CASE ~(i <= Len(w))
    <3>1. i - Len(w) \in 1..k
      BY <2>3, <1>1, <1>4
    <3> QED
      BY <2>1, <2>3, <3>1, <1>1, <1>3, <1>4
  <2> QED BY <2>2, <2>3
<1> QED
  BY <1>4, <1>5 DEF ch

\* get_next, altcp_write and requeue keep a client sound whether altcp_write
\* succeeds or fails.
LEMMA WriteFrontSound ==
    ASSUME NEW c, Sound(c), c.live = "open", NEW wok \in BOOLEAN
    PROVE  LET d == WriteFront(c, wok)
           IN  Sound(d) /\ Moves(c, d) /\ d.live = "open" /\ d.closed = c.closed
<1> DEFINE q == Settled(c)
           k == NextLen(c)
<1>1. /\ c \in Client /\ c.acked \in Nat /\ c.queued \in Nat /\ Len(c.wire) \in Nat
      /\ Queue(c.sendbuf, c.acked, Len(c.wire), c.queued)
      /\ c.acked <= Len(c.wire)
  BY SoundFacts
<1>2. Queue(q, c.acked, Len(c.wire), c.queued)
  <2>1. Queue(Acknowledge(c.sendbuf, 0), c.acked + 0, Len(c.wire), c.queued)
    BY <1>1, QueueAcknowledge
  <2>2. c.acked + 0 = c.acked
    BY <1>1
  <2> QED
    BY <1>1, <2>1, <2>2 DEF Settled
<1>3. q \in Seq(SendBuf)
  BY <1>2 DEF Queue
<1>4. c.wire \in Seq(Nat) /\ \A i \in 1..Len(c.wire) : c.wire[i] = i
  BY <1>1 DEF Sound, StreamInOrder, Client
<1>5. CASE k = 0
  <2> DEFINE d == [c EXCEPT !.sendbuf = q]
  <2>1. WriteFront(c, wok) = d
    BY <1>5 DEF WriteFront
  <2>2. /\ d \in Client /\ d.sendbuf = q /\ d.live = "open" /\ d.wire = c.wire
        /\ d.queued = c.queued /\ d.acked = c.acked /\ d.closed = c.closed
        /\ d.websocket = c.websocket /\ d.ws_close_sent = c.ws_close_sent
    BY <1>1, <1>3 DEF Client
  <2> HIDE DEF d, q
  <2>3. Sound(d)
    BY <1>2, <1>4, <2>2 DEF Sound, StreamInOrder
  <2>4. Moves(c, d)
    BY <1>1, <2>2 DEF Moves
  <2> QED
    BY <2>1, <2>2, <2>3, <2>4
<1>6. CASE k # 0
  <2>1. /\ Window(c) > 0 /\ q # <<>>
        /\ k = Least(Window(c), ToSend(Head(q)))
    BY <1>6 DEF NextLen
  <2>2. /\ q[1] \in SendBuf /\ Head(q) = q[1]
        /\ q[1].ack <= q[1].sent /\ q[1].sent <= q[1].size
        /\ q[1].base + q[1].ack = c.acked /\ q[1].base + q[1].sent = Len(c.wire)
    BY <1>1, <1>2, <2>1, FrontFacts
  <2>3. Window(c) \in Int
    BY <1>1, WindowAssumption DEF Window, Least
  <2>4. \A b \in SendBuf : b.sent <= b.size =>
            LET m == Least(Window(c), ToSend(b))
            IN  m # 0 => m \in Nat /\ b.sent + m <= b.size
    BY <2>1, <2>3, BufFields DEF Least, ToSend
  <2>5. k \in Nat /\ q[1].sent + k <= q[1].size
    BY <1>6, <2>1, <2>2, <2>4
  <2> DEFINE t == Take(q[1], k)
             u == Requeue(t, k)
             w == c.wire \o Chunk(q[1], k)
  <2>6. /\ t \in SendBuf /\ t.sent = q[1].sent + k
        /\ t.base = q[1].base /\ t.size = q[1].size /\ t.ack = q[1].ack
        /\ u \in SendBuf /\ u.sent = q[1].sent
        /\ u.base = q[1].base /\ u.size = q[1].size /\ u.ack = q[1].ack
    BY <2>2, <2>5, BufTaken
  <2>7. w \in Seq(Nat) /\ Len(w) = Len(c.wire) + k /\ \A i \in 1..Len(w) : w[i] = i
    BY <1>4, <2>2, <2>5, AppendChunk
  <2>8. WriteFront(c, wok) = IF wok
            THEN [c EXCEPT !.sendbuf = [q EXCEPT ![1] = t], !.wire = w]
            ELSE [c EXCEPT !.sendbuf = [q EXCEPT ![1] = u]]
    BY <1>6 DEF WriteFront
  <2> HIDE DEF q, k, t, u, w
  <2>9. CASE wok
    <3> DEFINE r == [q EXCEPT ![1] = t]
               d == [c EXCEPT !.sendbuf = r, !.wire = w]
    <3>1. t.base + t.ack = c.acked /\ t.base + t.sent = Len(w)
          /\ t.ack <= t.sent /\ t.sent <= t.size
      BY <1>1, <2>2, <2>5, <2>6, <2>7, BufWritten
    <3>2. Queue(r, c.acked, Len(w), c.queued)
      <4>1. Queue(r, t.base + t.ack, t.base + t.sent, c.queued)
        BY <1>1, <1>2, <2>1, <2>6, <3>1, QueueFront
      <4> QED
        BY <3>1, <4>1
    <3>3. r \in Seq(SendBuf)
      BY <3>2 DEF Queue
    <3> HIDE DEF r
    <3>4. /\ d \in Client /\ d.sendbuf = r /\ d.live = "open" /\ d.wire = w
          /\ d.queued = c.queued /\ d.acked = c.acked /\ d.closed = c.closed
          /\ d.websocket = c.websocket /\ d.ws_close_sent = c.ws_close_sent
      BY <1>1, <2>7, <3>3 DEF Client
    <3>5. WriteFront(c, wok) = d
      BY <2>8, <2>9 DEF r
    <3> HIDE DEF d
    <3>6. Sound(d)
      BY <3>2, <3>4, <2>7 DEF Sound, StreamInOrder
    <3>7. Moves(c, d)
      BY <1>1, <2>5, <2>7, <3>4 DEF Moves
    <3> QED
      BY <3>4, <3>5, <3>6, <3>7
  <2>10. CASE ~wok
    <3> DEFINE r == [q EXCEPT ![1] = u]
               d == [c EXCEPT !.sendbuf = r]
    <3>1. Queue(r, c.acked, Len(c.wire), c.queued)
      <4>1. u.ack <= u.sent /\ u.sent <= u.size
            /\ u.base + u.ack = c.acked /\ u.base + u.sent = Len(c.wire)
        BY <2>2, <2>6
      <4>2. Queue(r, u.base + u.ack, u.base + u.sent, c.queued)
        BY <1>1, <1>2, <2>1, <2>6, <4>1, QueueFront
      <4> QED
        BY <4>1, <4>2
    <3>2. r \in Seq(SendBuf)
      BY <3>1 DEF Queue
    <3> HIDE DEF r
    <3>3. /\ d \in Client /\ d.sendbuf = r /\ d.live = "open" /\ d.wire = c.wire
          /\ d.queued = c.queued /\ d.acked = c.acked /\ d.closed = c.closed
          /\ d.websocket = c.websocket /\ d.ws_close_sent = c.ws_close_sent
      BY <1>1, <3>2 DEF Client
    <3>4. WriteFront(c, wok) = d
      BY <2>8, <2>10 DEF r
    <3> HIDE DEF d
    <3>5. Sound(d)
      BY <3>1, <3>3, <1>4 DEF Sound, StreamInOrder
    <3>6. Moves(c, d)
      BY <1>1, <3>3 DEF Moves
    <3> QED
      BY <3>3, <3>4, <3>5, <3>6
  <2> QED BY <2>9, <2>10
<1> QED BY <1>5, <1>6

\* Two sound steps of one callback compose into one.
LEMMA MovesTransitive ==
    ASSUME NEW c, NEW d, NEW e, Sound(c), Sound(d), Sound(e),
           Moves(c, d), Moves(d, e)
    PROVE  Moves(c, e)
<1>1. /\ c.queued \in Nat /\ d.queued \in Nat /\ e.queued \in Nat
      /\ Len(c.wire) \in Nat /\ Len(d.wire) \in Nat /\ Len(e.wire) \in Nat
  BY DEF Sound, Client
<1> QED
  BY <1>1 DEF Moves

\* write_next, its closing of a drained client included, keeps a client sound.
LEMMA WriteNextSound ==
    ASSUME NEW c, Sound(c), c.live = "open", NEW wok \in BOOLEAN, NEW cok \in BOOLEAN
    PROVE  LET d == WriteNext(c, wok, cok)
           IN  /\ Sound(d) /\ Moves(c, d)
               /\ ~c.closed => d.live = "open" /\ ~d.closed
<1> DEFINE d == WriteFront(c, wok)
<1>1. Sound(d) /\ Moves(c, d) /\ d.live = "open" /\ d.closed = c.closed
  BY WriteFrontSound
<1>2. WriteNext(c, wok, cok) = IF d.closed /\ ~MoreToSend(d) THEN CloseClient(d, cok) ELSE d
  BY DEF WriteNext
<1> HIDE DEF d
<1>3. CASE d.closed /\ ~MoreToSend(d)
  <2>1. Sound(CloseClient(d, cok)) /\ Moves(d, CloseClient(d, cok))
    BY <1>1, CloseSound
  <2>2. Moves(c, CloseClient(d, cok))
    BY <1>1, <2>1, MovesTransitive
  <2> QED
    BY <1>1, <1>2, <1>3, <2>1, <2>2
<1>4. CASE ~(d.closed /\ ~MoreToSend(d))
  BY <1>1, <1>2, <1>4
<1> QED BY <1>3, <1>4

\* queue_send extends the stream of a client that is not closed.
LEMMA QueueSendSound ==
    ASSUME NEW c, Sound(c), c.live = "open", ~c.closed, NEW n \in Nat
    PROVE  LET d == QueueSend(c, n)
           IN  Sound(d) /\ Moves(c, d) /\ d.live = "open" /\ ~d.closed
<1> DEFINE b == NewBuf(c, n)
           q == Append(c.sendbuf, b)
           m == c.queued + n
           d == QueueSend(c, n)
<1>1. /\ c \in Client /\ c.acked \in Nat /\ c.queued \in Nat /\ Len(c.wire) \in Nat
      /\ Queue(c.sendbuf, c.acked, Len(c.wire), c.queued)
  BY SoundFacts
<1>2. b \in SendBuf /\ b.base = c.queued /\ b.size = n /\ b.sent = 0 /\ b.ack = 0
  BY <1>1 DEF NewBuf, SendBuf
<1>3. d = [c EXCEPT !.sendbuf = q, !.queued = m]
  BY DEF QueueSend
<1> HIDE DEF b
<1>4. Queue(q, c.acked, Len(c.wire), m)
  BY <1>1, <1>2, QueueAppend
<1>5. q \in Seq(SendBuf) /\ m \in Nat /\ m >= c.queued
  BY <1>1, <1>4 DEF Queue
<1> HIDE DEF q, m, d
<1>6. /\ d \in Client /\ d.sendbuf = q /\ d.live = "open" /\ d.wire = c.wire
      /\ d.queued = m /\ d.acked = c.acked /\ d.closed = c.closed
      /\ d.websocket = c.websocket /\ d.ws_close_sent = c.ws_close_sent
  BY <1>1, <1>3, <1>5 DEF Client
<1>7. Sound(d)
  BY <1>4, <1>6 DEF Sound, StreamInOrder
<1>8. Moves(c, d)
  BY <1>1, <1>5, <1>6 DEF Moves
<1> QED
  BY <1>6, <1>7, <1>8 DEF d

\* send_buffer keeps a client sound, also when the client is closed and it does
\* nothing.
LEMMA SendSound ==
    ASSUME NEW c, Sound(c), c.live = "open", NEW n \in Nat, NEW wok \in BOOLEAN
    PROVE  LET d == SendBuffer(c, n, wok)
           IN  Sound(d) /\ Moves(c, d) /\ d.live = "open" /\ d.closed = c.closed
<1>0. c.closed \in BOOLEAN /\ c.queued \in Nat /\ Len(c.wire) \in Nat
  BY DEF Sound, Client
<1>1. CASE c.closed
  <2>1. SendBuffer(c, n, wok) = c
    BY <1>1 DEF SendBuffer
  <2>2. Moves(c, c)
    BY <1>0 DEF Moves
  <2> QED
    BY <2>1, <2>2
<1>2. CASE ~c.closed
  <2> DEFINE e == QueueSend(c, n)
             d == WriteNext(e, wok, TRUE)
  <2>1. Sound(e) /\ Moves(c, e) /\ e.live = "open" /\ ~e.closed
    BY <1>2, QueueSendSound
  <2> HIDE DEF e
  <2>2. Sound(d) /\ Moves(e, d) /\ d.live = "open" /\ ~d.closed
    BY <2>1, WriteNextSound
  <2>3. SendBuffer(c, n, wok) = d
    BY <1>2 DEF SendBuffer, e
  <2> HIDE DEF d
  <2>4. Moves(c, d)
    BY <2>1, <2>2, MovesTransitive
  <2>5. d.closed = c.closed
    <3>1. d.closed \in BOOLEAN
      BY <2>2 DEF Sound, Client
    <3> QED
      BY <1>0, <1>2, <2>2, <3>1
  <2> QED
    BY <2>2, <2>3, <2>4, <2>5
<1> QED BY <1>1, <1>2

\* Setting a flag of an open client keeps it sound.
LEMMA FlagsSound ==
    ASSUME NEW c, Sound(c), c.live = "open"
    PROVE  /\ Sound([c EXCEPT !.websocket = TRUE])
           /\ Sound([c EXCEPT !.ws_close_sent = TRUE])
           /\ Sound(SetClosed(c))
<1>1. c \in Client
  BY DEF Sound
<1> DEFINE d == [c EXCEPT !.websocket = TRUE]
           e == [c EXCEPT !.ws_close_sent = TRUE]
           f == SetClosed(c)
<1>2. /\ d \in Client /\ d.sendbuf = c.sendbuf /\ d.live = "open" /\ d.wire = c.wire
      /\ d.queued = c.queued /\ d.acked = c.acked
  BY <1>1 DEF Client
<1>3. /\ e \in Client /\ e.sendbuf = c.sendbuf /\ e.live = "open" /\ e.wire = c.wire
      /\ e.queued = c.queued /\ e.acked = c.acked
  BY <1>1 DEF Client
<1>4. /\ f \in Client /\ f.sendbuf = c.sendbuf /\ f.live = "open" /\ f.wire = c.wire
      /\ f.queued = c.queued /\ f.acked = c.acked
  BY <1>1 DEF Client, SetClosed
<1> HIDE DEF d, e, f
<1>5. Sound(d)
  BY <1>2 DEF Sound, StreamInOrder
<1>6. Sound(e)
  BY <1>3 DEF Sound, StreamInOrder
<1>7. Sound(f)
  BY <1>4 DEF Sound, StreamInOrder
<1> QED
  BY <1>5, <1>6, <1>7 DEF d, e, f

\* Deleting a client because of the peer or an error keeps it sound.
LEMMA LostSound ==
    ASSUME NEW c, Sound(c), c.live = "open"
    PROVE  LET d == Deleted(c, "lost")
           IN  /\ Sound(d) /\ d.live = "lost" /\ d.wire = c.wire /\ d.queued = c.queued
               /\ d.acked = c.acked /\ d.ws_close_sent = c.ws_close_sent
<1> DEFINE d == Deleted(c, "lost")
<1>1. c \in Client /\ <<>> \in Seq(SendBuf)
  BY DEF Sound
<1>2. /\ d \in Client /\ d.sendbuf = <<>> /\ d.live = "lost" /\ d.wire = c.wire
      /\ d.queued = c.queued /\ d.acked = c.acked /\ d.ws_close_sent = c.ws_close_sent
  BY <1>1 DEF Client, Deleted
<1> HIDE DEF d
<1>3. Sound(d)
  BY <1>2 DEF Sound, StreamInOrder
<1> QED
  BY <1>2, <1>3 DEF d

\* The close at the end of process_rqst keeps a client sound.
LEMMA EndRequestSound ==
    ASSUME NEW c, Sound(c), c.live = "open", NEW close \in BOOLEAN, NEW cok \in BOOLEAN
    PROVE  Sound(EndRequest(c, close, cok)) /\ Moves(c, EndRequest(c, close, cok))
<1>1. Moves(c, c)
  BY DEF Moves, Sound, Client
<1>2. Sound(CloseClient(c, cok)) /\ Moves(c, CloseClient(c, cok))
  BY CloseSound
<1> QED
  BY <1>1, <1>2 DEF EndRequest

\* mark_for_close and then another attempt at closing.
LEMMA MarkedSound ==
    ASSUME NEW c, Sound(c), c.live = "open"
    PROVE  LET d == MarkForClose(c)
           IN  /\ Sound(d) /\ d.live = "open" /\ d.closed
               /\ d.queued = c.queued /\ d.wire = c.wire /\ d.acked = c.acked
               /\ d.ws_close_sent = c.ws_close_sent
<1>1. c \in Client
  BY DEF Sound
<1>2. Sound(SetClosed(c))
  BY FlagsSound
<1> QED
  BY <1>1, <1>2 DEF MarkForClose, SetClosed, Client
=============================================================================
