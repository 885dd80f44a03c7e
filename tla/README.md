# Verification of picolibs

TLA+ models of the library's own logic (`src/network`, `src/util`, `src/ir`),
checked with TLC on small instances and, but for liveness, proved with TLAPS for every
value of the constants. `PROJECT.json` lists the runs, the mutants that
show each property can fail, the source lines behind every definition, the
hazards of the code and the findings.

## 1. The system

picolibs is a set of C++ classes for the Raspberry Pi Pico W. Three kinds of
context run the code: the main loop; callbacks of lwIP and cyw43, one at a time
under the cyw43 lock; and timer, GPIO and PWM interrupts, which may interrupt
both. There is no operating system and nothing is persisted except a log file.

| part | state | operations | talks to |
|---|---|---|---|
| `WEB::CLIENT`, `SENDBUF` | list of send buffers (`size_`, `sent_`, `ack_`), `closed_`, `websocket_`, `ws_close_sent_`, last activity | `queue_send`, `get_next`, `requeue`, `acknowledge`, `setClosed` | `write_next`, `close_client` |
| `WEB` tables and request loop | `clientPCB_`, `clientHndl_`, `next_handle_`, `rqst_` of each client | `tcp_server_accept/recv/sent/poll/err`, `process_rqst`, `process_websocket`, `send_data`, `send_message`, `broadcast_websocket` | lwIP, the application's callbacks, `HTTPRequest`, `WS` |
| WiFi station | `wifi_state_`, `wifi_addr_`, `reconnect_time_`, host name, SSID, password | `connect_to_wifi`, `update_wifi`, `check_wifi` (every 500 ms) | cyw43, the notice callback |
| Access point | `ap_active_`, `ap_requested_`, `ap_name_` | `enable_ap`, `start_ap`, `stop_ap` (from `check_wifi`) | cyw43, DHCP server |
| WiFi scan | `scans_`, `ssids_` | `scan_wifi`, `scan_cb`, `check_scan_finished` | cyw43, scan callbacks |
| DHCP server | eight leases: MAC, 16-bit expiry | `dhcp_server_process`, `init`, `deinit` | lwIP UDP, the millisecond clock |
| HTTP parser, WebSocket codec | the request text and its parts; frame header | `parseRequest`, `ParsePacket`, `BuildPacket` | `rqstIsReady`, `send_message` |
| `websocket.js` | socket, open and retry flags | `openWS`, `closeWS`, `sendToWS`, events | the browser |
| Button, LED, Sound | debounce, click and flash timers, event queue, registries | GPIO and alarm callbacks | application |
| IR receiver and transmitters | edge time stamps, timeouts, message list; pulse trains | GPIO and alarm callbacks, `wait_for_message`; `transmit`, repeat | application |
| Loggers, TXT, JSON | a file and its tail; growing buffers | `print`, `trim_file`; `expand`, `contract`; parse and print | everything |

What is hard here: a send may be accepted, written in parts, refused by lwIP,
written again, acknowledged across buffer boundaries and overtaken by a close;
clients vanish between (and inside) callbacks while handles and pointers to them
are kept; the timer samples the radio every 500 ms and sees no more than that;
two-word requests are interrupted half-way; a 16-bit expiry is compared with a
32-bit clock that wraps.

## 2. Plan

Done in this state of the project:

1. `WebClient`, `Connection`, `ByteStream`: the send queue,
   the most intricate part, with an abstract specification and refinement.
2. `WebServer`: the tables and the receive loop over several connections.
   `WsCodec`, `HttpRequest` and `Receive`: the text that loop works on, from segments to
   callbacks.
3. `WifiStation`, `AccessPoint`, `WifiScan`, composed in `WebTimer`: the parts driven by
   the 500 ms timer.
4. `DhcpServer`.
5. `IrCodec`, `IrLed`, `IrReceiver`, composed in `IrLink`: a transmitter and a receiver
   with their protocols.
6. `Button`: one push button.
7. `Led`, `Sound`, `FileLogger`, `BrowserSocket`: the other parts with interrupts, crashes
   or late events. `Parts` checks them in one run with `Button` and `DhcpServer`.
8. Proof modules: `WebClientProofs`, `ConnectionProofs`, `WebServerProofs`,
   `WebTimerProofs`, `ReceiveProofs`, `BinaryProofs`, `IrLinkProofs` and `PartsProofs`. All
   safety properties of the passing runs are theorems.

Next, in this order:

- the raw IR receiver, and the lists of buttons and of IR receivers, with objects created
  and destroyed in any order;
- `SendRace`: the steps of `write_next` on the main thread interleaved with the
  callbacks, as the send calls take no lock;
- multipart bodies, and the growing buffer of `TXT`.

## 3. Modules

**WebClient** holds the routines of one client as operators on a record. A byte
is its position in the stream of bytes accepted for the connection, so a buffer
is an interval of positions; the ghost `wire` records what `altcp_write` took,
byte for byte, and `queued` and `acked` count. `Take`/`Requeue`/`AckBuf` are
`SENDBUF`'s `get_next`/`requeue`/`acknowledge`; `Acknowledge` is the loop of
`CLIENT::acknowledge` with its early break; `WriteFront` and `WriteNext` are
`write_next` with a write that succeeds or fails; `CloseClient` is
`close_client`. `closed` also stands for `pcb_ == nullptr`, which is why
`SendBuffer` on a closed client finds nobody.

**Connection** drives one client: `Sent`, `PollWrite`/`PollIdle`/`PollClosed`,
`PeerClosed` and `Err` are lwIP's callbacks, `HttpHandled`, `HttpUnhandled`,
`OpenWebSocket`, `BadWebSocket`, `WsText`, `WsPing`, `WsClose` the outcomes of a
request, `AppSend` a send at any other time. A poll of an open client is
`PollWrite` when the client is not idle and `PollIdle` when it is; minutes are
abstracted to whether the client may be idle, which takes into account that
every write refreshes the clock until a CLOSE frame was sent. The request
itself is not modelled here; its kind is the action. The ghost `hampered`
remembers that a write failed or an empty buffer had to wait, after which a closed
client may stay.

**ByteStream** is what a connection promises: accepted bytes leave in order and
once, no byte is accepted after closing began, and a connection closed by the
server has delivered everything. `Connection` maps `accepted` to `queued` and
`phase` to the client's `live` and `closed` fields.

**WebServer** has several control blocks and clients. `Recv` appends requests to
`rqst_` and enters the loop of `tcp_server_recv`; each `Turn...` action is one
turn of it (whole: process the request, then `resetRqst`), `LoopEnd` leaves it.
Control blocks that lwIP frees are used again by `Accept`. Handles come from a
small range so that `next_handle_` wraps. The ghost
`usedFreed` records that the loop used a deleted client, and whether that turn had
queued an answer.
Between callbacks anything may happen; within the loop nothing else does, as the
callbacks run under the lock.

**WebTimer** composes **WifiStation**, **AccessPoint** and **WifiScan**, the three parts
the 500 ms timer drives: one `Tick` is `timer_callback`, a step of all three, and the
application and the radio act in between. In `WifiStation` the radio is external and
moves between ticks as it likes (`SlowJoin` restricts it to joins that a tick can see),
and connecting can be refused separately for the application and for the timer. In
`AccessPoint` the two assignments of `enable_ap` are separate steps, and the assignment
of the string passes through a torn value. `WifiScan` keeps who waits for a callback and
what the scan found as ghosts. A request between the end of a scan and the tick that reports
it drops those who wait and keeps the networks found: the ghosts `lost` and `overrun` record that.

**DhcpServer** keeps the table, the clock modulo `Wrap` and the expiry in units of
`Grain`, as the code keeps the upper 16 of 32 bits. Clients may discover and
request anything at any time, so lost and repeated messages are included;
`held` counts, on the client's clock, how long it may use an address. The loop of
DHCPDISCOVER is `Discover`, the lease it wipes on the way; the address it offers is not
state, and clients may request any. Option parsing and message layout are left out.

**IrLink** composes a transmitter (**IrLed**) and a receiver (**IrReceiver**), whose
protocols are chosen at the start (the same one, or a Samsung transmitter seen by a NEC
receiver). **IrCodec** has the protocols: the times a message is sent
as and how a list of times is decoded. Only the ratios of times matter to the receiver,
so a protocol keeps its sync and bit times with their tolerance, and its bytes have
`Bits` bits. **Binary** has powers of two and the bits of a number, for this codec and for the
masks of websocket frames. Time passes from one alarm to the next. `LedAlarm` is `timer_cb`, at which the light
changes and the receiver's `gpio_cb` runs; `MsgAlarm` and `BitAlarm` are the receiver's
timeouts; `AppTransmit`, `AppRepeat`, `AppStop` and `AppStartTimeout` are calls;
`WaitBegins`, `WaitWakes` and `WaitTimesOut` are the parts of `wait_for_message` around
its semaphore. `Glitch` and a hidden edge are the disturbances of the light; the ghost
that records them says which transmissions must be heard.

**Button** is one button: `Contact` is an edge of the pin and `do_event`, the `Bounce...`
actions are the outcomes of `bounce_cb`, `ClickCb` and `HoldCb` the other alarms,
`GetNextEvent` a read of the queue. An alarm is the time until it fires; `dropped` and
`owed` are ghosts. A free alarm is assumed: the code does not look at the result of
`add_alarm_in_ms`, and without an alarm a settled state or a click would not be noticed.

**WsCodec** has `BuildPacket` and `ParsePacket` on sequences of numbers, with the three
encodings of the length, masking and the decryption in place, on bytes of `Bits` bits; the two `BuildPacket`s of
`ws.cpp` have one layout (the masking of the one for `TXT`, which nothing uses, runs by the size
with the header and is left out). `char` is unsigned on the Pico, so the shifts of `ParsePacket` add
digits. **HttpRequest** has `parseRequest` on a sequence of lines and body cells: where a
request ends, what is dropped when there is none, and a url-encoded form decoded in
place, where a value is a C string in the request text. It says when the parser is in a
loop it never leaves. **Receive** puts them under `tcp_server_recv`: the client's messages
become cells on the `wire`, a segment takes any number of them, and the loop takes
what is complete: `taken` has the messages, `calls` those that the application's callbacks
got (an upgrade, a ping, a close frame and a binary frame do not get there). `conn` says
whether the client is open, closed, or deleted: a close frame closes it, and so does the
404 that answers a stray newline with a request behind it; `Gone` is the acknowledgement
after which it is deleted. `Frame` and `FormData` are written from the protocols, not the code:
they are what the code is compared with. `WholeHeads` says that no segment ends within
the head of a request, because the parser hangs then (run `request_hang`).

**Led** splits `setFlash`, `setFlashPattern` and `setState` where the alarm can come
between their assignments; the ghost `promise` is what the last call returned. **Sound**
splits `playOnce` and `stopPlaying` likewise; calls that wait are two steps, before and
after. The ghost `due` is rings asked for less rings played, and `tally` says whether
`playOnce` alone decided on them, and if it did, whether the interrupt got into its addition. **FileLogger** splits `trim_file` at its file operations, and `Crash` comes between
any two; a line longer than the buffer of `fgets` is several chunks, which is what the
code counts when it trims (but not when it prints). Without a log `find_tail` reads the front
of an empty list; the model takes 0. **BrowserSocket** has every socket
ever made until its last event: a handler looks at the variable `ws`, which may be
another socket by then.

**Parts** is the sum of the parts that share nothing with any other: a behaviour of `Parts`
is one of one part while the others stay as they began. Their product would be as
large as it would be pointless, and a run for each would ask the same of each: that it
keeps its promises against its interrupts or peers.

## 4. Runs

| run | shows |
|---|---|
| `connection` | One connection under every order of callbacks, requests, sends, write and close failures: bytes leave once and in order, acknowledgements match, a graceful close loses nothing, the connection implements the abstract byte stream, what is queued on an open client is delivered although altcp_write may fail, and a closed client goes unless a write failed or an empty buffer waited. |
| `connection_stuck` (violation expected) | When altcp_write fails for a client that is then closed, nothing writes its buffer again and the connection never closes. |
| `web_server` | Several connections with pipelined requests, failing writes and closes, handles and control blocks used again: the two tables agree and hold only connected control blocks, no connection is forgotten, and an answered request keeps its client through the receive loop. |
| `web_freed` (violation expected) | A request handled without an answer closes and deletes the client inside the receive loop, which then goes on using it. |
| `web_timer` | The timer with the WiFi connection, the access point and the scans: a lost network is tried again, the application hears of a lasting link, the access point runs for its period and stops, and a scan request is called back with the networks of its scan, unless another request comes between the end of the scan and the tick that reports it. |
| `scan_lost` (violation expected) | A request between the end of a scan and the tick clears the list of those who wait, and they are never called back. |
| `wifi_retry` (violation expected) | One refused reconnect of the timer, and the network is never tried again. |
| `ir_link` | A transmitter and a receiver of each protocol, with a disturbance (a hidden edge, an extra edge, an interrupted transmission) and timeouts at any moment: every transmission after a quiet time is heard, timers and the semaphore are where they belong, and every message ends. |
| `receive` | One client's requests, forms and frames of every length class, cut into segments anywhere but within the head of a request: the server takes them whole, once and in order, the application's callbacks get the requests and text messages and nothing else, pings and the close frame are answered, and everything sent is taken in the end, unless a stray newline made the server close the connection. |
| `request_hang` (violation expected) | When the head of a request is cut into two segments the parser never returns from the first, and the request is never taken. |
| `parts` | Each part that stands alone, in all its behaviours: a bouncing button, an LED and sound against their interrupts, a log trimmed through crashes, three DHCP clients for two addresses through wraps of the clock, and a page whose sockets report late. |
| `log_lost` (violation expected) | When the temporary file cannot be opened, trim_file removes the log all the same and the lines that were to remain are lost. |

Findings (runs that expect a violation) are described with their quotations in
`PROJECT.json`. Other places where the code does less than one would expect, seen while
modelling and kept as hazards with a note: `send_data` and `send_message` read through
the pointer of a client that is gone before they test it, and return true for a closed
client although nothing is queued; a peer's close whose `altcp_close` fails leaves lwIP's
control block behind; an access point started between the two assignments of `enable_ap`, or
already active, has another name than the last one asked for; a scan that begins before the
one before it was reported is reported with the networks of both; `playOnce(0)` plays once,
and `playOnce` loses or adds rings when the interrupt ends one within its addition; and with
two empty sends in front of data a client that is closed never sends that data and stays for
ever, because each step drops only one of them, writing stops at the other, and the poll of
a closed client does not write.

**Bounds.** Connection: MSS 2, send buffer 3 and buffers of 0, 1, 3 and 5 bytes make
a buffer need several writes, a write fill the window, an acknowledgement span
buffers, and zero-length sends occur; 7 bytes and 3 buffers leave room for every
sequence of these. The proofs remove these bounds. WebServer: two control blocks and
three handles make blocks and handles be used again and `next_handle_` wrap;
pipelines of two requests put a request behind one that closes. WebTimer: an interval of
2 ticks separates arming, counting and firing; two requests of 0 or 1 minutes of two
ticks allow a request before, during and at the end of a period; two clients share or
follow each other's scans, in every order with the end of a scan and the tick. DhcpServer: three clients and two addresses force
reuse; `Wrap` 32, `Grain` 4 and `Lease` 7 keep the proportions the code relies on (a
lease and its rounding shorter than half the counter) and the clock wraps.
IrLink: bytes of one bit make a message of 11 pulses; the two messages have a short
address that is complemented or doubled and a long one; two delays, one shorter and one
longer than the receiver's bit timeout, put the next transmission before and after the
end of a broken one; one
disturbance per behaviour. Button: the times keep the order of the code's defaults
(debounce, click, hold), delays of 0 to 4 put edges before, at and after each alarm, and
a queue of three fills. Receive: a byte has 4 values and the length codes 126 and 127
are 2 and 3, so payloads of 0, 1, 2, 15 and 16 numbers lie on both sides of every limit; three
messages make a request follow another, an upgrade and two frames; after a `get` the client
does not wait, after a form it does, because the byte written behind the last value falls
into the next request (a hazard); one stray newline. Led: periods below, at and above the number of bits,
and an alarm is always free, because `setFlash` returns true also when none is. Sound: empty and short
data, 0, 1 and 9 rings, `RepeatWrap` 16 for 256, so that a sum of rings wraps. FileLogger: ten chunks allow two
trimmings with a crash in each, with lines of one and two chunks; `tmp.tmp` can always be
opened, `log_lost` shows what happens otherwise. BrowserSocket: three sockets at a time,
two failures and three calls.

**Deadlock** is checked except where the system may stop: a closed connection
(Connection), a client that has sent all it wants (Receive), a log with nothing more to
write and a page nobody touches (Parts, FileLogger).

**Fairness.** lwIP acknowledges what it holds or reports an error, and polls every
second: weak fairness of `Sent`, and strong fairness of polls that write or close
successfully, because a poll comes again and again and memory does not stay
exhausted for ever. `add_repeating_timer_ms` gives weak fairness of each `Tick`.
`WebTimer` and `WifiStation` add strong fairness of a reconnect attempt that succeeds: if the code
tried again and again, one attempt would be accepted. A scan ends (cyw43). Nothing
is assumed of the application or the peer.
In `WifiScan` alone, too, the timer ticks and a scan ends. In `IrLink` the alarms fire (weak fairness): they are hardware timers. In `Receive` lwIP
delivers what the client sent and a callback goes on. In `Sound` the PWM interrupt comes
while it is enabled and the application is scheduled. In `BrowserSocket` the interval timer
runs, an attempt to connect succeeds when the network has failed often enough, and a
closing handshake ends; the error of a socket closed early comes within the ten seconds
of the timer, or the retry would be closed by it.

## 5. Proofs

Every theorem holds for all values of the constants that satisfy the named
assumptions of the modules, so it removes the bounds of the run that checks the same
property. An inductive invariant was checked with TLC on a small instance before it was
proved, except those that quantify over what TLC cannot enumerate (the stream of `Receive`).

| module | proves of its specification | inductive invariant |
|---|---|---|
| `ConnectionProofs` | `TypeOK`, `InOrder`, `AckWithinSent`, `GracefulClose`, `OneCloseFrame`, `QueueMatchesStream`, and that `Connection` implements `ByteStream` | `IInv` |
| `WebServerProofs` | `TypeOK`, `TablesAgree`, `MappedConnected`, `NoOrphan`, `AnswerKeepsClient`, `ClientsSound` | `ServerInv` |
| `WebTimerProofs` | `TypeOK`, `RadioMatches`, `FullPeriod`, `ResultsFresh` | `TimerInv`, `ListFresh` |
| `ReceiveProofs` | `Delivered`; and `ParseUndoesBuild`, that `ParsePacket` undoes `BuildPacket` | `Inv` |
| `BinaryProofs` | of no specification: induction over numbers, and the bits of a number, which `ReceiveProofs` and `IrLinkProofs` need | |
| `IrLinkProofs` | `DecodeUndoesEncode`, that `decode` undoes `setMessageTimes`; `TypeOK`, `AtRest`, `AllFramesSent`, `NotStale`, `EvenFrames`, `FreshHeard` | `LinkInv`, `FreshInv` |
| `PartsProofs` | `ButtonTypeOK`, `NoEdgeLost`, `Alternates`, `Accounted`, `TailKept`, `LogTypeOK`, `LedObeys`, `RingsCounted`, `LeaseKept`, `ExpiryNoticed`, `OneSocket`, and all of the parts' properties of `Parts`, with its `TypeOK` | `ClickFirst` and others, `LogInv`, `LedInv`, `SoundInv`, `DhcpInv`, `SocketInv` |

**One client** (`WebClientProofs`, `ConnectionProofs`). `InOrder`, `AckWithinSent` and
`GracefulClose` are in no run: they are proved, and the refinement run would show them
broken. Assumed: `MSS` and `SNDBUF` positive, sizes and bounds natural numbers.
The inductive invariant `IInv` says that the client is `Sound`: it is well formed,
`wire` is 1, 2, 3, ..., the list of buffers describes the stream (`Queue`: adjacent
intervals from the first unacknowledged byte to the last accepted one, only the
front partly sent), a deleted client has no list, and one closed by the server
delivered everything; and that a CLOSE frame was counted only if `ws_close_sent`
says so. None of the properties is inductive alone: that the next write continues
`wire` needs the front's position, which needs adjacency of the buffers when the
front is popped, which needs that an acknowledgement never exceeds what was sent.
`EndsWithin` (no buffer ends beyond the accepted bytes) follows from adjacency only
by induction over the list, so it is carried as a conjunct. The lemmas go from one
buffer (`BufAcked`, `BufTaken`), through the list (`QueueTail`, `QueueFront`,
`QueueAppend`, `QueueAcknowledge`) and the routines (`AckSound`, `WriteNextSound`,
`CloseSound`, `SendSound`) to the actions (`NextStep`). Each routine is also shown to
move the counters only forward (`Moves`), from which `StreamStep` and `Refinement`
follow.

**Many clients** (`WebServerProofs`). `ServerInv` has the two tables, lwIP's view of the
control blocks and the soundness of every client, which comes from the lemmas about one
client: the routines are the same operators. That a new client never gets a handle in use
needs that `nextHandle` finds one at all: the tables map control blocks onto handles, so
there are no more live handles than control blocks (`SomeHandleFree`), of which there are
fewer than handles (`HandlesAssumption`: the handles from 1000 up to the largest
`ClientHandle` in the code, and a few control blocks).
`NoUseAfterFree`, which the run `web_freed` shows to be false, is replaced by what is true:
`usedFreed` is never set by a turn that queued an answer.

**The timer** (`WebTimerProofs`). A step of `WebTimer` is one of a part or a tick of all
three, so the invariant is the conjunction of theirs. `PeriodKept` is what the access
point lacks: the ticks served and the ticks left make up the period last asked for.
`ListFresh` says that while somebody is to be called back the list of networks holds
what the scan found so far, and nothing else unless a request overran the tick; otherwise it
is empty and no scan runs.

**The request text** (`ReceiveProofs`). `Delivered` compares two ghosts, `taken` and
`sent`; what connects them are the cells between, so `Inv` is about these. There is a stream
`X` of all the client ever sent, in which message `i` has the cells `g[i]` from `b[i]` on
(`Stream`), and the request text followed by the wire is the end of it, from the place
where the first message that is not taken begins (`Place`), until the client is deleted. TCP then only moves
the border between text and wire (`PlaceRecv`), however it cuts. Two things are in the way
of this simple picture, both in the code. A stray newline may stand between two messages, and
the text then begins with it. And `get_post_urlencoded` writes a byte behind the form, over
that newline, so the text is not what was sent; the byte is gone when the callback returns
(`AtNewline`). Behind a form or an upgrade nothing but a newline can be on the
way, because the client waits for the answer (`Protocol`): for an upgrade this matters
because `open_websocket` drops the text. `Protocol` also has that a close frame is the last
message, so that the server never owes a second one, and `Quiet` that on a closed websocket
nothing is left to take. `Outputs` has the calls and the replies so far: each is the list of
what the taken messages of its kinds give (`OutputsOf`), which grows with the one taken
(`OutputsStep`).
The parsers come in as lemmas on a text that begins with a message or is the
beginning of one (`Agree`): `RequestRead`, `NewlineRead`, `NothingRead` and `ParseFrame`. `ParseFrame`
is half of `ParseUndoesBuild`: the digits of the length are joined again
(`FourDigits`), and the exclusive or with the key, which is taken bit by bit, is undone by
another (`XorTwice`). For forms, the loop of `get_post_urlencoded` is a recursive function
of the place in the text; `ItemExists` builds it from the end of the body on, and `FormItems` shows by
induction from the last item that it finds them all, so that with `NulApart`
(a byte written behind a value is never in another one) the values are those of `FormData`.
Assumed: the stray cell is a newline (a stray letter `G` or `P` would be taken for the first
of a method, and the request after it is not recognised); the items of a form have an
equal sign, or the loop never ends (`FormsAssumption`); the client waits behind a form and an upgrade
(`RequestsAssumption`); a payload is shorter than 2^32 bytes (`FramesAssumption`). The theorem has no
`WholeHeads`: where the parser hangs, it delivers nothing wrong.

**IR** (`IrLinkProofs`). `LinkInv` has a well-formed transmitter and receiver (`LedOK`,
`RxOK`), the repetitions still owed (`Owed`), the thread and its semaphore, and `Pace`: how
long ago the current transmission began, told from `out_index_` and the alarm. With it
`EvenFrames` needs only arithmetic, but for the sum of the times sent so far, which is a
recursive function: `SetInduction` (`BinaryProofs`) gives induction in the form the provers can use (a set
of numbers with 0 and all successors is `Nat`), and `Sums` is proved with it. Assumed: a
message that is repeated leaves time for a pause (`PauseAssumption`; 38.4 of 45 ms for Sony),
and `MaxGap` exceeds the times that are told apart.

`FreshHeard` says that what the transmitter sends is what the receiver reports. It has
two halves. The first is about numbers: `DecodeUndoesEncode`. The bits
of a number are read off with masks and put together again in a loop; both are recursive
functions, and `NatRecursion`, which follows from `SetInduction`, shows that such
functions exist and are what their equations say, so that the induction over
the bits can be made. A long address whose bytes are those of a short one is taken for it
(`Ambiguous`); the theorem says so. The second half is about time. `FreshInv`
has what is known of the times being sent (`KnownPart`), what the bit timer
knows (`BitTimed`: unless the application keeps a broken message, the timer ends it at most
two timeouts after the last edge, so a receiver that has seen no edge for longer is not in
one) and that the receiver follows the transmission (`Follows`): after the jth edge it has
collected exactly the first j - 1 times, its message timer fires after the end of the
transmission, and its bit timer, if it has seen no pulse since it looked last, does so
after the next edge. The property alone is far from inductive, as it speaks only of
the last edge. Assumed: the protocols can carry the messages (`MessageAssumption`), and
timeouts that the application sets are longer than what they time (`PatienceAssumption`): the bit
timeout than the longest pulse of a bit, the message timeout than a message. A shorter one
ends good messages. A transmission is fresh when it begins after the light was off for longer
than a sync space and than any bit timer takes to end a message, with no message timer running from before, and,
where nothing ends a broken message (the application keeps it, or has set no bit timeout),
with none being collected. The light need not be undisturbed before: the receiver may
be in any state that interference and interrupted transmissions leave behind.

**Button** (`PartsProofs`). `Accounted` is not inductive: it
breaks if the hold alarm fires while a click timer runs, because `button_held` stops the
click timer and the click is lost. `ClickFirst` excludes that: a click timer that
runs while the contact of the next press settles has already run as long as the debounce alarm,
so it ends before the hold timer started when that alarm fires, provided that the click
time is at most the hold time (the code's defaults satisfy this). `Alternates` is a
statement about the event read last followed by the queue, and is kept by adding the move
that differs from the last state reported (`AddInTurns`) and by taking the first
(`TakeInTurns`).

**Log file** (`PartsProofs`), if `tmp.tmp` can be opened. `LogInv` says that
the log has the last chunks written without a gap (`Consecutive`) and what each step of
trimming relies on (`Kept`): while it copies, the log is longer than what is to remain;
before the log is removed, `tmp.tmp` is a copy of its end; after that, and after a crash
there, `tmp.tmp` holds the chunks that precede the log, until the log is long enough
to be trimmed again, which is the only time `tmp.tmp` is overwritten.

**The other parts** (`PartsProofs`).

- LED, if an alarm is free: `Quiet` is what `LedObeys` lacks: a
  steady LED has no alarm, or one that finds the period zero and ends.
- Sound: `Counting` relates the rings due to
  `repeat_`, the position in the data and an addition under way; `Off` says that an interrupt that is off leaves no
  tone and no loop for the next `playOnce`.
- DHCP: `Remaining` is what the code compares with zero, before it is taken as signed.
  `Covered` says that it exceeds what a client may still use by less than the rounding, and
  `RanOut` that after the lease it goes on falling, through zero and around the counter. The
  numbers are any with a counter that is a multiple of twice the rounding and a lease and
  rounding of less than half the counter (`TicksAssumption`): 2^32, 2^16 and 86,400,000 in
  the code. The proof showed that `ExpiryNoticed` holds from the first tick after the
  rounding and until half the counter has passed, and it is stated so.
- Browser: `LastOne` is stronger than `OneSocket`: with a patient
  application every socket with an event still to come is the one in use, so a late event
  never hits another.
- `PartsBehave`: a behaviour of `Parts` is one of each part. So all the safety properties of
  the run on `Parts` are theorems of its specification (`PartsType`, `PartsSafe`).

**Only model-checked.**

- Liveness (fairness and ENABLED are out of the prover's reach): `OpenDrains`, `ClosedGoes`,
  `Retries`, `NoticeSettles`, `TurnsOff`, `AnsweredOrDropped`, `MessageEnds`, `AllHandled`,
  `WaitEnds`, `Reconnects`.
- So the theorem on `Delivered` says nothing of a parser that never returns: that the text is
  taken in the end is `AllHandled`, which TLC checks with whole heads.

## 6. Not modelled

- Of modelled parts: multipart bodies, cookies and queries of a request; the levels, volume
  and frequencies of sound (so that a `beep` after a tone that was stopped at once plays
  the sine of the tone is not seen); the destructors of LED, buttons and receivers and the
  lists they are in; a scan callback that asks for a scan.
- The raw IR receiver (see the plan).
- TXT and JSON: text conversion by code that nothing interrupts. TLS and the listeners:
  library calls and configuration. Power, PWM and servo: register writes and scaling. Embedded
  web files and the script that generates them; setting the clock; build files.

The reasons are also in `PROJECT.json`, and hazards no property covers carry a note there.
