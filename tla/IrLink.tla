------------------------------- MODULE IrLink -------------------------------
(***************************************************************************)
(* An infrared transmitter, a receiver that sees its light, and a thread   *)
(* that waits for messages in wait_for_message.                            *)
(*                                                                         *)
(* Time passes from one alarm to the next: an alarm fires when it is the   *)
(* first to be due, and the edges it makes in the light are seen by the    *)
(* receiver at once.  Interference hides an edge from the receiver or adds *)
(* one, MaxNoise times.                                                    *)
(***************************************************************************)
EXTENDS IrLed, IrReceiver

CONSTANTS
    Links,      \* pairs of the protocols of transmitter and receiver
    Tmos,       \* what the receiver's application does about a timeout
    Messages,   \* addresses and function codes transmitted
    Delays,     \* times after which the application or interference acts
    MaxGap,     \* longest time between two edges that is told apart
    MaxNoise    \* bound on interference and on interrupted transmissions

ASSUME LinkAssumption ==
    /\ Links \subseteq Protocols \X Protocols /\ Tmos \subseteq {"error", "fail", "keep"}
    /\ MaxGap > 16 * Base + Base \div 2 /\ MaxGap > 2 * BitTimeout
    /\ Delays \subseteq Nat /\ MaxGap \in Nat /\ MaxNoise \in Nat
    /\ Messages \subseteq Nat \X Nat
\* A message that is repeated leaves time for a pause (Sony: at most 38.4 ms of 45).
ASSUME PauseAssumption ==
    \A p \in Protocols, m \in Messages :
        MinRepeats[p] > 0 => Sum(MessageTimes(p, m[1], m[2])) + 2 <= Interval[p]
\* The protocols can carry the messages.
ASSUME MessageAssumption == \A l \in Links, m \in Messages : Fits(l[1], m[1], m[2])
\* A timeout that the application sets is longer than what it times: the pulses
\* after the sync space, and what follows the sync mark of a message.
ASSUME PatienceAssumption ==
    /\ BitTimeout > 0 => BitTimeout > 3 * Base
    /\ MsgTimeout > 0 => \A l \in Links, m \in Messages :
            MsgTimeout > Sum(MessageTimes(l[1], m[1], m[2])) - SyncMark[l[1]] * Base

VARIABLES
    link,     \* the protocols, and the timeout callback
    led,      \* the IR_LED object
    msg,      \* the message its times were made of
    rx,       \* the IR_Receiver object
    gap,      \* time since the receiver's last edge, prev_ts_
    waiter,   \* the thread: idle or waiting
    noise,    \* disturbances so far
    fresh,    \* ghost: the transmission began after a quiet time and has not
              \* been disturbed
    due,      \* ghost: transmissions still to be made
    since,    \* ghost: time since the last transmission began
    ended     \* ghost: a message, or the time for one, ended since the thread
              \* began to wait

vars == <<link, led, msg, rx, gap, waiter, noise, fresh, due, since, ended>>
ghosts == <<fresh, due, since, ended>>

TxP == link.tx
RxP == link.rx

Init ==
    /\ \E l \in Links, t \in Tmos : link = [tx |-> l[1], rx |-> l[2], tmo |-> t]
    /\ led = NewLed /\ rx = NewReceiver
    /\ msg \in Messages
    /\ gap = MaxGap /\ waiter = "idle" /\ noise = 0
    /\ fresh = FALSE /\ due = 0 /\ since = 0 /\ ended = FALSE

-----------------------------------------------------------------------------
(* Time                                                                     *)

Alarms == {led.left, rx.msgLeft, rx.bitLeft} \ {None}
CanPass(dt) == \A a \in Alarms : dt <= a
Later(left, dt) == IF left = None THEN None ELSE left - dt
\* The objects and the clocks dt later.
LedLater(dt) == [led EXCEPT !.left = Later(@, dt)]
RxLater(dt) == [rx EXCEPT !.msgLeft = Later(@, dt), !.bitLeft = Later(@, dt)]
GapLater(dt) == Min({MaxGap, gap + dt})
\* since is counted for protocols that repeat.
SinceLater(dt) == IF due > 0 /\ MinRepeats[TxP] > 0 THEN Min({Interval[TxP] + 1, since + dt}) ELSE 0

\* A transmission begins with its first mark.
Begins == led'.out = 1 /\ led'.lit /\ ~led.lit

\* The receiver's gpio_cb: the light goes to lit, seen or not.  What was heard
\* is forgotten when a transmission begins.
Sees(lit, dt, seen) ==
    LET r == [RxLater(dt) EXCEPT !.heard = IF Begins THEN NoEvent ELSE @] IN
    IF lit # led.lit /\ seen
    THEN /\ rx' = StoreTimestamp(RxP, r, GapLater(dt), ~lit) /\ gap' = 0
    ELSE /\ rx' = r /\ gap' = GapLater(dt)

\* What the receiver's routines mean to the waiting thread and to the
\* transmission under way.
Ends == \/ rx.sync # 0 /\ rx'.sync = 0
        \/ rx.msgLeft # None /\ rx'.msgLeft = None
Listens ==
    /\ ended' = (ended \/ Ends)
    /\ fresh' = (fresh /\ led.out <= Len(led.times))

\* So long a time without an edge ends any message that was being received,
\* unless the application keeps it or set no bit timeout.  A message timer that
\* the application started may end any message.
Quiet == Max({2 * BitTimeout, SyncSpace[RxP] * Base + Base \div 2})
Fresh(dt) == /\ GapLater(dt) > Quiet
             /\ rx.sync = 0 => rx.msgLeft = None
             /\ link.tmo = "keep" \/ BitTimeout = 0 => rx.sync # 2

-----------------------------------------------------------------------------
(* The transmitter                                                          *)

\* timer_cb; interference may hide the edge it makes.
LedAlarm(seen) ==
    LET dt == led.left IN
    /\ dt # None /\ CanPass(dt)
    /\ ~seen => noise < MaxNoise
    /\ led' = SetNext(TxP, led)
    /\ Sees(led'.lit, dt, seen)
    /\ noise' = IF seen THEN noise ELSE noise + 1
    /\ fresh' = (seen /\ IF Begins THEN Fresh(dt) ELSE fresh /\ led.out <= Len(led.times))
    /\ ended' = (ended \/ Ends)
    /\ due' = IF led.out = Len(led.times) THEN due - 1 ELSE due
    /\ since' = IF Begins THEN 0 ELSE SinceLater(dt)
    /\ UNCHANGED <<link, msg, waiter>>

\* The application starts a transmission or stops one after time dt.  While
\* one is under way this disturbs it.  A light that is turned off and on again
\* at once is not seen to change.
Controls(l, n, dt) ==
    /\ CanPass(dt)
    /\ led.left # None => noise < MaxNoise
    /\ led' = l /\ due' = n
    /\ Sees(l.lit, dt, TRUE)
    /\ noise' = IF led.left = None THEN noise ELSE noise + 1
    /\ fresh' = (l.lit /\ ~led.lit /\ Fresh(dt))
    /\ ended' = (ended \/ Ends)
    /\ since' = 0
    /\ UNCHANGED <<link, waiter>>

AppTransmit(m, dt) ==
    /\ Controls(Transmit(TxP, SetOutputTimes(led, MessageTimes(TxP, m[1], m[2]))),
                MinRepeats[TxP] + 1, dt)
    /\ msg' = m
AppRepeat(dt) ==
    /\ led.times # <<>>
    /\ Controls(Repeat(TxP, led), 1, dt)
    /\ UNCHANGED msg
AppStop(dt) ==
    /\ led.left # None
    /\ Controls(StopLed(led), 0, dt)
    /\ UNCHANGED msg

-----------------------------------------------------------------------------
(* The receiver                                                             *)

MsgAlarm ==
    LET dt == rx.msgLeft IN
    /\ dt # None /\ CanPass(dt)
    /\ rx' = TimeoutMsg(RxLater(dt), link.tmo)
    /\ led' = LedLater(dt) /\ gap' = GapLater(dt) /\ since' = SinceLater(dt)
    /\ Listens
    /\ UNCHANGED <<link, msg, waiter, noise, due>>

BitAlarm ==
    LET dt == rx.bitLeft IN
    /\ dt # None /\ CanPass(dt)
    /\ rx' = TimeoutBit(RxLater(dt), link.tmo)
    /\ led' = LedLater(dt) /\ gap' = GapLater(dt) /\ since' = SinceLater(dt)
    /\ Listens
    /\ UNCHANGED <<link, msg, waiter, noise, due>>

\* Interference: an edge that the transmitter did not make.
Glitch(dt, falling) ==
    /\ noise < MaxNoise /\ CanPass(dt)
    /\ rx' = StoreTimestamp(RxP, RxLater(dt), GapLater(dt), falling) /\ gap' = 0
    /\ led' = LedLater(dt) /\ since' = SinceLater(dt)
    /\ ended' = (ended \/ Ends) /\ fresh' = FALSE
    /\ noise' = noise + 1
    /\ UNCHANGED <<link, msg, waiter, due>>

\* The application starts the message timer before a message begins.
AppStartTimeout ==
    /\ rx.sync = 0 /\ led.left = None
    /\ rx' = StartMessageTimeout(rx) /\ rx' # rx
    /\ UNCHANGED <<link, led, msg, gap, waiter, noise>> /\ UNCHANGED ghosts

-----------------------------------------------------------------------------
(* wait_for_message                                                         *)

\* Mutant of WaitBegins: the semaphore is not taken first.
WaitBeginsOnce ==
    /\ waiter = "idle" /\ rx.permits = 1
    /\ waiter' = "waiting" /\ ended' = FALSE
    /\ UNCHANGED <<link, led, msg, rx, gap, noise, fresh, due, since>>
\* sem_try_acquire; without a permit wait_for_message returns false at once.
WaitBegins ==
    /\ waiter = "idle" /\ rx.permits = 1
    /\ rx' = [rx EXCEPT !.permits = 0]
    /\ waiter' = "waiting" /\ ended' = FALSE
    /\ UNCHANGED <<link, led, msg, gap, noise, fresh, due, since>>

\* sem_acquire succeeds, and sem_release gives the permit back.
WaitWakes ==
    /\ waiter = "waiting" /\ rx.permits = 1
    /\ waiter' = "idle"
    /\ UNCHANGED <<link, led, msg, rx, gap, noise>> /\ UNCHANGED ghosts

\* sem_acquire_timeout_ms gives up, and sem_release gives the permit back.
WaitTimesOut ==
    /\ waiter = "waiting" /\ rx.permits = 0
    /\ rx' = [rx EXCEPT !.permits = 1]
    /\ waiter' = "idle"
    /\ UNCHANGED <<link, led, msg, gap, noise>> /\ UNCHANGED ghosts

-----------------------------------------------------------------------------
Next ==
    \/ \E seen \in BOOLEAN : LedAlarm(seen)
    \/ MsgAlarm
    \/ BitAlarm
    \/ \E dt \in Delays      : \/ \E m \in Messages : AppTransmit(m, dt)
                             \/ AppRepeat(dt)
                             \/ AppStop(dt)
                             \/ \E falling \in BOOLEAN : Glitch(dt, falling)
    \/ AppStartTimeout
    \/ WaitBegins
    \/ WaitWakes
    \/ WaitTimesOut

\* The hardware alarms fire.
Fairness == WF_vars(LedAlarm(TRUE)) /\ WF_vars(MsgAlarm) /\ WF_vars(BitAlarm)

Spec == Init /\ [][Next]_vars /\ Fairness

-----------------------------------------------------------------------------
(* Properties                                                               *)

\* The objects stay well-formed; in particular out_index_ and repeat_ keep
\* within what is transmitted, and no buffer outgrows a message.
TypeOK ==
    /\ led.out \in 0..(Len(led.times) + 1) /\ led.repeat \in 0..MinRepeats[TxP]
    /\ rx.sync \in 0..2 /\ Len(rx.pulses) < MessageLen(RxP)
    /\ rx.permits \in 0..1 /\ waiter \in {"idle", "waiting"}
    /\ gap \in 0..MaxGap /\ noise \in 0..MaxNoise

\* What is to be heard of a whole transmission.
Expected ==
    IF TxP # RxP THEN "none"
    ELSE IF led.times = RepeatTimes THEN "repeat"
    ELSE IF Address \in {AnyAddr, HeardAddr(TxP, msg[1])} THEN "msg" ELSE "error"

\* A transmission that begins after a quiet time and is not disturbed reaches
\* the application, once, with its own address and function code (or as a
\* repeat), whatever noise, broken message or timer came before it; a receiver
\* of another protocol hears nothing.
FreshHeard ==
    (fresh /\ led.out = Len(led.times) + 1)
      => /\ rx.heard.kind = Expected
         /\ rx.heard.kind = "msg" => rx.heard.addr = HeardAddr(TxP, msg[1]) /\ rx.heard.func = msg[2]

\* Nothing is left behind by what is over: a receiver outside a message has no
\* bit timer, reset having cancelled it on every path; the light is off unless an
\* alarm will turn it off; and the semaphore has its permit back after every
\* wait_for_message, so that a thread can begin to wait.
AtRest == /\ rx.sync = 0 => rx.bitLeft = None
          /\ led.left = None => ~led.lit
          /\ waiter = "idle" => rx.permits = 1

\* transmit and repeat send exactly the repetitions of the protocol.
AllFramesSent == due >= 0 /\ (led.left = None => due = 0)

\* Repetitions begin repeatInterval() apart.
EvenFrames == [][LedAlarm(TRUE) /\ Begins => SinceLater(led.left) = Interval[TxP]]_vars

\* wait_for_message returns true only when a message ended after it was called.
NotStale == (waiter = "waiting" /\ rx.permits = 1) => ended

\* With a message timeout every message that begins comes to an end, whole,
\* broken off or garbled, unless the timeout callback wants to keep it.
MessageEnds == (rx.sync # 0 /\ link.tmo # "keep") ~> rx.sync = 0
=============================================================================
