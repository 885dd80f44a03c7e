------------------------------- MODULE Button -------------------------------
(***************************************************************************)
(* A push button (util/button.cpp): an edge interrupt that starts a        *)
(* debounce alarm, alarms that tell clicks, double clicks and long presses *)
(* apart, and a queue of events for the application.                       *)
(*                                                                         *)
(* Time passes from one alarm to the next, or by one of Delays until the   *)
(* contact opens or closes.  The interrupts of pin and alarms are served   *)
(* one after the other, so a callback is one step.  An application with a  *)
(* callback of its own instead of the queue reads every event at once.     *)
(* An alarm is assumed to be free whenever one is started; the code does   *)
(* not look at the result of add_alarm_in_ms.                              *)
(***************************************************************************)
EXTENDS Integers, Sequences

CONSTANTS
    None,         \* -1: no alarm
    BounceTime, ClickTime, HoldTime,
    QueueSize,    \* elements of the event queue
    Delays        \* times between two changes of the contact

ASSUME NoneAssumption == None \notin Nat
ASSUME TimesAssumption ==
    {BounceTime, ClickTime, HoldTime, QueueSize} \subseteq Nat \ {0} /\ Delays \subseteq Nat

VARIABLES
    down,     \* isDown(): the contact
    prev,     \* prev_state_
    bounce, click, hold,  \* time until the alarm fires
    queue,    \* the event queue
    read,     \* ghost: the last Down or Up that the application got
    dropped,  \* ghost: an event found the queue full
    owed      \* ghost: presses that ended and were not reported as a click

button == <<down, prev, bounce, click, hold, queue, read, dropped, owed>>
timers == <<bounce, click, hold>>

Moves == {"Down", "Up"}
Actions == Moves \cup {"Clicked", "DoubleClicked", "Held"}

ButtonInit ==
    /\ down \in BOOLEAN /\ prev = down
    /\ bounce = None /\ click = None /\ hold = None
    /\ queue = <<>>
    /\ read = (IF down THEN "Down" ELSE "Up")
    /\ dropped = FALSE
    /\ owed = IF down THEN -1 ELSE 0

-----------------------------------------------------------------------------
CanPass(dt) == /\ bounce # None => dt <= bounce
               /\ click # None => dt <= click
               /\ hold # None => dt <= hold
Later(t, dt) == IF t = None THEN None ELSE t - dt

\* Mutant of Queued: the queue grows without bound.
QueuedAll(q, e) == Append(q, e)
\* queue_try_add
Queued(q, e) == IF Len(q) < QueueSize THEN Append(q, e) ELSE q

\* notify of one event, or of two.
Notify(e) == /\ queue' = Queued(queue, e)
             /\ dropped' = (dropped \/ Len(queue) = QueueSize)
Notify2(e, f) == /\ queue' = Queued(Queued(queue, e), f)
                 /\ dropped' = (dropped \/ Len(queue) >= QueueSize - 1)

-----------------------------------------------------------------------------
\* Mutant of DoEvent: an edge is looked at only while the button is up.
DoEventUp(dt) == IF bounce = None /\ ~prev THEN BounceTime ELSE Later(bounce, dt)
\* do_event: the bounce alarm after an edge.
DoEvent(dt) == IF bounce = None THEN BounceTime ELSE Later(bounce, dt)

\* The contact opens or closes, by hand or bouncing.
Contact(dt) ==
    /\ CanPass(dt)
    /\ down' = ~down
    /\ bounce' = DoEvent(dt)
    /\ click' = Later(click, dt) /\ hold' = Later(hold, dt)
    /\ UNCHANGED <<prev, queue, read, dropped, owed>>

\* Mutant of BounceDown: the state is not compared with the previous one.
BounceDownAgain ==
    /\ bounce # None /\ CanPass(bounce) /\ down
    /\ prev' = down /\ bounce' = None
    /\ click' = Later(click, bounce) /\ hold' = HoldTime
    /\ Notify("Down")
    /\ UNCHANGED <<down, read, owed>>
\* bounce_cb with button_down, with button_up, or with neither.
BounceDown ==
    /\ bounce # None /\ CanPass(bounce) /\ down /\ ~prev
    /\ prev' = down /\ bounce' = None
    /\ click' = Later(click, bounce) /\ hold' = HoldTime
    /\ Notify("Down")
    /\ UNCHANGED <<down, read, owed>>

\* Mutant of StopHold: the hold timer is not stopped.
StopHoldLate == Later(hold, bounce)
\* stop_hold_timer
StopHold == None

BounceUp ==
    /\ bounce # None /\ CanPass(bounce) /\ ~down /\ prev
    /\ prev' = down /\ bounce' = None /\ hold' = StopHold
    /\ \/ /\ hold = None
          /\ click' = Later(click, bounce) /\ Notify("Up") /\ owed' = owed + 1
       \/ /\ hold # None /\ click = None
          /\ click' = ClickTime /\ Notify("Up") /\ owed' = owed + 1
       \/ /\ hold # None /\ click # None
          /\ click' = None /\ Notify2("Up", "DoubleClicked") /\ owed' = owed - 1
    /\ UNCHANGED <<down, read>>

BounceSame ==
    /\ bounce # None /\ CanPass(bounce) /\ down = prev
    /\ bounce' = None
    /\ click' = Later(click, bounce) /\ hold' = Later(hold, bounce)
    /\ UNCHANGED <<down, prev, queue, read, dropped, owed>>

\* click_cb with button_clicked
ClickCb ==
    /\ click # None /\ CanPass(click)
    /\ click' = None
    /\ bounce' = Later(bounce, click) /\ hold' = Later(hold, click)
    /\ Notify("Clicked") /\ owed' = owed - 1
    /\ UNCHANGED <<down, prev, read>>

\* hold_cb with button_held, which stops both timers
HoldCb ==
    /\ hold # None /\ CanPass(hold)
    /\ hold' = None /\ click' = None
    /\ bounce' = Later(bounce, hold)
    /\ Notify("Held") /\ owed' = owed - 1
    /\ UNCHANGED <<down, prev, read>>

\* getNextEvent
GetNextEvent ==
    /\ queue # <<>>
    /\ queue' = Tail(queue)
    /\ read' = IF Head(queue) \in Moves THEN Head(queue) ELSE read
    /\ UNCHANGED <<down, prev, dropped, owed>> /\ UNCHANGED timers

ButtonNext == \/ \E dt \in Delays : Contact(dt)
        \/ BounceDown \/ BounceUp \/ BounceSame
        \/ ClickCb
        \/ HoldCb
        \/ GetNextEvent

ButtonSpec == ButtonInit /\ [][ButtonNext]_button

-----------------------------------------------------------------------------
(* Properties                                                               *)

Timer(t, max) == t = None \/ t \in 0..max

\* The alarms are within their times and the queue within its size.
ButtonTypeOK ==
    /\ down \in BOOLEAN /\ prev \in BOOLEAN
    /\ Timer(bounce, BounceTime) /\ Timer(click, ClickTime) /\ Timer(hold, HoldTime)
    /\ queue \in Seq(Actions) /\ Len(queue) <= QueueSize
    /\ read \in Moves /\ dropped \in BOOLEAN /\ owed \in Int

\* When the contact is not in the state last reported, the debounce alarm will
\* look at it: no press or release goes unnoticed, however the contact bounces.
NoEdgeLost == down # prev => bounce # None

\* The application gets Button_Down and Button_Up in turns, ending with the state
\* last reported, as long as the queue was never full: between two moves that are
\* the same, and after one that is not the last, comes the other.
Ahead == <<read>> \o queue
Other(i, k) == Ahead[k] \in Moves \ {Ahead[i]}
Alternates ==
    dropped \/
    \A i \in 1..Len(Ahead) : Ahead[i] \in Moves =>
        /\ \A j \in (i+1)..Len(Ahead) : Ahead[j] = Ahead[i] => \E k \in (i+1)..(j-1) : Other(i, k)
        /\ (Ahead[i] = "Down") # prev => \E k \in (i+1)..Len(Ahead) : Other(i, k)

\* Every press is reported once as it ends or when it is long: as a click, as
\* half a double click, or as held; only the click that the click timer still
\* waits for is owed.  A press that lasted into the next click time may be
\* forgotten when the hold time is shorter than the click time.
Accounted ==
    ClickTime <= HoldTime =>
        owed = (IF click # None THEN 1 ELSE 0) - (IF prev /\ hold = None THEN 1 ELSE 0)
=============================================================================
