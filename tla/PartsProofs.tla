----------------------------- MODULE PartsProofs -----------------------------
(***************************************************************************)
(* Proofs about the button, the log file, the LED, sound, the DHCP server  *)
(* and the browser's socket, for all values of their constants, and about  *)
(* the six parts together: every behaviour of Parts is one of each part,   *)
(* so what was proved of a part holds there.                               *)
(***************************************************************************)
EXTENDS Parts, SequenceTheorems, TLAPS

-----------------------------------------------------------------------------
(* The button, for all times and every size of the queue: no edge is lost,  *)
(* every press is accounted for, and the application gets the moves in turn. *)

Timers == Timer(bounce, BounceTime) /\ Timer(click, ClickTime) /\ Timer(hold, HoldTime)
Pin == down \in BOOLEAN /\ prev \in BOOLEAN
Events == /\ queue \in Seq(Actions) /\ Len(queue) <= QueueSize
          /\ read \in Moves /\ dropped \in BOOLEAN /\ owed \in Int

\* No hold timer runs while the button is up.  A click timer that runs while
\* the contact settles has run at least as long as the debounce alarm, so it
\* runs out before the hold timer of the press that follows.
ClickFirst ==
    /\ ~prev => hold = None
    /\ (~prev /\ click # None /\ bounce # None) => click - bounce <= ClickTime - BounceTime
    /\ (hold # None /\ click # None) => click < hold

Balance == owed = (IF click # None THEN 1 ELSE 0) - (IF prev /\ hold = None THEN 1 ELSE 0)

-----------------------------------------------------------------------------
\* A timer that is not beyond the time dt that passes stays a timer.
LEMMA LaterTimer ==
    ASSUME NEW max \in Nat, NEW t, Timer(t, max), NEW dt \in Nat, t # None => dt <= t
    PROVE  /\ Timer(Later(t, dt), max)
           /\ (Later(t, dt) = None) <=> (t = None)
           /\ t # None => t \in Nat /\ t <= max /\ Later(t, dt) = t - dt
BY NoneAssumption DEF Timer, Later

\* The times are positive numbers, and an alarm that was just started runs.
LEMMA Times ==
    /\ BounceTime \in Nat /\ ClickTime \in Nat /\ HoldTime \in Nat /\ QueueSize \in Nat
    /\ BounceTime >= 1 /\ ClickTime >= 1 /\ HoldTime >= 1
    /\ BounceTime # None /\ ClickTime # None /\ HoldTime # None
    /\ Timer(BounceTime, BounceTime) /\ Timer(ClickTime, ClickTime) /\ Timer(HoldTime, HoldTime)
BY TimesAssumption, NoneAssumption DEF Timer

\* All timers, when time dt passes.
LEMMA Passing ==
    ASSUME Timers, NEW dt \in Nat, CanPass(dt)
    PROVE  /\ Timer(Later(bounce, dt), BounceTime) /\ Timer(Later(click, dt), ClickTime)
           /\ Timer(Later(hold, dt), HoldTime)
           /\ (Later(bounce, dt) = None) <=> (bounce = None)
           /\ (Later(click, dt) = None) <=> (click = None)
           /\ (Later(hold, dt) = None) <=> (hold = None)
           /\ bounce # None => bounce \in Nat /\ bounce <= BounceTime /\ Later(bounce, dt) = bounce - dt
           /\ click # None => click \in Nat /\ click <= ClickTime /\ Later(click, dt) = click - dt
           /\ hold # None => hold \in Nat /\ hold <= HoldTime /\ Later(hold, dt) = hold - dt
BY LaterTimer, Times DEF Timers, CanPass

\* queue_try_add keeps the queue within its size.
LEMMA QueuedType ==
    ASSUME NEW q \in Seq(Actions), Len(q) <= QueueSize, NEW e \in Actions
    PROVE  Queued(q, e) \in Seq(Actions) /\ Len(Queued(q, e)) <= QueueSize
BY TimesAssumption DEF Queued

-----------------------------------------------------------------------------
\* Every step leaves timers and contact well formed.
LEMMA TimersStep ==
    ASSUME Timers, Pin, [ButtonNext]_button
    PROVE  Timers' /\ Pin'
<1>1. ASSUME NEW dt \in Delays, Contact(dt) PROVE Timers' /\ Pin'
  <2>1. dt \in Nat /\ CanPass(dt)
    BY <1>1, TimesAssumption DEF Contact
  <2> QED
    BY <1>1, <2>1, Passing, Times DEF Contact, DoEvent, Timers, Pin
<1>2. CASE BounceDown
  <2>1. bounce \in Nat /\ CanPass(bounce)
    BY <1>2 DEF BounceDown, Timers, Timer
  <2> QED
    BY <1>2, <2>1, Passing, Times DEF BounceDown, Timers, Pin, Timer
<1>3. CASE BounceUp
  <2>1. bounce \in Nat /\ CanPass(bounce)
    BY <1>3 DEF BounceUp, Timers, Timer
  <2> QED
    BY <1>3, <2>1, Passing, Times DEF BounceUp, StopHold, Timers, Pin, Timer
<1>4. CASE BounceSame
  <2>1. bounce \in Nat /\ CanPass(bounce)
    BY <1>4 DEF BounceSame, Timers, Timer
  <2> QED
    BY <1>4, <2>1, Passing DEF BounceSame, Timers, Pin, Timer
<1>5. CASE ClickCb
  <2>1. click \in Nat /\ CanPass(click)
    BY <1>5 DEF ClickCb, Timers, Timer
  <2> QED
    BY <1>5, <2>1, Passing DEF ClickCb, Timers, Pin, Timer
<1>6. CASE HoldCb
  <2>1. hold \in Nat /\ CanPass(hold)
    BY <1>6 DEF HoldCb, Timers, Timer
  <2> QED
    BY <1>6, <2>1, Passing DEF HoldCb, Timers, Pin, Timer
<1>7. CASE GetNextEvent \/ UNCHANGED button
  BY <1>7 DEF GetNextEvent, button, timers, Timers, Pin, Timer
<1> QED
  BY <1>1, <1>2, <1>3, <1>4, <1>5, <1>6, <1>7 DEF ButtonNext

\* Every step leaves the queue and the ghosts well formed.
LEMMA EventsStep ==
    ASSUME Events, [ButtonNext]_button
    PROVE  Events'
<1>1. ASSUME NEW e \in Actions, Notify(e)
      PROVE  queue' \in Seq(Actions) /\ Len(queue') <= QueueSize /\ dropped' \in BOOLEAN
  BY <1>1, QueuedType DEF Notify, Events
<1>2. ASSUME NEW e \in Actions, NEW f \in Actions, Notify2(e, f)
      PROVE  queue' \in Seq(Actions) /\ Len(queue') <= QueueSize /\ dropped' \in BOOLEAN
  BY <1>2, QueuedType DEF Notify2, Events
<1>3. {"Down", "Up", "Clicked", "DoubleClicked", "Held"} \subseteq Actions
  BY DEF Actions, Moves
<1>4. CASE \/ \E dt \in Delays : Contact(dt)
           \/ BounceSame \/ UNCHANGED button
  BY <1>4 DEF Contact, BounceSame, button, Events
<1>5. CASE BounceDown
  BY <1>5, <1>1, <1>3 DEF BounceDown, Events
<1>6. CASE BounceUp
  BY <1>6, <1>1, <1>2, <1>3 DEF BounceUp, Events
<1>7. CASE ClickCb
  BY <1>7, <1>1, <1>3 DEF ClickCb, Events
<1>8. CASE HoldCb
  BY <1>8, <1>1, <1>3 DEF HoldCb, Events
<1>9. CASE GetNextEvent
  <2>1. queue' \in Seq(Actions) /\ Len(queue') <= QueueSize
    <3>1. Tail(queue) \in Seq(Actions) /\ Len(Tail(queue)) = Len(queue) - 1 /\ Len(queue) \in Nat
      BY <1>9 DEF GetNextEvent, Events
    <3> QED
      BY <1>9, <3>1, Times DEF GetNextEvent, Events
  <2> QED
    BY <1>9, <2>1 DEF GetNextEvent, Events
<1> QED
  BY <1>4, <1>5, <1>6, <1>7, <1>8, <1>9 DEF ButtonNext

\* Type correctness: the alarms stay within their times and the queue within
\* its size.
THEOREM ButtonType == ButtonSpec => []ButtonTypeOK
<1>1. ButtonInit => Timers /\ Pin /\ Events
  <2> SUFFICES ASSUME ButtonInit PROVE Timers /\ Pin /\ Events
    OBVIOUS
  <2>1. Timers /\ Pin /\ read \in Moves
    BY DEF ButtonInit, Timers, Timer, Pin, Moves
  <2>2. queue \in Seq(Actions) /\ Len(queue) <= QueueSize
    BY Times DEF ButtonInit
  <2>3. dropped \in BOOLEAN
    BY DEF ButtonInit
  <2>4. -1 \in Int /\ 0 \in Int
    OBVIOUS
  <2>5. owed \in Int
    BY <2>4, Zenon DEF ButtonInit
  <2> QED
    BY <2>1, <2>2, <2>3, <2>5 DEF Events
<1>2. Timers /\ Pin /\ Events /\ [ButtonNext]_button => Timers' /\ Pin' /\ Events'
  BY TimersStep, EventsStep
<1>3. Timers /\ Pin /\ Events => ButtonTypeOK
  BY DEF Timers, Pin, Events, ButtonTypeOK
<1> QED
  BY <1>1, <1>2, <1>3, PTL DEF ButtonSpec

\* The debounce alarm runs whenever the contact is not in the state that was
\* last reported: no press or release goes unnoticed.
THEOREM ButtonNoEdgeLost == ButtonSpec => []NoEdgeLost
<1>1. ButtonInit => NoEdgeLost
  BY DEF ButtonInit, NoEdgeLost
<1>2. ASSUME ButtonTypeOK, NoEdgeLost, [ButtonNext]_button
      PROVE  NoEdgeLost'
  <2>1. ASSUME NEW dt \in Delays, Contact(dt) PROVE NoEdgeLost'
    <3>1. bounce # None => bounce - dt # None
      BY <1>2, <2>1, NoneAssumption, TimesAssumption DEF Contact, CanPass, ButtonTypeOK, Timer
    <3> QED
      BY <2>1, <3>1, Times DEF Contact, DoEvent, Later, NoEdgeLost
  <2>2. CASE BounceDown \/ BounceUp \/ BounceSame
    BY <1>2, <2>2 DEF BounceDown, BounceUp, BounceSame, NoEdgeLost, ButtonTypeOK
  <2>3. CASE ClickCb
    <3>1. bounce # None => bounce - click # None
      BY <1>2, <2>3, NoneAssumption DEF ClickCb, CanPass, ButtonTypeOK, Timer
    <3> QED
      BY <1>2, <2>3, <3>1 DEF ClickCb, Later, NoEdgeLost
  <2>4. CASE HoldCb
    <3>1. bounce # None => bounce - hold # None
      BY <1>2, <2>4, NoneAssumption DEF HoldCb, CanPass, ButtonTypeOK, Timer
    <3> QED
      BY <1>2, <2>4, <3>1 DEF HoldCb, Later, NoEdgeLost
  <2>5. CASE GetNextEvent \/ UNCHANGED button
    BY <1>2, <2>5 DEF GetNextEvent, button, timers, NoEdgeLost
  <2> QED
    BY <1>2, <2>1, <2>2, <2>3, <2>4, <2>5 DEF ButtonNext
<1> QED
  BY <1>1, <1>2, ButtonType, PTL DEF ButtonSpec

-----------------------------------------------------------------------------
\* What ClickFirst and Balance need of the type invariant.
LEMMA TypeParts == ButtonTypeOK => Timers /\ Pin /\ owed \in Int
BY DEF ButtonTypeOK, Timers, Pin

\* The click timer of one press runs out before the hold timer of the next.
LEMMA ClickFirstStep ==
    ASSUME ClickTime <= HoldTime, Timers, Pin, ClickFirst, [ButtonNext]_button
    PROVE  ClickFirst'
<1>1. ASSUME NEW dt \in Delays, Contact(dt) PROVE ClickFirst'
  <2>1. dt \in Nat /\ CanPass(dt)
    BY <1>1, TimesAssumption DEF Contact
  <2> QED
    BY <1>1, <2>1, Passing, Times DEF Contact, DoEvent, ClickFirst
<1>2. CASE BounceDown
  <2>1. bounce \in Nat /\ bounce # None /\ CanPass(bounce) /\ ~prev /\ prev' /\ hold' = HoldTime
        /\ click' = Later(click, bounce)
    BY <1>2 DEF BounceDown, Timers, Timer
  <2>2. click' # None => click' <= ClickTime - BounceTime
    BY <2>1, Passing, Times DEF ClickFirst
  <2>3. click' # None => click' \in Nat
    BY <2>1, Passing DEF Timer, CanPass
  <2> QED
    BY <2>1, <2>2, <2>3, Times DEF ClickFirst
<1>3. CASE BounceUp
  BY <1>3 DEF BounceUp, StopHold, ClickFirst
<1>4. CASE BounceSame
  <2>1. bounce \in Nat /\ CanPass(bounce)
    BY <1>4 DEF BounceSame, Timers, Timer
  <2> QED
    BY <1>4, <2>1, Passing DEF BounceSame, ClickFirst
<1>5. CASE ClickCb
  <2>1. click \in Nat /\ CanPass(click)
    BY <1>5 DEF ClickCb, Timers, Timer
  <2> QED
    BY <1>5, <2>1, Passing DEF ClickCb, ClickFirst
<1>6. CASE HoldCb
  BY <1>6 DEF HoldCb, ClickFirst
<1>7. CASE GetNextEvent \/ UNCHANGED button
  BY <1>7 DEF GetNextEvent, button, timers, ClickFirst
<1> QED
  BY <1>1, <1>2, <1>3, <1>4, <1>5, <1>6, <1>7 DEF ButtonNext

\* Every step keeps the presses and the events they were reported as in
\* balance; a hold alarm never fires while a click timer runs.
LEMMA BalanceStep ==
    ASSUME Timers, Pin, owed \in Int, ClickFirst, Balance, [ButtonNext]_button
    PROVE  Balance'
<1>1. ASSUME NEW dt \in Delays, Contact(dt) PROVE Balance'
  <2>1. dt \in Nat /\ CanPass(dt)
    BY <1>1, TimesAssumption DEF Contact
  <2> QED
    BY <1>1, <2>1, Passing DEF Contact, Balance
<1>2. CASE BounceDown
  <2>1. bounce \in Nat /\ CanPass(bounce)
    BY <1>2 DEF BounceDown, Timers, Timer
  <2> QED
    BY <1>2, <2>1, Passing, Times DEF BounceDown, Balance
<1>3. CASE BounceUp
  <2>1. bounce \in Nat /\ CanPass(bounce)
    BY <1>3 DEF BounceUp, Timers, Timer
  <2> QED
    BY <1>3, <2>1, Passing, Times DEF BounceUp, StopHold, Balance
<1>4. CASE BounceSame
  <2>1. bounce \in Nat /\ CanPass(bounce)
    BY <1>4 DEF BounceSame, Timers, Timer
  <2> QED
    BY <1>4, <2>1, Passing DEF BounceSame, Balance
<1>5. CASE ClickCb
  <2>1. click \in Nat /\ CanPass(click)
    BY <1>5 DEF ClickCb, Timers, Timer
  <2> QED
    BY <1>5, <2>1, Passing DEF ClickCb, Balance
<1>6. CASE HoldCb
  <2>1. click = None
    BY <1>6 DEF HoldCb, CanPass, ClickFirst, Timers, Timer
  <2>2. prev
    BY <1>6 DEF HoldCb, ClickFirst
  <2>3. owed = 0
    <3>1. hold # None
      BY <1>6 DEF HoldCb
    <3>2. owed = 0 - 0
      BY <2>1, <3>1, Zenon DEF Balance
    <3> QED
      BY <3>2
  <2>4. owed' = -1 /\ click' = None /\ hold' = None
    BY <1>6, <2>3 DEF HoldCb
  <2>5. prev'
    BY <1>6, <2>2, Zenon DEF HoldCb
  <2> QED
    BY <2>4, <2>5 DEF Balance
<1>7. CASE GetNextEvent \/ UNCHANGED button
  BY <1>7 DEF GetNextEvent, button, timers, Balance
<1> QED
  BY <1>1, <1>2, <1>3, <1>4, <1>5, <1>6, <1>7 DEF ButtonNext

\* Every press is reported once: as a click, as half a double click or as held.
THEOREM ButtonAccounted == ButtonSpec => []Accounted
<1> DEFINE Kept == ClickTime <= HoldTime => ClickFirst /\ Balance
<1>1. ButtonInit => Kept
  BY DEF ButtonInit, ClickFirst, Balance
<1>2. ButtonTypeOK /\ Kept /\ [ButtonNext]_button => Kept'
  BY TypeParts, ClickFirstStep, BalanceStep
<1>3. Kept => Accounted
  BY DEF Balance, Accounted
<1> QED
  BY <1>1, <1>2, <1>3, ButtonType, PTL DEF ButtonSpec

-----------------------------------------------------------------------------
(* The order of the events                                                  *)

\* The moves of s alternate and end with "Down" when p holds, with "Up" otherwise.
InTurns(s, p) ==
    \A i \in 1..Len(s) : s[i] \in Moves =>
        /\ \A j \in (i+1)..Len(s) : s[j] = s[i] => \E k \in (i+1)..(j-1) : s[k] \in Moves \ {s[i]}
        /\ (s[i] = "Down") # p => \E k \in (i+1)..Len(s) : s[k] \in Moves \ {s[i]}

\* What the application has read last and will read.
LEMMA AheadElements ==
    ASSUME Events
    PROVE  /\ Ahead \in Seq(Actions) /\ Len(Ahead) = Len(queue) + 1 /\ Len(queue) \in Nat
           /\ Ahead[1] = read /\ \A i \in 1..Len(queue) : Ahead[i + 1] = queue[i]
<1>1. queue \in Seq(Actions) /\ read \in Actions
  BY DEF Events, Actions
<1> QED
  BY <1>1 DEF Ahead

\* An event that is added at the end keeps the moves in turns: it is not a move, or
\* it is the one that is due.
LEMMA AddInTurns ==
    ASSUME NEW s \in Seq(Actions), NEW p \in BOOLEAN, InTurns(s, p),
           NEW e \in Actions, NEW q \in BOOLEAN,
           \/ e \notin Moves /\ q = p
           \/ e \in Moves /\ (e = "Down") = q /\ q = ~p
    PROVE  InTurns(Append(s, e), q)
<1> DEFINE t == Append(s, e)
<1>1. /\ t \in Seq(Actions) /\ Len(t) = Len(s) + 1 /\ Len(s) \in Nat
      /\ \A i \in 1..Len(s) : t[i] = s[i]
      /\ t[Len(s) + 1] = e
  OBVIOUS
<1> HIDE DEF t
<1> SUFFICES ASSUME NEW i \in 1..Len(t), t[i] \in Moves
             PROVE  /\ \A j \in (i+1)..Len(t) : t[j] = t[i] => \E k \in (i+1)..(j-1) : t[k] \in Moves \ {t[i]}
                    /\ (t[i] = "Down") # q => \E k \in (i+1)..Len(t) : t[k] \in Moves \ {t[i]}
  BY DEF InTurns, t
<1>2. CASE i = Len(s) + 1
  BY <1>1, <1>2
<1>3. CASE i \in 1..Len(s)
  <2>1. s[i] \in Moves /\ t[i] = s[i]
    BY <1>1, <1>3
  <2>2. (s[i] = "Down") # p => \E k \in (i+1)..Len(s) : s[k] \in Moves \ {s[i]}
    BY <1>3, <2>1 DEF InTurns
  <2>3. ASSUME NEW j \in (i+1)..Len(t), t[j] = t[i]
        PROVE  \E k \in (i+1)..(j-1) : t[k] \in Moves \ {t[i]}
    <3>1. CASE j \in (i+1)..Len(s)
      <4>1. s[j] = s[i]
        BY <1>1, <1>3, <2>1, <2>3, <3>1
      <4>2. PICK k \in (i+1)..(j-1) : s[k] \in Moves \ {s[i]}
        BY <1>3, <2>1, <3>1, <4>1 DEF InTurns
      <4>3. t[k] = s[k]
        BY <1>1, <1>3, <3>1, <4>2
      <4> QED
        BY <2>1, <4>2, <4>3
    <3>2. CASE j = Len(s) + 1
      <4>1. e = s[i]
        BY <1>1, <2>1, <2>3, <3>2
      <4>2. (s[i] = "Down") # p
        BY <2>1, <4>1 DEF Moves
      <4>3. PICK k \in (i+1)..Len(s) : s[k] \in Moves \ {s[i]}
        BY <2>2, <4>2
      <4>4. t[k] = s[k] /\ k \in (i+1)..(j-1)
        BY <1>1, <1>3, <3>2, <4>3
      <4> QED
        BY <2>1, <4>3, <4>4
    <3> QED
      BY <1>1, <1>3, <3>1, <3>2
  <2>4. ASSUME (t[i] = "Down") # q PROVE \E k \in (i+1)..Len(t) : t[k] \in Moves \ {t[i]}
    <3>1. CASE e \in Moves
      <4>1. e # s[i]
        BY <2>1, <2>4, <3>1 DEF Moves
      <4>2. Len(s) + 1 \in (i+1)..Len(t)
        BY <1>1, <1>3
      <4> QED
        BY <1>1, <2>1, <3>1, <4>1, <4>2
    <3>2. CASE e \notin Moves
      <4>1. PICK k \in (i+1)..Len(s) : s[k] \in Moves \ {s[i]}
        BY <2>1, <2>2, <2>4, <3>2
      <4>2. t[k] = s[k] /\ k \in (i+1)..Len(t)
        BY <1>1, <1>3, <4>1
      <4> QED
        BY <2>1, <4>1, <4>2
    <3> QED
      BY <3>1, <3>2
  <2> QED
    BY <2>3, <2>4
<1> QED
  BY <1>1, <1>2, <1>3

\* The application reads the first event: the rest is still in turns.
LEMMA TakeInTurns ==
    ASSUME NEW s \in Seq(Actions), Len(s) >= 2, NEW p \in BOOLEAN, InTurns(s, p),
           NEW t \in Seq(Actions), Len(t) = Len(s) - 1,
           t[1] = IF s[2] \in Moves THEN s[2] ELSE s[1],
           \A i \in 2..Len(t) : t[i] = s[i + 1]
    PROVE  InTurns(t, p)
<1>1. Len(s) \in Nat /\ Len(t) \in Nat
  OBVIOUS
<1> DEFINE at(i) == IF i = 1 /\ s[2] \notin Moves THEN 1 ELSE i + 1
<1>2. \A i \in 1..Len(t) : at(i) \in 1..Len(s) /\ t[i] = s[at(i)]
  BY <1>1
\* A move of s behind that of t[i] is a move of t behind it.
<1>3. ASSUME NEW i \in 1..Len(t), NEW k \in (at(i) + 1)..Len(s), s[k] \in Moves
      PROVE  k - 1 \in (i + 1)..Len(t) /\ t[k - 1] = s[k]
  <2>1. k - 1 \in (i + 1)..Len(t)
    <3>1. CASE i = 1 /\ s[2] \notin Moves
      <4>1. k # 2
        BY <1>3, <3>1
      <4> QED
        BY <1>1, <1>3, <3>1, <4>1
    <3>2. CASE ~(i = 1 /\ s[2] \notin Moves)
      BY <1>1, <1>3, <3>2
    <3> QED
      BY <3>1, <3>2
  <2>2. k - 1 \in 2..Len(t) /\ (k - 1) + 1 = k
    BY <1>1, <2>1
  <2> QED
    BY <2>1, <2>2
<1> SUFFICES ASSUME NEW i \in 1..Len(t), t[i] \in Moves
             PROVE  /\ \A j \in (i+1)..Len(t) : t[j] = t[i] => \E k \in (i+1)..(j-1) : t[k] \in Moves \ {t[i]}
                    /\ (t[i] = "Down") # p => \E k \in (i+1)..Len(t) : t[k] \in Moves \ {t[i]}
  BY DEF InTurns
<1>4. at(i) \in 1..Len(s) /\ t[i] = s[at(i)] /\ at(i) \in Int
  BY <1>2
<1>5. ASSUME NEW j \in (i+1)..Len(t), t[j] = t[i]
      PROVE  \E k \in (i+1)..(j-1) : t[k] \in Moves \ {t[i]}
  <2>1. j + 1 \in (at(i) + 1)..Len(s) /\ t[j] = s[j + 1]
    BY <1>1
  <2> HIDE DEF at
  <2>2. PICK k \in (at(i) + 1)..((j + 1) - 1) : s[k] \in Moves \ {s[at(i)]}
    BY <1>4, <1>5, <2>1 DEF InTurns
  <2>3. k \in (at(i) + 1)..Len(s)
    BY <1>1, <1>4, <2>1, <2>2
  <2>4. k - 1 \in (i + 1)..Len(t) /\ t[k - 1] = s[k]
    BY <1>3, <2>2, <2>3
  <2>5. k - 1 \in (i + 1)..(j - 1)
    BY <1>1, <1>4, <2>2, <2>4
  <2> QED
    BY <1>4, <2>2, <2>4, <2>5
<1>6. ASSUME (t[i] = "Down") # p PROVE \E k \in (i+1)..Len(t) : t[k] \in Moves \ {t[i]}
  <2> HIDE DEF at
  <2>1. PICK k \in (at(i) + 1)..Len(s) : s[k] \in Moves \ {s[at(i)]}
    BY <1>4, <1>6 DEF InTurns
  <2> QED
    BY <1>3, <1>4, <2>1
<1> QED
  BY <1>5, <1>6

\* An event that the queue takes comes last.
LEMMA AheadAppended ==
    ASSUME Events, NEW q \in Seq(Actions), NEW e \in Actions,
           Len(q) < QueueSize, NEW r \in Actions
    PROVE  <<r>> \o Queued(q, e) = Append(<<r>> \o q, e)
<1>1. Queued(q, e) = Append(q, e)
  BY DEF Queued
<1> QED
  BY <1>1

\* The moves are in turns, unless an event was dropped.
LEMMA AlternatesStep ==
    ASSUME Pin, Events, Events', dropped \/ InTurns(Ahead, prev), [ButtonNext]_button
    PROVE  dropped' \/ InTurns(Ahead, prev)'
<1> SUFFICES ASSUME ~dropped' PROVE InTurns(Ahead, prev)'
  OBVIOUS
<1>1. ~dropped
  BY DEF ButtonNext, Contact, BounceDown, BounceUp, BounceSame, ClickCb, HoldCb, GetNextEvent,
         Notify, Notify2, button
<1>2. /\ InTurns(Ahead, prev) /\ Ahead \in Seq(Actions) /\ prev \in BOOLEAN
      /\ queue \in Seq(Actions) /\ read \in Actions /\ QueueSize \in Nat
      /\ Len(queue) \in Nat /\ Len(queue) <= QueueSize
  BY <1>1, AheadElements, Times DEF Pin, Events, Actions
<1>3. ASSUME NEW e \in Actions, Notify(e), UNCHANGED read PROVE Ahead' = Append(Ahead, e)
  <2>1. Len(queue) < QueueSize /\ queue' = Queued(queue, e)
    <3>1. Len(queue) # QueueSize /\ queue' = Queued(queue, e)
      BY <1>3, Zenon DEF Notify
    <3> QED
      BY <1>2, <3>1
  <2> QED
    BY <1>2, <1>3, <2>1, AheadAppended DEF Ahead
<1>4. ASSUME NEW e \in Actions, NEW f \in Actions, Notify2(e, f), UNCHANGED read
      PROVE  Ahead' = Append(Append(Ahead, e), f)
  <2>1. Len(queue) < QueueSize - 1 /\ queue' = Queued(Queued(queue, e), f)
    <3>1. ~(Len(queue) >= QueueSize - 1) /\ queue' = Queued(Queued(queue, e), f)
      BY <1>4, Zenon DEF Notify2
    <3> QED
      BY <1>2, <3>1
  <2>2. Queued(queue, e) \in Seq(Actions) /\ Len(Queued(queue, e)) < QueueSize
    BY <1>2, <2>1 DEF Queued
  <2>3. Ahead' = Append(<<read>> \o Queued(queue, e), f)
    BY <1>2, <1>4, <2>1, <2>2, AheadAppended DEF Ahead
  <2>4. <<read>> \o Queued(queue, e) = Append(Ahead, e)
    BY <1>2, <2>1, AheadAppended DEF Ahead
  <2> QED
    BY <2>3, <2>4
<1>5. {"Down", "Up", "Clicked", "DoubleClicked", "Held"} \subseteq Actions
      /\ {"Clicked", "DoubleClicked", "Held"} \cap Moves = {}
      /\ "Down" \in Moves /\ "Up" \in Moves
  BY DEF Actions, Moves
<1>6. CASE (\E dt \in Delays : Contact(dt)) \/ BounceSame \/ UNCHANGED button
  BY <1>2, <1>6 DEF Contact, BounceSame, button, Ahead
<1>7. CASE BounceDown
  <2>1. Ahead' = Append(Ahead, "Down") /\ prev' = TRUE /\ prev = FALSE
    BY <1>2, <1>3, <1>5, <1>7 DEF BounceDown, Pin
  <2>2. InTurns(Append(Ahead, "Down"), TRUE)
    BY <1>2, <1>5, <2>1, AddInTurns
  <2> QED
    BY <2>1, <2>2
<1>8. CASE BounceUp
  <2>1. prev' = FALSE /\ prev = TRUE
    BY <1>2, <1>8 DEF BounceUp, Pin
  <2>2. InTurns(Append(Ahead, "Up"), FALSE)
    BY <1>2, <1>5, <2>1, AddInTurns
  <2>3. InTurns(Append(Append(Ahead, "Up"), "DoubleClicked"), FALSE)
    <3>1. Append(Ahead, "Up") \in Seq(Actions)
      BY <1>2, <1>5
    <3> QED
      BY <1>5, <2>2, <3>1, AddInTurns
  <2>4. Ahead' = Append(Ahead, "Up") \/ Ahead' = Append(Append(Ahead, "Up"), "DoubleClicked")
    <3>1. UNCHANGED read /\ (Notify("Up") \/ Notify2("Up", "DoubleClicked"))
      BY <1>8 DEF BounceUp
    <3> QED
      BY <1>3, <1>4, <1>5, <3>1
  <2> QED
    BY <2>1, <2>2, <2>3, <2>4
<1>9. CASE ClickCb \/ HoldCb
  <2>1. PICK e \in {"Clicked", "Held"} : Notify(e) /\ UNCHANGED <<prev, read>>
    BY <1>9 DEF ClickCb, HoldCb
  <2>2. Ahead' = Append(Ahead, e) /\ e \in Actions /\ e \notin Moves
    BY <1>3, <1>5, <2>1
  <2>3. InTurns(Append(Ahead, e), prev)
    BY <1>2, <2>2, AddInTurns
  <2> QED
    BY <2>1, <2>2, <2>3
<1>10. CASE GetNextEvent
  <2>1. /\ queue # <<>> /\ queue' = Tail(queue) /\ UNCHANGED prev
        /\ read' = IF Head(queue) \in Moves THEN Head(queue) ELSE read
    BY <1>10 DEF GetNextEvent
  <2>2. /\ Ahead[1] = read /\ \A i \in 1..Len(queue) : Ahead[i + 1] = queue[i]
        /\ Len(Ahead) = Len(queue) + 1
    BY AheadElements
  <2>3. /\ Ahead' \in Seq(Actions) /\ Len(Ahead') = Len(queue') + 1
        /\ Ahead'[1] = read' /\ \A i \in 1..Len(queue') : Ahead'[i + 1] = queue'[i]
    <3>1. /\ <<read'>> \o queue' \in Seq(Actions) /\ Len(<<read'>> \o queue') = Len(queue') + 1
          /\ (<<read'>> \o queue')[1] = read'
          /\ \A i \in 1..Len(queue') : (<<read'>> \o queue')[i + 1] = queue'[i]
      BY DEF Events, Actions
    <3> QED
      BY <3>1 DEF Ahead
  <2>4. /\ Len(queue') = Len(queue) - 1 /\ Len(queue) >= 1 /\ Head(queue) = queue[1]
        /\ \A i \in 1..Len(queue') : queue'[i] = queue[i + 1]
    BY <1>2, <2>1
  <2>5. Ahead'[1] = IF Ahead[2] \in Moves THEN Ahead[2] ELSE Ahead[1]
    <3>1. Ahead[1 + 1] = queue[1]
      BY <1>2, <2>2, <2>4
    <3> QED
      BY <2>1, <2>2, <2>3, <2>4, <3>1
  <2>6. ASSUME NEW i \in 2..Len(Ahead') PROVE Ahead'[i] = Ahead[i + 1]
    <3>1. i - 1 \in 1..Len(queue') /\ (i - 1) + 1 = i /\ i \in 1..Len(queue)
      BY <1>2, <2>3, <2>4
    <3>2. Ahead'[i] = queue'[i - 1] /\ queue'[i - 1] = queue[i] /\ Ahead[i + 1] = queue[i]
      BY <2>2, <2>3, <2>4, <3>1
    <3> QED
      BY <3>2
  <2>7. Len(Ahead) >= 2 /\ Len(Ahead') = Len(Ahead) - 1
    BY <1>2, <2>2, <2>3, <2>4
  <2>8. InTurns(Ahead', prev)
    BY <1>2, <2>3, <2>5, <2>6, <2>7, TakeInTurns
  <2> QED
    BY <2>1, <2>8
<1> QED
  BY <1>6, <1>7, <1>8, <1>9, <1>10 DEF ButtonNext

\* The application gets Button_Down and Button_Up in turns, ending with the state
\* last reported, as long as getNextEvent keeps the queue from filling up: no bounce,
\* however timed, makes a second Down or Up of one press (bounce_cb, notify).
THEOREM ButtonAlternates == ButtonSpec => []Alternates
<1> DEFINE Turns == dropped \/ InTurns(Ahead, prev)
<1>1. ButtonInit => Turns
  <2> SUFFICES ASSUME ButtonInit PROVE InTurns(Ahead, prev)
    OBVIOUS
  <2>1. Ahead = <<read>> \o <<>> /\ (read = "Down") = prev
    BY DEF ButtonInit, Ahead
  <2>2. read \in Actions
    BY DEF ButtonInit, Actions, Moves
  <2>3. Len(Ahead) = 1 /\ Ahead[1] = read
    BY <2>1, <2>2
  <2> QED
    BY <2>1, <2>3 DEF InTurns
<1>2. ButtonTypeOK /\ ButtonTypeOK' /\ Turns /\ [ButtonNext]_button => Turns'
  <2> SUFFICES ASSUME ButtonTypeOK, ButtonTypeOK', Turns, [ButtonNext]_button PROVE Turns'
    OBVIOUS
  <2>1. Pin /\ Events /\ Events'
    BY DEF ButtonTypeOK, Pin, Events
  <2> QED
    BY <2>1, AlternatesStep
<1>3. Turns => Alternates
  BY DEF InTurns, Alternates, Other
<1> QED
  BY <1>1, <1>2, <1>3, ButtonType, PTL DEF ButtonSpec


-----------------------------------------------------------------------------
(* The log file: trimming never loses the last lines, through failed writes *)
(* and crashes at any step, when tmp.tmp can be opened.                     *)

\* What the proof needs of the types.
Files == file \in Seq(Nat) /\ tmp \in Seq(Nat) /\ written \in Nat

\* The log is what was written last, without a gap.
Consecutive ==
    /\ Len(file) <= written
    /\ \A i \in 1..Len(file) : file[i] = written - Len(file) + i

\* tmp.tmp has as many chunks as are to remain, and they precede those of the log.
TmpPrecedes ==
    /\ tmpThere
    /\ Len(tmp) = TrimmedLines /\ Len(tmp) + Len(file) <= written
    /\ \A i \in 1..Len(tmp) : tmp[i] = written - Len(file) - Len(tmp) + i

\* tmp.tmp has the end of the log.
TmpCopies ==
    /\ tmpThere
    /\ Len(tmp) = TrimmedLines
    /\ \A i \in 1..Len(tmp) : tmp[i] = written - Len(tmp) + i

\* What each step of trimming relies on; outside of it the log is long enough, or
\* a crash left the end of it in tmp.tmp.
Kept ==
    /\ trim \in {"none", "open"} => Len(file) = written \/ Len(file) >= TrimmedLines \/ TmpPrecedes
    /\ trim \in {"copy", "remove"} => Len(file) > TrimmedLines
    /\ trim = "copy" => tmpThere
    /\ trim = "remove" => TmpCopies
    /\ trim = "rename" => file = <<>> /\ TmpPrecedes
    /\ trim \in {"none", "open", "copy", "remove", "rename"}

LogInv == Files /\ Consecutive /\ Kept

\* The constants and lengths the proofs compute with.
LEMMA LineNumbers == TrimmedLines \in Nat /\ LineChunks \subseteq Nat
  BY LinesAssumption

\* A file has a length.
LEMMA Lengths == Files => Len(file) \in Nat /\ Len(tmp) \in Nat
  BY DEF Files

\* The elements of two files one after the other.
LEMMA Concatenated ==
    ASSUME NEW s \in Seq(Nat), NEW t \in Seq(Nat)
    PROVE  /\ s \o t \in Seq(Nat) /\ Len(s \o t) = Len(s) + Len(t)
           /\ \A i \in 1..Len(s) : (s \o t)[i] = s[i]
           /\ \A i \in 1..Len(t) : (s \o t)[Len(s) + i] = t[i]
  OBVIOUS

\* A new log is empty.
LEMMA LogInitial == LogInit => LogInv
  BY DEF LogInit, LogInv, Files, Consecutive, Kept

\* Printing appends what comes next to the log, and leaves tmp.tmp before it.
LEMMA PrintKeeps ==
    ASSUME LogInv, trim = "none", trim' \in {"none", "open"}, UNCHANGED <<tmp, tmpThere>>,
           NEW n \in Nat, file' = file \o Chunks(n), written' = written + n
    PROVE  LogInv'
  <1> USE LineNumbers, Lengths DEF LogInv, Files, Consecutive, Kept
  <1>1. /\ Chunks(n) \in Seq(Nat) /\ Len(Chunks(n)) = n
        /\ \A i \in 1..n : Chunks(n)[i] = written + i
    BY DEF Chunks
  <1>2. /\ file' \in Seq(Nat) /\ Len(file') = Len(file) + n
        /\ \A i \in 1..Len(file) : file'[i] = file[i]
        /\ \A i \in 1..n : file'[Len(file) + i] = written + i
    <2>1. /\ file \o Chunks(n) \in Seq(Nat)
          /\ Len(file \o Chunks(n)) = Len(file) + Len(Chunks(n))
          /\ \A i \in 1..Len(file) : (file \o Chunks(n))[i] = file[i]
          /\ \A i \in 1..Len(Chunks(n)) : (file \o Chunks(n))[Len(file) + i] = Chunks(n)[i]
      BY <1>1, Concatenated
    <2> QED
      BY <1>1, <2>1
  <1>3. Files'
    BY <1>2
  <1>4. Consecutive'
    <2> SUFFICES ASSUME NEW i \in 1..Len(file') PROVE file'[i] = written' - Len(file') + i
      BY <1>2
    <2>1. CASE i <= Len(file)
      BY <1>2, <2>1
    <2>2. CASE i > Len(file)
      <3>1. i - Len(file) \in 1..n /\ i = Len(file) + (i - Len(file))
        BY <1>2, <2>2
      <3>2. file'[i] = written + (i - Len(file))
        BY <1>2, <3>1
      <3> QED
        BY <1>2, <3>2
    <2> QED
      BY <2>1, <2>2
  <1>5. TmpPrecedes => TmpPrecedes'
    BY <1>2 DEF TmpPrecedes
  <1>6. Len(file') = written' \/ Len(file') >= TrimmedLines \/ TmpPrecedes'
    <2>1. Len(file) = written \/ Len(file) >= TrimmedLines \/ TmpPrecedes
      OBVIOUS
    <2> QED
      <3>1. CASE Len(file) = written
        BY <1>2, <3>1
      <3>2. CASE Len(file) >= TrimmedLines
        BY <1>2, <3>2
      <3>3. CASE TmpPrecedes
        BY <1>5, <3>3
      <3> QED
        BY <2>1, <3>1, <3>2, <3>3
  <1> QED
    BY <1>3, <1>4, <1>6

\* The log is not opened, or a step that touches neither file keeps the invariant.
LEMMA NothingKeeps ==
    ASSUME LogInv, trim' \in {"none", "open"}, trim \in {"none", "open"},
           UNCHANGED <<file, tmp, tmpThere, written>>
    PROVE  LogInv'
  BY DEF LogInv, Files, Consecutive, Kept, TmpPrecedes

\* A line is printed, with a timestamp or without.
LEMMA VprintKeeps ==
    ASSUME LogInv, trim = "none", trim' \in {"none", "open"}, UNCHANGED <<tmp, tmpThere>>,
           NEW n \in Nat, NEW stamp \in BOOLEAN, Vprint(n, stamp)
    PROVE  LogInv'
  <1>1. CASE stamp
    BY <1>1, PrintKeeps DEF Vprint
  <1>2. CASE ~stamp
    BY <1>2, PrintKeeps DEF Vprint
  <1> QED
    BY <1>1, <1>2

\* A failed copy leaves the log alone, a whole one is the end of the log.
LEMMA CopyKeeps ==
    ASSUME LogInv, NEW n \in Nat, CopyTail(n)
    PROVE  LogInv'
  <1> USE LineNumbers, Lengths DEF LogInv, Files, Consecutive, Kept
  <1> DEFINE tail == SubSeq(file, FindTail(TrimmedLines) + 1, Len(file))
  <1>1. FindTail(TrimmedLines) = Len(file) - TrimmedLines /\ Len(file) > TrimmedLines
    BY DEF CopyTail, FindTail
  <1>2. /\ tail \in Seq(Nat) /\ Len(tail) = TrimmedLines
        /\ \A i \in 1..TrimmedLines : tail[i] = written - TrimmedLines + i
    <2> DEFINE first == Len(file) - TrimmedLines + 1
    <2>1. tail = SubSeq(file, first, Len(file))
      BY <1>1
    <2>2. first \in 1..(Len(file) + 1) /\ \A i \in first..Len(file) : file[i] \in Nat
      <3>1. \A i \in 1..Len(file) : file[i] \in Nat
        BY ElementOfSeq
      <3> QED
        BY <1>1, <3>1
    <2>3. /\ tail \in Seq(Nat)
          /\ Len(tail) = IF first <= Len(file) THEN Len(file) - first + 1 ELSE 0
          /\ \A i \in 1..(Len(file) - first + 1) : tail[i] = file[first + i - 1]
      <3> HIDE DEF first
      <3>1. first \in Int /\ Len(file) \in Int
        BY <2>2
      <3>2. /\ SubSeq(file, first, Len(file)) \in Seq(Nat)
            /\ Len(SubSeq(file, first, Len(file)))
                 = IF first <= Len(file) THEN Len(file) - first + 1 ELSE 0
            /\ \A i \in 1..(Len(file) - first + 1) :
                  SubSeq(file, first, Len(file))[i] = file[first + i - 1]
        BY <2>2, <3>1, SubSeqProperties
      <3> HIDE DEF tail
      <3> QED
        BY <2>1, <3>2
    <2>4. \A i \in 1..TrimmedLines :
             first + i - 1 \in 1..Len(file) /\ first + i - 1 = Len(file) - TrimmedLines + i
      BY <1>1
    <2>5. Len(tail) = TrimmedLines
      BY <1>1, <2>3
    <2> QED
      BY <1>1, <2>3, <2>4, <2>5
  <1>3. n <= Len(tail) /\ tmp' = SubSeq(tail, 1, n) /\ trim' = AfterCopy(n = Len(tail))
        /\ UNCHANGED <<file, tmpThere, written>>
    BY DEF CopyTail
  <1> HIDE DEF tail
  <1>4. tmp' \in Seq(Nat) /\ Len(tmp') = n /\ \A i \in 1..n : tmp'[i] = tail[i]
    <2>1. \A i \in 1..n : tail[i] \in Nat
      BY <1>2, <1>3
    <2>2. /\ SubSeq(tail, 1, n) \in Seq(Nat)
          /\ Len(SubSeq(tail, 1, n)) = IF 1 <= n THEN n - 1 + 1 ELSE 0
          /\ \A i \in 1..(n - 1 + 1) : SubSeq(tail, 1, n)[i] = tail[1 + i - 1]
      BY <2>1, SubSeqProperties
    <2> QED
      BY <1>3, <2>2
  <1>5. CASE n = Len(tail)
    <2>1. trim' = "remove"
      BY <1>3, <1>5 DEF AfterCopy
    <2>2. tmpThere'
      BY <1>3 DEF CopyTail
    <2> QED
      BY <1>1, <1>2, <1>3, <1>4, <1>5, <2>1, <2>2 DEF TmpCopies
  <1>6. CASE n # Len(tail)
    <2>1. trim' = "none"
      BY <1>3, <1>6 DEF AfterCopy
    <2> QED
      BY <1>1, <1>3, <1>4, <2>1
  <1> QED
    BY <1>5, <1>6

\* Every step of the logger keeps the invariant.
LEMMA LogStep ==
    ASSUME TmpOutcomes = {TRUE}, LogInv, [LogNext]_log
    PROVE  LogInv'
  <1> USE LineNumbers, Lengths
  <1>1. ASSUME NEW n \in LineChunks, NEW stamp \in BOOLEAN, NEW opens \in OpenOutcomes,
               PrintLine(n, stamp, opens)
        PROVE  LogInv'
    <2>1. CASE opens
      BY <1>1, <2>1, VprintKeeps DEF PrintLine
    <2>2. CASE ~opens
      BY <1>1, <2>2, NothingKeeps DEF PrintLine, NotOpened
    <2> QED
      BY <2>1, <2>2
  <1>2. ASSUME NEW n \in LineChunks, NEW stamp \in BOOLEAN, NEW opens \in OpenOutcomes,
               PrintError(n, stamp, opens)
        PROVE  LogInv'
    <2>1. CASE opens
      BY <1>2, <2>1, VprintKeeps DEF PrintError, trimming
    <2>2. CASE ~opens
      BY <1>2, <2>2, NothingKeeps DEF PrintError, NotOpened, trimming
    <2> QED
      BY <2>1, <2>2
  <1>3. CASE PrintTimestamp
    BY <1>3, VprintKeeps DEF PrintTimestamp, trimming
  <1>4. CASE InitializeTimestamps
    BY <1>4, VprintKeeps DEF InitializeTimestamps
  <1>5. CASE TrimFile
    BY <1>5, NothingKeeps DEF TrimFile
  <1>6. ASSUME NEW ok \in TmpOutcomes, OpenTmp(ok) PROVE LogInv'
    <2>1. CASE FindTail(TrimmedLines) = 0
      <3>1. trim' = "none" /\ trim = "open" /\ UNCHANGED <<file, tmp, tmpThere, written>>
        BY <1>6, <2>1 DEF OpenTmp
      <3> QED
        BY <3>1, NothingKeeps
    <2>2. CASE FindTail(TrimmedLines) # 0
      <3>1. trim' = "copy" /\ tmp' = <<>> /\ tmpThere' /\ UNCHANGED <<file, written>>
        BY <1>6, <2>2 DEF OpenTmp
      <3>2. Len(file) > TrimmedLines
        BY <2>2 DEF FindTail
      <3> QED
        BY <3>1, <3>2 DEF LogInv, Files, Consecutive, Kept
    <2> QED
      BY <2>1, <2>2
  <1>7. ASSUME NEW n \in 0..TrimmedLines, CopyTail(n) PROVE LogInv'
    BY <1>7, CopyKeeps
  <1>8. CASE RemoveLog
    <2>1. trim' = "rename" /\ file' = <<>> /\ UNCHANGED <<tmp, tmpThere, written>>
      BY <1>8 DEF RemoveLog
    <2>2. TmpPrecedes'
      BY <1>8, <2>1 DEF RemoveLog, LogInv, Files, Consecutive, Kept, TmpCopies, TmpPrecedes
    <2> QED
      BY <2>1, <2>2 DEF LogInv, Files, Consecutive, Kept
  <1>9. CASE RenameTmp
    <2>1. file = <<>> /\ TmpPrecedes
      BY <1>9 DEF RenameTmp, LogInv, Kept
    <2>2. trim' = "none" /\ file' = tmp /\ tmp' = <<>> /\ UNCHANGED written
      BY <1>9, <2>1 DEF RenameTmp, TmpPrecedes
    <2>3. Len(tmp) <= written
      BY <2>1 DEF LogInv, Files, TmpPrecedes
    <2>4. Len(file) = 0 /\ Len(tmp) = TrimmedLines
          /\ \A i \in 1..Len(tmp) : tmp[i] = written - Len(tmp) + i
      BY <2>1 DEF LogInv, Files, TmpPrecedes
    <2>5. Files' /\ Consecutive'
      BY <2>2, <2>3, <2>4 DEF LogInv, Files, Consecutive
    <2>6. Kept'
      BY <2>2, <2>4 DEF LogInv, Files, Kept
    <2> QED
      BY <2>5, <2>6 DEF LogInv
  <1>10. CASE Crash
    <2>1. trim' = "none" /\ UNCHANGED <<file, tmp, tmpThere, written>>
      BY <1>10 DEF Crash
    <2>2. TmpPrecedes => TmpPrecedes'
      BY <2>1 DEF TmpPrecedes
    <2>3. Len(file) = written \/ Len(file) >= TrimmedLines \/ TmpPrecedes
      BY DEF LogInv, Files, Kept
    <2> QED
      BY <2>1, <2>2, <2>3 DEF LogInv, Files, Consecutive, Kept
  <1>11. CASE UNCHANGED log
    BY <1>11 DEF log, LogInv, Files, Consecutive, Kept, TmpPrecedes, TmpCopies
  <1> QED
    BY <1>1, <1>2, <1>3, <1>4, <1>5, <1>6, <1>7, <1>8, <1>9, <1>10, <1>11 DEF LogNext

\* The invariant has the last chunks in the log, or in tmp.tmp and the log.
LEMMA LogTail == LogInv => TailKept
  <1> SUFFICES ASSUME LogInv PROVE TailKept
    OBVIOUS
  <1> USE LineNumbers, Lengths DEF LogInv, Files, Consecutive
  <1>1. CASE Len(file) = written \/ Len(file) >= TrimmedLines
    <2>1. EndsWithLast(file)
      BY <1>1 DEF EndsWithLast
    <2> QED
      BY <2>1 DEF TailKept
  <1>2. CASE TmpPrecedes /\ Len(file) < TrimmedLines
    <2> DEFINE both == tmp \o file
    <2>1. /\ Len(both) = Len(tmp) + Len(file) /\ Len(tmp) = TrimmedLines
          /\ \A i \in 1..Len(tmp) : both[i] = tmp[i]
          /\ \A i \in 1..Len(file) : both[Len(tmp) + i] = file[i]
      BY <1>2, Concatenated DEF TmpPrecedes
    <2>2. \A i \in 1..Len(both) : both[i] = written - Len(both) + i
      <3> SUFFICES ASSUME NEW i \in 1..Len(both) PROVE both[i] = written - Len(both) + i
        OBVIOUS
      <3>1. CASE i <= Len(tmp)
        BY <1>2, <2>1, <3>1 DEF TmpPrecedes
      <3>2. CASE i > Len(tmp)
        <4>1. i - Len(tmp) \in 1..Len(file) /\ i = Len(tmp) + (i - Len(tmp))
          BY <2>1, <3>2
        <4>2. both[i] = file[i - Len(tmp)]
          BY <2>1, <4>1
        <4> QED
          BY <2>1, <4>1, <4>2
      <3> QED
        BY <2>1, <3>1, <3>2
    <2>3. Len(both) >= TrimmedLines /\ Len(both) \in Nat
      BY <2>1
    <2> HIDE DEF both
    <2>4. EndsWithLast(both)
      BY <2>2, <2>3 DEF EndsWithLast
    <2> QED
      BY <2>4 DEF TailKept, both
  <1> QED
    BY <1>1, <1>2 DEF Kept

\* Whatever is printed, whatever write of trim_file fails and wherever the program
\* crashes, the last trimmed_lines_ lines are in the log, or in tmp.tmp and the
\* log, for all line counts and lengths, provided tmp.tmp can be opened.
THEOREM LogKeepsTail == TmpOutcomes = {TRUE} /\ LogSpec => []TailKept
  <1> SUFFICES ASSUME TmpOutcomes = {TRUE} PROVE LogSpec => []TailKept
    OBVIOUS
  <1>1. LogInit => LogInv
    BY LogInitial
  <1>2. LogInv /\ [LogNext]_log => LogInv'
    BY LogStep
  <1> QED
    BY <1>1, <1>2, LogTail, PTL DEF LogSpec

\* Whole lines added to a file of chunks, within the bound on them.
LEMMA VprintType ==
    ASSUME LogTypeOK, NEW n \in LineChunks \cup {1}, NEW stamp \in BOOLEAN, Vprint(n, stamp)
    PROVE  /\ file' \in Seq(1..MaxChunks) /\ written' \in 0..MaxChunks /\ lineCount' \in Nat
  <1> DEFINE all == IF stamp THEN n + 1 ELSE n
  <1>1. /\ n \in Nat \ {0} /\ MaxChunks \in Nat /\ written \in 0..MaxChunks
        /\ file \in Seq(1..MaxChunks) /\ lineCount \in Nat
    BY LinesAssumption DEF LogTypeOK
  <1>2. all \in Nat /\ written + all <= MaxChunks
    BY <1>1 DEF Vprint
  <1>3. file' = file \o Chunks(all) /\ written' = written + all
    BY DEF Vprint
  <1> HIDE DEF all
  <1>4. Chunks(all) \in Seq(1..MaxChunks)
    BY <1>1, <1>2 DEF Chunks
  <1>5. lineCount' \in Nat
    BY <1>1 DEF Vprint
  <1> QED
    BY <1>1, <1>2, <1>3, <1>4, <1>5

\* The types of the logger: its files and counters, and the rest.
Counters ==
    /\ file \in Seq(1..MaxChunks) /\ tmp \in Seq(1..MaxChunks)
    /\ lineCount \in Nat /\ newCount \in Nat /\ written \in 0..MaxChunks
Flags ==
    /\ tmpThere \in BOOLEAN /\ stamping \in BOOLEAN
    /\ trim \in {"none", "open", "copy", "remove", "rename"}

\* Printing, trimming and crashes keep the files files and the counters numbers.
LEMMA CountersStep ==
    ASSUME LogTypeOK, [LogNext]_log
    PROVE  Counters'
  <1> USE LinesAssumption
  <1>1. Counters
    BY DEF LogTypeOK, Counters
  <1>2. ASSUME NEW n \in LineChunks, NEW stamp \in BOOLEAN, NEW opens \in OpenOutcomes,
               PrintLine(n, stamp, opens) \/ PrintError(n, stamp, opens)
        PROVE  Counters'
    <2>1. file' \in Seq(1..MaxChunks) /\ written' \in 0..MaxChunks /\ lineCount' \in Nat
      <3>1. CASE opens
        BY <1>2, <3>1, VprintType DEF PrintLine, PrintError
      <3>2. CASE ~opens
        BY <1>1, <1>2, <3>2 DEF PrintLine, PrintError, NotOpened, Counters
      <3> QED
        BY <3>1, <3>2
    <2> QED
      BY <1>1, <1>2, <2>1 DEF PrintLine, PrintError, Counters, trimming
  <1>3. CASE PrintTimestamp \/ InitializeTimestamps
    <2>1. file' \in Seq(1..MaxChunks) /\ written' \in 0..MaxChunks /\ lineCount' \in Nat
      BY <1>3, VprintType DEF PrintTimestamp, InitializeTimestamps
    <2> QED
      BY <1>1, <1>3, <2>1 DEF PrintTimestamp, InitializeTimestamps, Counters, trimming
  <1>4. CASE TrimFile
    BY <1>1, <1>4 DEF TrimFile, Counters
  <1>5. ASSUME NEW ok \in TmpOutcomes, OpenTmp(ok) PROVE Counters'
    <2>1. tmp' \in {<<>>, tmp}
      BY <1>5 DEF OpenTmp
    <2>2. <<>> \in Seq(1..MaxChunks)
      OBVIOUS
    <2> QED
      BY <1>1, <1>5, <2>1, <2>2 DEF OpenTmp, Counters
  <1>6. ASSUME NEW n \in 0..TrimmedLines, CopyTail(n) PROVE Counters'
    <2> DEFINE tail == SubSeq(file, FindTail(TrimmedLines) + 1, Len(file))
    <2>1. file \in Seq(1..MaxChunks) /\ Len(file) \in Nat /\ TrimmedLines \in Nat
      BY <1>1 DEF Counters
    <2>2. FindTail(TrimmedLines) \in 0..Len(file)
      BY <2>1 DEF FindTail
    <2>3. tail \in Seq(1..MaxChunks)
      BY <2>1, <2>2, SubSeqProperties
    <2>4. /\ n <= Len(tail) /\ tmp' = SubSeq(tail, 1, n) /\ newCount' = n
          /\ UNCHANGED <<file, lineCount, written>>
      BY <1>6 DEF CopyTail
    <2> HIDE DEF tail
    <2>5. tmp' \in Seq(1..MaxChunks)
      BY <2>3, <2>4, SubSeqProperties
    <2> QED
      BY <1>1, <2>4, <2>5 DEF Counters
  <1>7. CASE RemoveLog
    BY <1>1, <1>7 DEF RemoveLog, Counters
  <1>8. CASE RenameTmp
    <2>1. file' \in {tmp, file} /\ tmp' = <<>> /\ lineCount' = newCount /\ UNCHANGED <<newCount, written>>
      BY <1>8 DEF RenameTmp
    <2> QED
      BY <1>1, <2>1 DEF Counters
  <1>9. CASE Crash
    BY <1>1, <1>9 DEF Crash, Counters
  <1>10. CASE UNCHANGED log
    BY <1>1, <1>10 DEF log, Counters
  <1> QED
    BY <1>2, <1>3, <1>4, <1>5, <1>6, <1>7, <1>8, <1>9, <1>10 DEF LogNext

\* So do they keep the rest of the types.
LEMMA FlagsStep ==
    ASSUME LogTypeOK, [LogNext]_log
    PROVE  Flags'
  <1>1. Flags
    BY DEF LogTypeOK, Flags
  <1>2. ASSUME NEW n \in LineChunks, NEW stamp \in BOOLEAN, NEW opens \in OpenOutcomes,
               PrintLine(n, stamp, opens) \/ PrintError(n, stamp, opens)
        PROVE  Flags'
    BY <1>1, <1>2, Zenon DEF PrintLine, PrintError, Flags, trimming
  <1>3. CASE PrintTimestamp \/ InitializeTimestamps
    BY <1>1, <1>3, Zenon DEF PrintTimestamp, InitializeTimestamps, Flags, trimming
  <1>4. CASE TrimFile
    BY <1>1, <1>4, Zenon DEF TrimFile, Flags
  <1>5. ASSUME NEW ok \in TmpOutcomes, OpenTmp(ok) PROVE Flags'
    <2>1. trim' \in {"none", "copy", "remove"}
      BY <1>5 DEF OpenTmp
    <2>2. tmpThere' = TRUE \/ tmpThere' = tmpThere
      BY <1>5, Zenon DEF OpenTmp
    <2>3. stamping' = stamping
      BY <1>5 DEF OpenTmp
    <2> QED
      BY <1>1, <2>1, <2>2, <2>3, Zenon DEF Flags
  <1>6. ASSUME NEW n \in 0..TrimmedLines, CopyTail(n) PROVE Flags'
    <2>1. trim' \in {"none", "remove"}
      BY <1>6 DEF CopyTail, AfterCopy
    <2>2. UNCHANGED <<tmpThere, stamping>>
      BY <1>6 DEF CopyTail
    <2> QED
      BY <1>1, <2>1, <2>2, Zenon DEF Flags
  <1>7. CASE RemoveLog \/ RenameTmp \/ Crash
    BY <1>1, <1>7, Zenon DEF RemoveLog, RenameTmp, Crash, Flags
  <1>8. CASE UNCHANGED log
    BY <1>1, <1>8 DEF log, Flags
  <1> QED
    BY <1>2, <1>3, <1>4, <1>5, <1>6, <1>7, <1>8 DEF LogNext

\* Printing, trimming and crashes keep the types of the logger.
THEOREM LogType == LogSpec => []LogTypeOK
  <1>1. LogTypeOK <=> Counters /\ Flags
    BY DEF LogTypeOK, Counters, Flags
  <1>2. LogInit => Counters
    BY LinesAssumption DEF LogInit, Counters
  <1>3. LogInit => Flags
    BY Zenon DEF LogInit, Flags
  <1>4. LogTypeOK /\ [LogNext]_log => Counters' /\ Flags'
    BY CountersStep, FlagsStep
  <1> QED
    BY <1>1, <1>2, <1>3, <1>4, PTL DEF LogSpec

-----------------------------------------------------------------------------
(* The LED *)

\* What the proof needs of the types.
Values ==
    /\ period \in Nat /\ bits \in Nat \ {0}
    /\ call[1] \in {"idle", "state", "flash", "bits", "alarm"}
    /\ call[1] = "bits" => call[2] \in Nat \ {0}

\* A call under way has promised nothing yet.
Unpromised == call # Idle => promise = "none"

\* A steady LED has no alarm, or one that does nothing but end, and setState has
\* seen to that before it sets the state.
Quiet == /\ promise \in {"on", "off"} => period = 0 \/ ~flasher
         /\ call[1] = "state" => period = 0

LedInv == Values /\ Unpromised /\ Quiet /\ LedObeys

\* A period of as many milliseconds as there are bits gives each of them one.
LEMMA DivPositive ==
    ASSUME NEW b \in Nat \ {0}, NEW p \in Nat, p >= b
    PROVE  p \div b > 0
  OBVIOUS

\* The constructor establishes the invariant: a steady LED without an alarm.
LEMMA LedInitial == LedInit => LedInv
  BY DEF LedInit, LedInv, Values, Unpromised, Quiet, LedObeys, Idle, Steady

\* Every step of a call and of the alarm keeps the invariant.
LEMMA LedStep ==
    ASSUME AddOutcomes = {TRUE}, LedInv, [LedNext]_led
    PROVE  LedInv'
  <1> USE FlashAssumption DEF LedInv, Values, Unpromised, Quiet, Idle
  <1>1. ASSUME NEW s \in BOOLEAN, SetState(s) PROVE LedInv'
    BY <1>1 DEF SetState, LedObeys
  <1>2. CASE SetLed
    BY <1>2 DEF SetLed, LedObeys
  <1>3. ASSUME NEW p \in FlashPeriods, SetFlash(p) PROVE LedInv'
    BY <1>3 DEF SetFlash, LedObeys
  <1>4. ASSUME NEW p \in FlashPeriods, SetFlashPeriod(p) PROVE LedInv'
    <2>1. p >= bits => p \div bits > 0
      BY DivPositive
    <2> QED
      BY <1>4, <2>1 DEF SetFlashPeriod, LedObeys, CheckFlash, Pattern
  <1>5. ASSUME NEW b \in FlashBits, NEW pat \in SUBSET (0..(b - 1)), SetFlashPattern(pat, b)
        PROVE  LedInv'
    BY <1>5 DEF SetFlashPattern, LedObeys
  <1>6. CASE SetBits
    BY <1>6 DEF SetBits, LedObeys
  <1>7. CASE FlashIndex
    BY <1>7 DEF FlashIndex, LedObeys
  <1>8. CASE FlashAlarm
    <2>1. period > bits => period \div bits > 0
      BY DivPositive
    <2>2. CASE CheckFlash /\ period > bits
      BY <1>8, <2>1, <2>2 DEF FlashAlarm, LedObeys, CheckFlash, Pattern
    <2>3. CASE ~(CheckFlash /\ period > bits)
      BY <1>8, <2>3 DEF FlashAlarm, LedObeys, Steady
    <2> QED
      BY <2>2, <2>3
  <1>9. CASE DoTimer
    <2>1. promise = "flash" => Goes
      <3>1. period = 0 => ~(period \div bits > 0)
        OBVIOUS
      <3> QED
        BY <3>1 DEF LedObeys, Goes
    <2> QED
      BY <1>9, <2>1 DEF DoTimer, LedObeys, CheckFlash, Pattern
  <1>10. CASE UNCHANGED led
    BY <1>10 DEF led, LedObeys, CheckFlash, Pattern
  <1> QED
    BY <1>1, <1>2, <1>3, <1>4, <1>5, <1>6, <1>7, <1>8, <1>9, <1>10 DEF LedNext

\* What a call of the LED returned stays true until the next call, wherever the
\* alarm comes (setFlash, setFlashPattern, setState, do_timer), for all periods and
\* patterns, provided add_alarm_in_ms finds a free alarm.
THEOREM LedKeepsPromise == AddOutcomes = {TRUE} /\ LedSpec => []LedObeys
  <1> SUFFICES ASSUME AddOutcomes = {TRUE} PROVE LedSpec => []LedObeys
    OBVIOUS
  <1>1. LedInit => LedInv
    BY LedInitial
  <1>2. LedInv /\ [LedNext]_led => LedInv'
    BY LedStep
  <1>3. LedInv => LedObeys
    BY DEF LedInv
  <1> QED
    BY <1>1, <1>2, <1>3, PTL DEF LedSpec

\* What a call of the LED has still to assign.
Assigns ==
    /\ call[1] = "state" => call[2] \in BOOLEAN
    /\ call[1] = "bits" => call[2] \in FlashBits

\* Every call and the alarm keep the types of the LED.
THEOREM LedType == LedSpec => []LedTypeOK
  <1>1. LedInit => LedTypeOK /\ Assigns
    <2> SUFFICES ASSUME LedInit PROVE LedTypeOK /\ Assigns
      OBVIOUS
    <2>1. lit \in BOOLEAN /\ flasher \in BOOLEAN /\ promise \in {"on", "off"}
      BY Zenon DEF LedInit, Steady
    <2>2. period = 0 /\ bits = 2 /\ index = 0 /\ call = Idle
      BY DEF LedInit
    <2> QED
      BY <2>1, <2>2 DEF LedTypeOK, Assigns, Idle
  <1>2. LedTypeOK /\ Assigns /\ [LedNext]_led => (LedTypeOK /\ Assigns)'
    <2> SUFFICES ASSUME LedTypeOK, Assigns, [LedNext]_led PROVE (LedTypeOK /\ Assigns)'
      OBVIOUS
    <2> USE FlashAssumption DEF LedTypeOK, Assigns, Idle
    <2>1. ASSUME NEW s \in BOOLEAN, SetState(s) PROVE (LedTypeOK /\ Assigns)'
      BY <2>1 DEF SetState
    <2>2. CASE SetLed
      BY <2>2 DEF SetLed
    <2>3. ASSUME NEW p \in FlashPeriods, SetFlash(p) PROVE (LedTypeOK /\ Assigns)'
      BY <2>3 DEF SetFlash
    <2>4. ASSUME NEW p \in FlashPeriods, SetFlashPeriod(p) PROVE (LedTypeOK /\ Assigns)'
      BY <2>4 DEF SetFlashPeriod
    <2>5. ASSUME NEW b \in FlashBits, NEW pat \in SUBSET (0..(b - 1)), SetFlashPattern(pat, b)
          PROVE  (LedTypeOK /\ Assigns)'
      BY <2>5 DEF SetFlashPattern
    <2>6. CASE SetBits
      BY <2>6 DEF SetBits
    <2>7. CASE FlashIndex
      BY <2>7 DEF FlashIndex
    <2>8. CASE FlashAlarm
      BY <2>8, AddAssumption DEF FlashAlarm, Steady
    <2>9. CASE DoTimer
      <3>1. lit' \in BOOLEAN /\ flasher' \in BOOLEAN
        <4>1. lit' = (index \in pattern) \/ lit' = lit
          BY <2>9, Zenon DEF DoTimer
        <4>2. flasher' = (period > 0 /\ period \div bits > 0)
          BY <2>9, Zenon DEF DoTimer, Goes
        <4>3. lit \in BOOLEAN
          BY DEF LedTypeOK
        <4>4. lit' \in BOOLEAN
          <5>1. (index \in pattern) \in BOOLEAN
            OBVIOUS
          <5>2. CASE lit' = lit
            BY <4>3, <5>2, Zenon
          <5>3. CASE lit' = (index \in pattern)
            BY <5>1, <5>3, Zenon
          <5> QED
            BY <4>1, <5>2, <5>3, Zenon
        <4>5. flasher' \in BOOLEAN
          BY <4>2
        <4> QED
          BY <4>4, <4>5
      <3>2. index' \in Nat /\ UNCHANGED <<period, pattern, bits, call, promise>>
        BY <2>9 DEF DoTimer
      <3> QED
        BY <3>1, <3>2
    <2>10. CASE UNCHANGED led
      BY <2>10 DEF led
    <2> QED
      BY <2>1, <2>2, <2>3, <2>4, <2>5, <2>6, <2>7, <2>8, <2>9, <2>10 DEF LedNext
  <1> QED
    BY <1>1, <1>2, PTL DEF LedSpec

-----------------------------------------------------------------------------
(* Sound *)

\* What the proof needs of the types.
Numbers ==
    /\ {datasz, idx, repeat, count} \subseteq Nat
    /\ due \in Int
    /\ doing[2] \in Nat

\* An interrupt that is off has nothing left to play.
Off == ~irq => count = 0 /\ ~loop

\* repeat_ once playOnce has made its addition.
Coming == IF doing[1] = "add" THEN doing[2] ELSE repeat

\* Rings under way: each is counted with its last sample, and taken from repeat_
\* one pulse later.
Playing ==
    /\ idx <= datasz
    /\ due = IF idx = datasz THEN Coming - 1 ELSE Coming
    /\ tally = "asked" => Coming > 0
    /\ tally = "zero" => Coming = 0 /\ repeat = 0

Counting ==
    Counted =>
        /\ doing = NoCall \/ (irq /\ doing[1] = "add")
        /\ count = 0 /\ ~loop /\ datasz > 0
        /\ irq => Playing
        /\ ~irq => due = IF tally = "asked" THEN 0 ELSE -1

SoundInv == Numbers /\ Off /\ Counting

\* Without data or calls nothing is counted.
LEMMA SoundInitial == SoundInit => SoundInv
  BY SoundAssumption DEF SoundInit, SoundInv, Numbers, Off, Counting, Counted, NoCall

\* A sum that fits the type is not cut.
LEMMA ModSmall ==
    ASSUME NEW a \in Nat, NEW w \in Nat \ {0}, a < w
    PROVE  a % w = a
  OBVIOUS

\* A call that leaves the count of rings keeps the invariant.
LEMMA UncountedStep ==
    ASSUME Numbers', Off', Uncounted
    PROVE  SoundInv'
  BY DEF Uncounted, SoundInv, Counting, Counted

\* A call keeps the invariant: playOnce begins or goes on with a count, every
\* other call ends it.
LEMMA CallStep ==
    ASSUME SoundInv, NEW n \in Nat,
           \/ n \in Rings /\ (PlayOnce(n) \/ PlayMore(n))
           \/ StartPlaying \/ StopPlaying \/ StopAtOnce \/ Restarted
           \/ \E what \in {"tone", "beep", "data"} : Wait(what, n)
    PROVE  SoundInv'
  <1> USE SoundAssumption
  <1>1. CASE n \in Rings /\ PlayOnce(n)
    <2>1. Numbers' /\ Off'
      BY <1>1 DEF PlayOnce, SoundInv, Numbers, Off, NoCall, Uncounted
    <2>2. CASE datasz > 0
      <3>1. /\ doing' = NoCall /\ irq' = TRUE /\ idx' = 0 /\ repeat' = n /\ datasz' = datasz
            /\ due' = n /\ tally' = (IF n > 0 THEN "asked" ELSE "zero")
            /\ count' = 0 /\ ~loop'
        BY <1>1, <2>2 DEF PlayOnce, SoundInv, Off
      <3>2. Coming' = n
        BY <3>1 DEF Coming, NoCall
      <3>3. Playing'
        BY <2>2, <3>1, <3>2 DEF Playing, SoundInv, Numbers
      <3> QED
        BY <2>1, <2>2, <3>1, <3>3 DEF SoundInv, Counting, NoCall
    <2>3. CASE ~(datasz > 0)
      BY <1>1, <2>1, <2>3, UncountedStep DEF PlayOnce
    <2> QED
      BY <2>2, <2>3
  <1>2. CASE n \in Rings /\ PlayMore(n)
    <2>1. (repeat + n) % RepeatWrap \in Nat
      BY DEF SoundInv, Numbers
    <2>2. Numbers' /\ Off'
      BY <1>2, <2>1 DEF PlayMore, SoundInv, Numbers, Off, Uncounted
    <2>3. CASE Counted /\ repeat + n < RepeatWrap
      <3>1. repeat \in Nat /\ (repeat + n) % RepeatWrap = repeat + n
        BY <2>3, ModSmall DEF SoundInv, Numbers
      <3>2. /\ doing = NoCall /\ irq /\ doing' = <<"add", repeat + n>>
            /\ due' = due + n /\ tally' = (IF n > 0 THEN "asked" ELSE tally)
            /\ UNCHANGED <<irq, datasz, idx, repeat, loop, count>>
        BY <1>2, <2>3, <3>1 DEF PlayMore
      <3>3. Coming' = repeat + n /\ Coming = repeat
        BY <3>2 DEF Coming, NoCall
      <3>4. Playing /\ count = 0 /\ ~loop /\ datasz > 0
        BY <2>3, <3>2 DEF SoundInv, Counting
      <3>5. Playing'
        BY <2>3, <3>1, <3>2, <3>3, <3>4 DEF Playing, Counted, SoundInv, Numbers
      <3>6. doing'[1] = "add" /\ irq'
        BY <3>2
      <3> QED
        BY <2>2, <3>2, <3>4, <3>5, <3>6 DEF SoundInv, Counting
    <2>4. CASE ~(Counted /\ repeat + n < RepeatWrap)
      BY <1>2, <2>2, <2>4, UncountedStep DEF PlayMore
    <2> QED
      BY <2>3, <2>4
  <1>3. CASE StartPlaying
    BY <1>3, UncountedStep DEF StartPlaying, SoundInv, Numbers, Off, Uncounted
  <1>4. CASE StopPlaying
    BY <1>4, UncountedStep DEF StopPlaying, Stopped, SoundInv, Numbers, Off, Uncounted
  <1>5. CASE StopAtOnce
    BY <1>5, UncountedStep DEF StopAtOnce, Stopped, SoundInv, Numbers, Off, Uncounted
  <1>6. CASE Restarted
    BY <1>6, UncountedStep DEF Restarted, SoundInv, Numbers, Off, Uncounted
  <1>7. ASSUME NEW what \in {"tone", "beep", "data"}, Wait(what, n) PROVE SoundInv'
    BY <1>7, UncountedStep DEF Wait, Stopped, SoundInv, Numbers, Off, Uncounted
  <1> QED
    BY <1>1, <1>2, <1>3, <1>4, <1>5, <1>6, <1>7

\* So does a call that goes on after the interrupt, which makes its addition, or
\* after waiting, when no rings are being counted.
LEMMA ReturnStep ==
    ASSUME SoundInv, Returns
    PROVE  SoundInv'
  <1>1. CASE PlayAdd
    <2>1. /\ doing[1] = "add" /\ doing' = NoCall /\ repeat' = doing[2]
          /\ UNCHANGED <<irq, datasz, idx, loop, count, tally, due>>
      BY <1>1 DEF PlayAdd
    <2>2. Numbers' /\ Off'
      BY <2>1 DEF SoundInv, Numbers, Off, NoCall
    <2>3. Coming = doing[2] /\ Coming' = doing[2]
      BY <2>1 DEF Coming, NoCall
    <2>4. Playing => Playing'
      BY <2>1, <2>3 DEF Playing
    <2> QED
      BY <2>1, <2>2, <2>4 DEF SoundInv, Counting, Counted, NoCall
  <1>2. CASE StopCount \/ Tone \/ Beep \/ SetSoundData
    <2>1. doing[1] \in {"count", "tone", "beep", "data"} /\ tally' = tally
      BY <1>2 DEF StopCount, Tone, Beep, SetSoundData
    <2>2. ~Counted'
      BY <2>1 DEF SoundInv, Counting, Counted, NoCall
    <2>3. Numbers' /\ Off'
      BY <1>2 DEF StopCount, Tone, Beep, SetSoundData, SoundInv, Numbers, Off, NoCall
    <2> QED
      BY <2>2, <2>3 DEF SoundInv, Counting
  <1> QED
    BY <1>1, <1>2 DEF Returns

\* A pulse plays on, counts a ring, or turns the interrupt off after the last.
LEMMA PulseStep ==
    ASSUME SoundInv, NextPulse
    PROVE  SoundInv'
  <1> USE DEF SoundInv, Numbers, Off
  <1>1. CASE PulseSample
    <2>1. Numbers' /\ Off'
      BY <1>1 DEF PulseSample
    <2>2. /\ irq /\ count = 0 /\ idx < datasz /\ idx' = idx + 1
          /\ UNCHANGED <<irq, datasz, repeat, loop, count, doing, tally>>
      BY <1>1 DEF PulseSample
    <2>3. Counted => due' = IF idx' = datasz THEN due - 1 ELSE due
      BY <1>1 DEF PulseSample, Counted
    <2>4. Coming' = Coming /\ Coming \in Nat
      BY <2>2 DEF Coming
    <2>5. Counted /\ Playing => Playing'
      BY <2>2, <2>3, <2>4 DEF Playing
    <2> QED
      BY <2>1, <2>2, <2>5 DEF Counting, Counted
  <1>2. CASE PulseEnd
    <2>1. Left \in Nat /\ (repeat > 0 => Left = repeat - 1)
      BY DEF Left
    <2>2. Numbers' /\ Off'
      BY <1>2, <2>1 DEF PulseEnd
    <2>3. /\ irq /\ idx >= datasz /\ repeat' = Left
          /\ UNCHANGED <<datasz, loop, count, doing, due>>
      BY <1>2 DEF PulseEnd
    <2>4. CASE Counted /\ doing[1] # "add"
      <3>1. doing = NoCall /\ ~loop /\ Playing /\ count = 0 /\ datasz > 0 /\ tally' = tally
        BY <1>2, <2>3, <2>4 DEF Counting, PulseEnd
      <3>2. Coming = repeat /\ Coming' = Left
        BY <2>3, <3>1 DEF Coming, NoCall
      <3>3. idx = datasz /\ due = repeat - 1
        BY <2>3, <3>1, <3>2 DEF Playing
      <3>4. CASE Left > 0
        <4>1. idx' = 0 /\ irq'
          BY <1>2, <2>3, <3>4 DEF PulseEnd
        <4>2. repeat > 0
          BY <3>4 DEF Left
        <4>3. Playing'
          BY <2>1, <2>3, <3>1, <3>2, <3>3, <3>4, <4>1, <4>2 DEF Playing
        <4> QED
          BY <2>2, <2>3, <3>1, <4>1, <4>3 DEF Counting, NoCall
      <3>5. CASE ~(Left > 0)
        <4>1. ~irq'
          BY <1>2, <3>1, <3>5 DEF PulseEnd
        <4>2. due = IF tally = "asked" THEN 0 ELSE -1
          BY <2>1, <2>4, <3>1, <3>2, <3>3, <3>5 DEF Playing, Counted
        <4> QED
          BY <2>2, <2>3, <3>1, <4>1, <4>2 DEF Counting, NoCall
      <3> QED
        BY <3>4, <3>5
    <2>5. CASE ~(Counted /\ doing[1] # "add")
      <3>1. ~Counted'
        BY <1>2, <2>5 DEF PulseEnd, Counted
      <3> QED
        BY <2>2, <3>1 DEF Counting
    <2> QED
      BY <2>4, <2>5
  <1>3. CASE PulseTone \/ PulseLast
    <2>1. count # 0 /\ tally' = tally
      BY <1>3 DEF PulseTone, PulseLast
    <2>2. ~Counted'
      BY <2>1 DEF Counting, Counted
    <2>3. Numbers'
      BY <1>3 DEF PulseTone, PulseLast
    <2>4. Off'
      BY <1>3 DEF PulseTone, PulseLast
    <2> QED
      BY <2>2, <2>3, <2>4 DEF Counting
  <1> QED
    BY <1>1, <1>2, <1>3 DEF NextPulse

\* The rings asked for by playOnce, when the sound starts and while it plays, are
\* played exactly, and one when none is asked for, whatever the size of the data
\* and wherever the interrupt comes, except that it ends no ring inside
\* playOnce's addition and that no other call comes in between.
THEOREM SoundRings == SoundSpec => []RingsCounted
  <1>1. SoundInit => SoundInv
    BY SoundInitial
  <1>2. SoundInv /\ [SoundNext]_sound => SoundInv'
    <2> SUFFICES ASSUME SoundInv, [SoundNext]_sound PROVE SoundInv'
      OBVIOUS
    <2>1. ASSUME NEW n \in Rings, PlayOnce(n) \/ PlayMore(n) PROVE SoundInv'
      BY <2>1, CallStep, SoundAssumption
    <2>2. CASE StartPlaying \/ StopPlaying \/ StopAtOnce \/ Restarted
      BY <2>2, CallStep, 0 \in Nat
    <2>3. ASSUME NEW n \in Pulses, Wait("tone", n) \/ Wait("beep", n) PROVE SoundInv'
      BY <2>3, CallStep, SoundAssumption
    <2>4. ASSUME NEW n \in DataSizes, Wait("data", n) PROVE SoundInv'
      BY <2>4, CallStep, SoundAssumption
    <2>5. CASE Returns
      BY <2>5, ReturnStep
    <2>6. CASE NextPulse
      BY <2>6, PulseStep
    <2>7. CASE UNCHANGED sound
      BY <2>7 DEF sound, SoundInv, Numbers, Off, Counting, Counted, Playing, Coming
    <2> QED
      BY <2>1, <2>2, <2>3, <2>4, <2>5, <2>6, <2>7 DEF SoundNext
  <1>3. SoundInv => RingsCounted
    <2> SUFFICES ASSUME SoundInv PROVE RingsCounted
      OBVIOUS
    <2>1. Coming \in Nat /\ due \in Int
      BY DEF Coming, SoundInv, Numbers
    <2>2. CASE irq
      BY <2>1, <2>2 DEF SoundInv, Counting, Counted, Playing, RingsCounted
    <2>3. CASE ~irq
      BY <2>3 DEF SoundInv, Counting, Counted, RingsCounted
    <2> QED
      BY <2>2, <2>3
  <1> QED
    BY <1>1, <1>2, <1>3, PTL DEF SoundSpec

\* What a call that waits, or was interrupted, has still to assign.
Waits ==
    /\ doing[1] = "add" => doing[2] \in 0..(RepeatWrap - 1)
    /\ doing[1] = "data" => doing[2] \in DataSizes
    /\ doing[1] \in {"tone", "beep"} => doing[2] \in Nat

\* The types of sound: its numbers, with those that a call assigns, and its flags.
SoundNumbers ==
    /\ datasz \in DataSizes \cup {0} /\ repeat \in 0..(RepeatWrap - 1)
    /\ idx \in Nat /\ count \in Nat
    /\ Waits
SoundFlags == irq \in BOOLEAN /\ loop \in BOOLEAN /\ sine \in BOOLEAN

\* Every call and every pulse keep the numbers: repeat_ stays in its 8 bits.
LEMMA SoundNumbersStep ==
    ASSUME SoundNumbers, [SoundNext]_sound
    PROVE  SoundNumbers'
  <1> USE SoundAssumption DEF SoundNumbers, Waits, NoCall
  <1>1. ASSUME NEW n \in Rings, PlayOnce(n) PROVE SoundNumbers'
    BY <1>1 DEF PlayOnce
  <1>2. ASSUME NEW n \in Rings, PlayMore(n) PROVE SoundNumbers'
    BY <1>2 DEF PlayMore
  <1>3. CASE StartPlaying
    BY <1>3 DEF StartPlaying
  <1>4. CASE StopPlaying \/ StopAtOnce
    <2>1. repeat' = 0 /\ idx' \in {idx, datasz} /\ UNCHANGED <<datasz, count>>
      BY <1>4 DEF StopPlaying, StopAtOnce, Stopped
    <2>2. doing' \in {NoCall, <<"count", 0>>}
      BY <1>4 DEF StopPlaying, StopAtOnce
    <2> QED
      BY <2>1, <2>2
  <1>5. ASSUME NEW n \in Pulses, NEW what \in {"tone", "beep"}, Wait(what, n) PROVE SoundNumbers'
    BY <1>5 DEF Wait, Stopped
  <1>6. ASSUME NEW n \in DataSizes, Wait("data", n) PROVE SoundNumbers'
    BY <1>6 DEF Wait, Stopped
  <1>7. CASE Restarted
    BY <1>7 DEF Restarted
  <1>8. CASE Returns
    <2>1. CASE PlayAdd
      BY <2>1 DEF PlayAdd
    <2>2. CASE StopCount
      BY <2>2 DEF StopCount
    <2>3. CASE Tone
      BY <2>3 DEF Tone
    <2>4. CASE Beep
      BY <2>4 DEF Beep
    <2>5. CASE SetSoundData
      BY <2>5 DEF SetSoundData
    <2> QED
      BY <1>8, <2>1, <2>2, <2>3, <2>4, <2>5 DEF Returns
  <1>9. CASE NextPulse
    <2>1. CASE PulseSample
      BY <2>1 DEF PulseSample
    <2>2. CASE PulseEnd
      <3>1. repeat' \in 0..(RepeatWrap - 1)
        BY <2>2 DEF PulseEnd, Left
      <3>2. idx' \in {0, idx} /\ UNCHANGED <<datasz, count, doing>>
        BY <2>2 DEF PulseEnd
      <3> QED
        BY <3>1, <3>2
    <2>3. CASE PulseTone
      BY <2>3 DEF PulseTone
    <2>4. CASE PulseLast
      BY <2>4 DEF PulseLast
    <2> QED
      BY <1>9, <2>1, <2>2, <2>3, <2>4 DEF NextPulse
  <1>10. CASE UNCHANGED sound
    BY <1>10 DEF sound
  <1> QED
    BY <1>1, <1>2, <1>3, <1>4, <1>5, <1>6, <1>7, <1>8, <1>9, <1>10 DEF SoundNext

\* So do they keep the flags.
LEMMA SoundFlagsStep ==
    ASSUME SoundFlags, [SoundNext]_sound
    PROVE  SoundFlags'
  <1> USE DEF SoundFlags
  <1>1. ASSUME NEW n \in Rings, PlayOnce(n) \/ PlayMore(n) PROVE SoundFlags'
    BY <1>1, Zenon DEF PlayOnce, PlayMore
  <1>2. CASE StartPlaying \/ StopPlaying \/ StopAtOnce \/ Restarted
    BY <1>2, Zenon DEF StartPlaying, StopPlaying, StopAtOnce, Restarted, Stopped
  <1>3. ASSUME NEW n, NEW what, Wait(what, n) PROVE SoundFlags'
    BY <1>3, Zenon DEF Wait, Stopped
  <1>4. CASE Returns
    BY <1>4, Zenon DEF Returns, PlayAdd, StopCount, Tone, Beep, SetSoundData
  <1>5. CASE NextPulse
    BY <1>5, Zenon DEF NextPulse, PulseSample, PulseEnd, PulseTone, PulseLast
  <1>6. CASE UNCHANGED sound
    BY <1>6 DEF sound
  <1> QED
    BY <1>1, <1>2, <1>3, <1>4, <1>5, <1>6 DEF SoundNext

\* Every call and every pulse keep the types of sound.
THEOREM SoundType == SoundSpec => []SoundTypeOK
  <1>1. SoundInit => SoundNumbers
    BY SoundAssumption DEF SoundInit, SoundNumbers, Waits, NoCall
  <1>2. SoundInit => SoundFlags
    BY Zenon DEF SoundInit, SoundFlags
  <1>3. SoundNumbers /\ SoundFlags => SoundTypeOK
    BY Zenon DEF SoundNumbers, SoundFlags, SoundTypeOK
  <1> QED
    BY <1>1, <1>2, <1>3, SoundNumbersStep, SoundFlagsStep, PTL DEF SoundSpec

-----------------------------------------------------------------------------
(* The DHCP server *)

\* What is left of a lease by the counter and the server's rounding.
Remaining(i) == (expiry[i] * Grain + Grain - 1 - ticks) % Wrap

\* A remainder of e, n ticks later: it wraps below zero.
Ago(e, n) == IF e >= n THEN e - n ELSE Wrap + e - n

\* A lease in use is in the table, and its expiry comes no sooner than it ends and
\* less than the rounding later.
Covered == \A m \in Macs, i \in Slots :
    held[m][i] > 0 => mac[i] = m /\ Remaining(i) - held[m][i] \in 0..(Grain - 1)

\* A lease that ran out is as far past its expiry as it was not used.
RanOut == \A i \in Slots :
    mac[i] # NoMac /\ ~InUse(i) /\ stale[i] < Wrap \div 2
        => \E e \in 0..(Grain - 1) : Remaining(i) = Ago(e, stale[i])

DhcpInv == DhcpTypeOK /\ Covered /\ RanOut

\* The constants as the proofs use them: half the counter is a whole number.
LEMMA TickNumbers ==
    /\ Wrap \in Nat \ {0} /\ Grain \in Nat \ {0} /\ Lease \in Nat \ {0}
    /\ Wrap \div 2 \in Nat /\ Lease + Grain < Wrap \div 2
    /\ Wrap = 2 * (Wrap \div 2)
    /\ Wrap \div Grain \in Nat /\ Wrap = Grain * (Wrap \div Grain)
  <1>1. Wrap \in Nat \ {0} /\ Grain \in Nat \ {0} /\ Lease \in Nat \ {0}
    BY TicksAssumption
  <1>2. 2 * (Lease + Grain) < Wrap /\ Wrap % (2 * Grain) = 0
    BY TicksAssumption
  <1>3. PICK k \in Int : Wrap = (2 * Grain) * k
    BY <1>1, <1>2
  <1>4. Wrap \div 2 = Grain * k /\ Wrap = 2 * (Grain * k)
    BY <1>1, <1>3
  <1>5. Wrap \div Grain = 2 * k /\ Wrap = Grain * (2 * k)
    BY <1>1, <1>3
  <1> QED
    BY <1>1, <1>2, <1>4, <1>5

\* The difference of two values of the counter, as an unsigned number.
LEMMA Difference ==
    ASSUME NEW W \in Nat \ {0}, NEW a \in 0..(W - 1), NEW b \in 0..(W - 1)
    PROVE  (a - b) % W = IF a >= b THEN a - b ELSE W + a - b
  <1>1. CASE a >= b
    BY <1>1
  <1>2. CASE a < b
    <2>1. (a - b) + W \in 0..(W - 1)
      BY <1>2
    <2>2. (a - b) % W = W + a - b
      BY <1>2, <2>1
    <2> QED
      BY <1>2, <2>2
  <1> QED
    BY <1>1, <1>2

\* The next value of the counter.
LEMMA Advance ==
    ASSUME NEW W \in Nat \ {0}, NEW t \in 0..(W - 1)
    PROVE  (t + 1) % W = IF t = W - 1 THEN 0 ELSE t + 1
  OBVIOUS

\* A time with its low half set is in the counter's range, and at most the rounding
\* above the time it stands for.
LEMMA Rounded ==
    ASSUME NEW x \in 0..(Wrap - 1)
    PROVE  /\ x \div Grain \in 0..(Wrap \div Grain - 1)
           /\ (x \div Grain) * Grain + Grain - 1 - x \in 0..(Grain - 1)
  <1>1. x \div Grain \in Nat /\ x = Grain * (x \div Grain) + (x % Grain) /\ x % Grain \in 0..(Grain - 1)
    BY TickNumbers
  <1> QED
    BY <1>1, TickNumbers

\* The end of a lease and the time, taken apart.
LEMMA Apart ==
    ASSUME NEW p \in Int, NEW g \in Int, NEW t \in Int
    PROVE  p + g - 1 - t = (p + g - 1) - t
  OBVIOUS

\* The distance from the time t to the end of a lease with expiry x, without the
\* remainder of a division.
LEMMA Distance ==
    ASSUME NEW x \in 0..(Wrap \div Grain - 1), NEW t \in 0..(Wrap - 1)
    PROVE  LET e == x * Grain + Grain - 1
           IN  /\ e \in 0..(Wrap - 1)
               /\ (x * Grain + Grain - 1 - t) % Wrap = IF e >= t THEN e - t ELSE Wrap + e - t
  <1> DEFINE e == x * Grain + Grain - 1
  <1>1. e \in 0..(Wrap - 1)
    <2>1. x * Grain <= (Wrap \div Grain - 1) * Grain
      BY TickNumbers
    <2>2. x * Grain \in Nat
      BY TickNumbers
    <2>3. (Wrap \div Grain - 1) * Grain = Wrap - Grain
      BY TickNumbers
    <2> QED
      BY <2>1, <2>2, <2>3, TickNumbers
  <1>2. x * Grain + Grain - 1 - t = e - t
    BY TickNumbers, Apart
  <1> HIDE DEF e
  <1>3. (e - t) % Wrap = IF e >= t THEN e - t ELSE Wrap + e - t
    BY <1>1, TickNumbers, Difference
  <1> QED
    BY <1>1, <1>2, <1>3 DEF e

\* A tick takes one from what is left of every lease, around the counter.
LEMMA RemainingTicks ==
    ASSUME DhcpTypeOK, UNCHANGED expiry, ticks' = (ticks + 1) % Wrap, NEW i \in Slots
    PROVE  /\ Remaining(i) \in 0..(Wrap - 1)
           /\ Remaining(i)' = IF Remaining(i) = 0 THEN Wrap - 1 ELSE Remaining(i) - 1
  <1> DEFINE e == expiry[i] * Grain + Grain - 1
  <1>1. expiry[i] \in 0..(Wrap \div Grain - 1) /\ ticks \in 0..(Wrap - 1)
    BY DEF DhcpTypeOK
  <1>2. ticks' = IF ticks = Wrap - 1 THEN 0 ELSE ticks + 1
    BY <1>1, TickNumbers, Advance
  <1>3. ticks' \in 0..(Wrap - 1)
    BY <1>1, <1>2, TickNumbers
  <1>4. /\ e \in 0..(Wrap - 1)
        /\ Remaining(i) = IF e >= ticks THEN e - ticks ELSE Wrap + e - ticks
    BY <1>1, Distance DEF Remaining
  <1>5. Remaining(i)' = IF e >= ticks' THEN e - ticks' ELSE Wrap + e - ticks'
    BY <1>1, <1>3, Distance DEF Remaining
  <1> HIDE DEF e
  <1> QED
    BY <1>1, <1>2, <1>4, <1>5, TickNumbers

\* A lease acknowledged now has its whole time left, and less than the rounding more.
LEMMA NewLease ==
    ASSUME ticks \in 0..(Wrap - 1)
    PROVE  /\ NewExpiry \in 0..(Wrap \div Grain - 1)
           /\ ((NewExpiry * Grain + Grain - 1 - ticks) % Wrap) - Lease \in 0..(Grain - 1)
  <1> DEFINE x == (ticks + Lease) % Wrap
             e == NewExpiry * Grain + Grain - 1
  <1>1. x = (IF ticks + Lease >= Wrap THEN ticks + Lease - Wrap ELSE ticks + Lease)
    BY TickNumbers
  <1>2. x \in 0..(Wrap - 1)
    BY <1>1, TickNumbers
  <1>3. NewExpiry = x \div Grain
    BY DEF NewExpiry
  <1> HIDE DEF x
  <1>4. NewExpiry \in 0..(Wrap \div Grain - 1) /\ e - x \in 0..(Grain - 1)
    <2>1. /\ x \div Grain \in 0..(Wrap \div Grain - 1)
          /\ (x \div Grain) * Grain + Grain - 1 - x \in 0..(Grain - 1)
      BY <1>2, Rounded
    <2>2. (x \div Grain) * Grain + Grain - 1 - x = e - x
      BY <1>2, <1>3, <2>1, TickNumbers, Apart
    <2> QED
      BY <1>3, <2>1, <2>2
  <1>5. /\ e \in 0..(Wrap - 1)
        /\ (NewExpiry * Grain + Grain - 1 - ticks) % Wrap
              = IF e >= ticks THEN e - ticks ELSE Wrap + e - ticks
    BY <1>4, Distance
  <1> HIDE DEF e
  <1> QED
    BY <1>1, <1>2, <1>4, <1>5, TickNumbers

\* A lease in use is not expired.
LEMMA NotExpired ==
    ASSUME DhcpInv, NEW m \in Macs, NEW i \in Slots, held[m][i] > 0
    PROVE  ~Expired(i)
  <1>1. held[m][i] \in 0..Lease
    BY DEF DhcpInv, DhcpTypeOK
  <1>2. Remaining(i) - held[m][i] \in 0..(Grain - 1)
    BY DEF DhcpInv, Covered
  <1>3. Remaining(i) \in Int
    BY TickNumbers DEF DhcpInv, DhcpTypeOK, Remaining
  <1>4. ~(Remaining(i) >= Wrap \div 2)
    BY <1>1, <1>2, <1>3, TickNumbers
  <1> QED
    BY <1>4 DEF Expired, Remaining

\* Every step keeps the types: an expiry fits its 16 bits.
LEMMA DhcpTypeStep ==
    ASSUME DhcpTypeOK, [DhcpNext]_dhcp
    PROVE  DhcpTypeOK'
  <1> USE TickNumbers
  <1>1. ASSUME NEW m \in Macs, Discover(m) PROVE DhcpTypeOK'
    BY <1>1 DEF Discover, DhcpTypeOK
  <1>2. ASSUME NEW m \in Macs, NEW i \in Slots, Request(m, i) PROVE DhcpTypeOK'
    <2>1. NewExpiry \in 0..(Wrap \div Grain - 1)
      BY NewLease DEF DhcpTypeOK
    <2>2. 0 \in 0..(Wrap \div 2) /\ Lease \in 0..Lease
      OBVIOUS
    <2> QED
      BY <1>2, <2>1, <2>2 DEF Request, DhcpTypeOK
  <1>3. CASE Tick
    <2>1. ticks' \in 0..(Wrap - 1)
      BY <1>3 DEF Tick, DhcpTypeOK
    <2>2. held' \in [Macs -> [Slots -> 0..Lease]]
      <3>1. \A m \in Macs, i \in Slots : (IF held[m][i] > 0 THEN held[m][i] - 1 ELSE 0) \in 0..Lease
        BY DEF DhcpTypeOK
      <3> QED
        BY <1>3, <3>1 DEF Tick
    <2>3. stale' \in [Slots -> 0..(Wrap \div 2)]
      <3>1. \A i \in Slots :
              (IF InUse(i) THEN 0 ELSE IF stale[i] < Wrap \div 2 THEN stale[i] + 1 ELSE stale[i])
                \in 0..(Wrap \div 2)
        BY DEF DhcpTypeOK
      <3> QED
        BY <1>3, <3>1 DEF Tick
    <2> QED
      BY <1>3, <2>1, <2>2, <2>3 DEF Tick, DhcpTypeOK
  <1>4. CASE Restart
    <2>1. 0 \in 0..(Wrap \div Grain - 1)
      OBVIOUS
    <2> QED
      BY <1>4, <2>1 DEF Restart, DhcpTypeOK
  <1>5. CASE UNCHANGED dhcp
    BY <1>5 DEF dhcp, DhcpTypeOK
  <1> QED
    BY <1>1, <1>2, <1>3, <1>4, <1>5 DEF DhcpNext

\* DHCPDISCOVER wipes no lease in use.
LEMMA DiscoverKeeps ==
    ASSUME DhcpInv, NEW m \in Macs, Discover(m)
    PROVE  Covered' /\ RanOut'
  <1>1. UNCHANGED <<expiry, ticks, held, stale>>
    BY DEF Discover
  <1>2. \A i \in Slots : Remaining(i)' = Remaining(i) /\ InUse(i)' = InUse(i)
    BY <1>1 DEF Remaining, InUse
  <1>3. \A i \in Slots : mac'[i] = mac[i] \/ (mac'[i] = NoMac /\ Expired(i))
    BY DEF Discover
  <1>4. Covered'
    BY <1>1, <1>2, <1>3, NotExpired DEF DhcpInv, Covered
  <1>5. RanOut'
    BY <1>1, <1>2, <1>3 DEF DhcpInv, RanOut
  <1> QED
    BY <1>4, <1>5

\* An acknowledged request begins a lease that nobody else has.
LEMMA RequestKeeps ==
    ASSUME DhcpInv, NEW m \in Macs, NEW i \in Slots, Request(m, i)
    PROVE  Covered' /\ RanOut'
  <1> USE TickNumbers
  <1>1. /\ mac' = [mac EXCEPT ![i] = m] /\ expiry' = [expiry EXCEPT ![i] = NewExpiry]
        /\ held' = [held EXCEPT ![m][i] = Lease] /\ stale' = [stale EXCEPT ![i] = 0]
        /\ ticks' = ticks /\ mac[i] \in {m, NoMac}
    BY DEF Request, Granted
  <1>2. /\ mac \in [Slots -> Macs \cup {NoMac}] /\ held \in [Macs -> [Slots -> 0..Lease]]
        /\ ticks \in 0..(Wrap - 1)
        /\ expiry \in [Slots -> 0..(Wrap \div Grain - 1)] /\ stale \in [Slots -> 0..(Wrap \div 2)]
    BY DEF DhcpInv, DhcpTypeOK
  <1>3. Remaining(i)' - Lease \in 0..(Grain - 1)
    <2>1. expiry'[i] = NewExpiry
      BY <1>1, <1>2
    <2> QED
      BY <1>1, <1>2, <2>1, NewLease DEF Remaining
  <1>4. \A j \in Slots : j # i => Remaining(j)' = Remaining(j) /\ mac'[j] = mac[j] /\ stale'[j] = stale[j]
    BY <1>1, <1>2 DEF Remaining
  <1>5. \A n \in Macs, j \in Slots : n # m \/ j # i => held'[n][j] = held[n][j]
    BY <1>1, <1>2
  <1>6. held'[m][i] = Lease /\ mac'[i] = m
    BY <1>1, <1>2
  <1>7. ASSUME NEW n \in Macs, NEW j \in Slots, held'[n][j] > 0
        PROVE  mac'[j] = n /\ Remaining(j)' - held'[n][j] \in 0..(Grain - 1)
    <2>1. CASE j # i
      BY <1>4, <1>5, <1>7, <2>1 DEF DhcpInv, Covered
    <2>2. CASE j = i /\ n = m
      BY <1>3, <1>6, <2>2
    <2>3. CASE j = i /\ n # m
      <3>1. held[n][i] > 0
        BY <1>5, <1>7, <2>3
      <3>2. mac[i] = n
        BY <3>1 DEF DhcpInv, Covered
      <3> QED
        BY <1>1, <2>3, <3>2, MacsAssumption
    <2> QED
      BY <2>1, <2>2, <2>3
  <1>8. Covered'
    BY <1>7 DEF Covered
  <1>9. ASSUME NEW j \in Slots, mac'[j] # NoMac, ~InUse(j)', stale'[j] < Wrap \div 2
        PROVE  \E e \in 0..(Grain - 1) : Remaining(j)' = Ago(e, stale'[j])
    <2>1. j # i
      BY <1>6, <1>9 DEF InUse
    <2>2. ~InUse(j)
      BY <1>5, <1>9, <2>1 DEF InUse
    <2> QED
      BY <1>4, <1>9, <2>1, <2>2 DEF DhcpInv, RanOut
  <1>10. RanOut'
    BY <1>9 DEF RanOut, Ago
  <1> QED
    BY <1>8, <1>10

\* A tick takes one from a lease in use and from what is left of it.
LEMMA TickKeeps ==
    ASSUME DhcpInv, DhcpTypeOK', Tick
    PROVE  Covered' /\ RanOut'
  <1> USE TickNumbers
  <1>1. /\ held' = [m \in Macs |-> [i \in Slots |-> IF held[m][i] > 0 THEN held[m][i] - 1 ELSE 0]]
        /\ mac' = mac
        /\ stale' = [i \in Slots |-> IF InUse(i) THEN 0
                                     ELSE IF stale[i] < Wrap \div 2 THEN stale[i] + 1 ELSE stale[i]]
    BY DEF Tick
  <1>2. held \in [Macs -> [Slots -> 0..Lease]] /\ stale \in [Slots -> 0..(Wrap \div 2)]
    BY DEF DhcpInv, DhcpTypeOK
  <1>3. \A i \in Slots :
          /\ Remaining(i) \in 0..(Wrap - 1)
          /\ Remaining(i)' = IF Remaining(i) = 0 THEN Wrap - 1 ELSE Remaining(i) - 1
    BY RemainingTicks DEF DhcpInv, Tick
  <1>4. ASSUME NEW m \in Macs, NEW i \in Slots, held[m][i] > 0
        PROVE  /\ mac[i] = m /\ held'[m][i] = held[m][i] - 1
               /\ Remaining(i)' - held'[m][i] \in 0..(Grain - 1)
    <2>1. mac[i] = m /\ Remaining(i) - held[m][i] \in 0..(Grain - 1)
      BY <1>4 DEF DhcpInv, Covered
    <2>2. held'[m][i] = held[m][i] - 1 /\ held[m][i] \in 0..Lease
      BY <1>1, <1>2, <1>4
    <2>3. Remaining(i) \in 0..(Wrap - 1) /\ Remaining(i)' = IF Remaining(i) = 0 THEN Wrap - 1 ELSE Remaining(i) - 1
      BY <1>3
    <2> QED
      BY <1>4, <2>1, <2>2, <2>3
  <1>5. ASSUME NEW m \in Macs, NEW i \in Slots, held'[m][i] > 0
        PROVE  held[m][i] > 0
    BY <1>1, <1>5
  <1>6. Covered'
    BY <1>1, <1>4, <1>5 DEF Covered
  <1>7. ASSUME NEW i \in Slots, mac'[i] # NoMac, ~InUse(i)', stale'[i] < Wrap \div 2
        PROVE  \E e \in 0..(Grain - 1) : Remaining(i)' = Ago(e, stale'[i])
    <2>1. CASE InUse(i)
      <3>1. PICK m \in Macs : held[m][i] > 0
        BY <2>1 DEF InUse
      <3>2. held'[m][i] = held[m][i] - 1 /\ Remaining(i)' - held'[m][i] \in 0..(Grain - 1)
        BY <1>4, <3>1
      <3>3. ~(held'[m][i] > 0)
        BY <1>7 DEF InUse
      <3>4. held[m][i] \in 0..Lease
        BY <1>2
      <3>5. held'[m][i] = 0 /\ stale'[i] = 0
        BY <1>1, <2>1, <3>1, <3>2, <3>3, <3>4
      <3>6. Remaining(i)' \in Int
        BY <1>3
      <3>7. Remaining(i)' \in 0..(Grain - 1)
        BY <3>2, <3>5, <3>6
      <3> QED
        BY <3>5, <3>7 DEF Ago
    <2>2. CASE ~InUse(i)
      <3>1. stale[i] \in 0..(Wrap \div 2)
        BY <1>2
      <3>2. stale[i] < Wrap \div 2 /\ stale'[i] = stale[i] + 1
        BY <1>1, <1>7, <2>2, <3>1
      <3>3. PICK e \in 0..(Grain - 1) : Remaining(i) = Ago(e, stale[i])
        BY <1>1, <1>7, <2>2, <3>2 DEF DhcpInv, RanOut
      <3>4. Remaining(i)' = IF Remaining(i) = 0 THEN Wrap - 1 ELSE Remaining(i) - 1
        BY <1>3
      <3>5. Remaining(i)' = Ago(e, stale'[i])
        BY <3>1, <3>2, <3>3, <3>4 DEF Ago
      <3> QED
        BY <3>5
    <2> QED
      BY <2>1, <2>2
  <1>8. RanOut'
    BY <1>7 DEF RanOut, Ago
  <1> QED
    BY <1>6, <1>8

\* Every step of the server, of its clients and of time keeps the invariant.
LEMMA DhcpStep ==
    ASSUME DhcpInv, [DhcpNext]_dhcp
    PROVE  DhcpInv'
  <1>1. DhcpTypeOK'
    BY DhcpTypeStep DEF DhcpInv
  <1>2. ASSUME NEW m \in Macs, Discover(m) PROVE Covered' /\ RanOut'
    BY <1>2, DiscoverKeeps
  <1>3. ASSUME NEW m \in Macs, NEW i \in Slots, Request(m, i) PROVE Covered' /\ RanOut'
    BY <1>3, RequestKeeps
  <1>4. CASE Tick
    BY <1>1, <1>4, TickKeeps DEF DhcpInv
  <1>5. CASE Restart
    BY <1>1, <1>5 DEF Restart, DhcpInv, Covered, RanOut
  <1>6. CASE UNCHANGED dhcp
    <2>1. \A i \in Slots : Remaining(i)' = Remaining(i) /\ InUse(i)' = InUse(i)
      BY <1>6 DEF dhcp, Remaining, InUse
    <2> QED
      BY <1>1, <1>6, <2>1 DEF dhcp, DhcpInv, Covered, RanOut
  <1> QED
    BY <1>1, <1>2, <1>3, <1>4, <1>5, <1>6 DEF DhcpNext, DhcpInv

\* A new server has no leases.
LEMMA DhcpInitial == DhcpInit => DhcpInv
  <1> SUFFICES ASSUME DhcpInit PROVE DhcpInv
    OBVIOUS
  <1>1. 0 \in 0..(Wrap \div Grain - 1) /\ 0 \in 0..(Wrap - 1) /\ 0 \in 0..(Wrap \div 2) /\ 0 \in 0..Lease
    BY TickNumbers
  <1> QED
    BY <1>1 DEF DhcpInit, DhcpInv, DhcpTypeOK, Covered, RanOut

\* The invariant gives the properties of the leases.
LEMMA DhcpProperties == DhcpInv => DhcpTypeOK /\ LeaseKept /\ ExpiryNoticed
  <1> SUFFICES ASSUME DhcpInv PROVE DhcpTypeOK /\ LeaseKept /\ ExpiryNoticed
    OBVIOUS
  <1>1. ASSUME NEW i \in Slots, mac[i] # NoMac, ~InUse(i), stale[i] \in Grain..(Wrap \div 2 - 1)
        PROVE  Expired(i)
    <2>1. PICK e \in 0..(Grain - 1) : Remaining(i) = Ago(e, stale[i])
      BY <1>1, TickNumbers DEF DhcpInv, RanOut
    <2>2. Remaining(i) >= Wrap \div 2
      BY <1>1, <2>1, TickNumbers DEF Ago
    <2> QED
      BY <2>2 DEF Expired, Remaining
  <1> QED
    BY <1>1 DEF DhcpInv, Covered, LeaseKept, ExpiryNoticed

\* The DHCP server never takes a lease from a client that may still use it, nor grants
\* an address that another client may use, for any width of the counter, any rounding
\* of an expiry and any lease that is short enough for them (dhcp_server_process).
THEOREM DhcpKeepsLease == DhcpSpec => []LeaseKept
  BY DhcpInitial, DhcpStep, DhcpProperties, PTL DEF DhcpSpec

\* A lease that ran out is seen as expired from when the rounding of its expiry is
\* over until half the counter's range has passed, for all of these numbers.
THEOREM DhcpNotices == DhcpSpec => []ExpiryNoticed
  BY DhcpInitial, DhcpStep, DhcpProperties, PTL DEF DhcpSpec

\* Leases belong to clients or are free, and an expiry fits its 16 bits.
THEOREM DhcpType == DhcpSpec => []DhcpTypeOK
  BY DhcpInitial, DhcpStep, DhcpProperties, PTL DEF DhcpSpec

-----------------------------------------------------------------------------
(* The browser's socket *)

\* What the proof needs of the types.
Handles ==
    /\ ws \in Sockets \cup {NoSocket}
    /\ state \in [Sockets -> Live \cup {"closing", "failing", "closed"}]

\* A socket with an event still to come is the one in use.
LastOne == patient => \A s \in Sockets : state[s] # "closed" => s = ws

SocketInv == Handles /\ LastOne

\* close() leaves every socket a socket, and opens none.
LEMMA CloseKeeps ==
    ASSUME Handles
    PROVE  /\ Close \in [Sockets -> Live \cup {"closing", "failing", "closed"}]
           /\ \A s \in Sockets : state[s] = "closed" => Close[s] = "closed"
  BY DEF Handles, Close, Live

\* openWS keeps the invariant where there is nothing left of an older socket.
LEMMA OpenKeeps ==
    ASSUME SocketInv, OpenWS, UNCHANGED patient,
           patient => \A s \in Sockets : state[s] = "closed"
    PROVE  SocketInv'
  <1>1. PICK s \in Sockets : ws' = s /\ state' = [Close EXCEPT ![s] = "connecting"]
    BY DEF OpenWS
  <1>2. Handles'
    BY <1>1, CloseKeeps DEF SocketInv, Handles, Live
  <1>3. LastOne'
    BY <1>1, CloseKeeps DEF SocketInv, LastOne
  <1> QED
    BY <1>2, <1>3 DEF SocketInv

\* The page begins without a socket.
LEMMA SocketInitial == SocketInit => SocketInv
  BY DEF SocketInit, SocketInv, Handles, LastOne, Live

\* Calls, the timer and the events of the sockets keep the invariant.
LEMMA SocketStep ==
    ASSUME SocketInv, [SocketNext]_browser
    PROVE  SocketInv'
  <1>1. NoSocket \notin Sockets
    BY SocketAssumption DEF Sockets
  <1>2. patient /\ ws = NoSocket => \A s \in Sockets : state[s] = "closed"
    BY <1>1 DEF SocketInv, LastOne
  <1>3. CASE AppOpen
    BY <1>3, OpenKeeps DEF AppOpen
  <1>4. CASE Retry
    BY <1>4, <1>2, OpenKeeps DEF Retry
  <1>5. CASE AppClose \/ Hide
    <2>1. state' = Close /\ UNCHANGED <<ws, patient>>
      BY <1>5 DEF AppClose, Hide
    <2> QED
      BY <2>1, CloseKeeps DEF SocketInv, Handles, LastOne
  <1>6. CASE Show
    <2>1. CASE ws = NoSocket /\ OpenWS
      BY <1>6, <2>1, <1>2, OpenKeeps DEF Show
    <2>2. CASE UNCHANGED <<ws, state>>
      BY <1>6, <2>2 DEF Show, SocketInv, Handles, LastOne
    <2> QED
      BY <1>6, <2>1, <2>2 DEF Show
  <1>7. ASSUME NEW s \in Sockets, OnOpen(s) PROVE SocketInv'
    BY <1>7 DEF OnOpen, SocketInv, Handles, LastOne, Live
  <1>8. ASSUME NEW s \in Sockets, OnClose(s) PROVE SocketInv'
    BY <1>8 DEF OnClose, SocketInv, Handles, LastOne, Live
  <1>9. ASSUME NEW s \in Sockets, OnClosedEarly(s) \/ OnError(s) PROVE SocketInv'
    <2>1. Failed(s) /\ state[s] # "closed" /\ UNCHANGED patient
      BY <1>9 DEF OnClosedEarly, OnError, Live
    <2>2. Handles'
      BY <2>1, CloseKeeps DEF Failed, SocketInv, Handles
    <2>3. LastOne'
      BY <2>1, CloseKeeps DEF Failed, SocketInv, LastOne
    <2> QED
      BY <2>2, <2>3 DEF SocketInv
  <1>10. ASSUME NEW s \in Sockets, PeerCloses(s) PROVE SocketInv'
    BY <1>10 DEF PeerCloses, SocketInv, Handles, LastOne, Live
  <1>11. CASE UNCHANGED browser
    BY <1>11 DEF browser, SocketInv, Handles, LastOne
  <1> QED
    BY <1>3, <1>4, <1>5, <1>6, <1>7, <1>8, <1>9, <1>10, <1>11 DEF SocketNext

\* An application that opens a connection only where there is no socket never has
\* a live one besides the one in use, whatever order the events of openWS's sockets
\* come in, for any number of sockets, failures and calls.
THEOREM SocketOne == SocketSpec => []OneSocket
  <1>1. SocketInit => SocketInv
    BY SocketInitial
  <1>2. SocketInv /\ [SocketNext]_browser => SocketInv'
    BY SocketStep
  <1>3. SocketInv => OneSocket
    BY DEF SocketInv, LastOne, OneSocket, Live
  <1> QED
    BY <1>1, <1>2, <1>3, PTL DEF SocketSpec

\* The types of the page: its sockets and bounds, and its flags.
Bounds == Handles /\ fails \in 0..MaxFails /\ calls \in 0..MaxCalls
PageFlags ==
    /\ opened \in BOOLEAN /\ closed \in BOOLEAN /\ suspended \in BOOLEAN
    /\ retrying \in BOOLEAN /\ patient \in BOOLEAN

\* Every call, timer and event keep the flags of the page.
LEMMA PageFlagsStep ==
    ASSUME PageFlags, [SocketNext]_browser
    PROVE  PageFlags'
  <1> USE DEF PageFlags
  <1>1. CASE AppOpen \/ Retry \/ Show
    BY <1>1, Zenon DEF AppOpen, Retry, Show, OpenWS
  <1>2. CASE AppClose \/ Hide
    BY <1>2, Zenon DEF AppClose, Hide
  <1>3. ASSUME NEW s \in Sockets, OnOpen(s) \/ OnClose(s) PROVE PageFlags'
    BY <1>3, Zenon DEF OnOpen, OnClose, page
  <1>4. ASSUME NEW s \in Sockets, OnClosedEarly(s) \/ OnError(s) \/ PeerCloses(s) PROVE PageFlags'
    BY <1>4, Zenon DEF OnClosedEarly, OnError, PeerCloses, Failed, page
  <1>5. CASE UNCHANGED browser
    BY <1>5 DEF browser
  <1> QED
    BY <1>1, <1>2, <1>3, <1>4, <1>5 DEF SocketNext

\* So do they keep the sockets and the bounds.
LEMMA BoundsStep ==
    ASSUME Bounds, SocketInv, [SocketNext]_browser
    PROVE  Bounds'
  <1>1. Handles'
    BY SocketStep DEF SocketInv
  <1>2. fails \in 0..MaxFails /\ calls \in 0..MaxCalls
    BY DEF Bounds
  <1>3. fails' = fails \/ (fails > 0 /\ fails' = fails - 1)
    BY DEF SocketNext, AppOpen, AppClose, Retry, Hide, Show, OnOpen, OnClose, OnClosedEarly,
           OnError, PeerCloses, browser
  <1>4. calls' = calls \/ (calls > 0 /\ calls' = calls - 1)
    BY DEF SocketNext, AppOpen, AppClose, Retry, Hide, Show, OnOpen, OnClose, OnClosedEarly,
           OnError, PeerCloses, browser
  <1> QED
    BY <1>1, <1>2, <1>3, <1>4, SocketAssumption DEF Bounds

\* Every call, timer and event keep the types of the page.
THEOREM SocketType == SocketSpec => []SocketTypeOK
  <1>1. SocketInit => Bounds
    BY SocketAssumption, SocketInitial DEF SocketInit, Bounds, SocketInv
  <1>2. SocketInit => PageFlags
    BY Zenon DEF SocketInit, PageFlags
  <1>3. Bounds /\ PageFlags => SocketTypeOK
    BY Zenon DEF Bounds, Handles, PageFlags, SocketTypeOK
  <1> QED
    BY <1>1, <1>2, <1>3, SocketInitial, SocketStep, PageFlagsStep, BoundsStep, PTL DEF SocketSpec

-----------------------------------------------------------------------------
(* The parts together *)

\* Every behaviour of Parts is a behaviour of each of the parts, most of them one that
\* stays as it began: the runs on Parts check what the theorems on the parts state.
THEOREM PartsBehave ==
    Spec => ButtonSpec /\ LedSpec /\ SoundSpec /\ LogSpec /\ DhcpSpec /\ SocketSpec
  <1>1. Init => ButtonInit /\ LedInit /\ SoundInit /\ LogInit /\ DhcpInit /\ SocketInit
    BY DEF Init
  <1>2. [Next]_vars => [ButtonNext]_button /\ [LedNext]_led /\ [SoundNext]_sound
    BY DEF Next, vars
  <1>3. [Next]_vars => [LogNext]_log /\ [DhcpNext]_dhcp /\ [SocketNext]_browser
    BY DEF Next, vars
  <1> QED
    BY <1>1, <1>2, <1>3, PTL
    DEF Spec, ButtonSpec, LedSpec, SoundSpec, LogSpec, DhcpSpec, SocketSpec

\* Every part stays in its states, for all values of the constants.
THEOREM PartsType == Spec => []TypeOK
  <1>1. Init => part \in Names
    BY DEF Init
  <1>2. part \in Names /\ [Next]_vars => (part \in Names)'
    BY DEF Next, vars
  <1>3. /\ part \in Names
        /\ ButtonTypeOK /\ LedTypeOK /\ SoundTypeOK /\ LogTypeOK /\ DhcpTypeOK /\ SocketTypeOK
        => TypeOK
    BY DEF TypeOK
  <1> QED
    BY <1>1, <1>2, <1>3, PartsBehave, ButtonType, LedType, SoundType, LogType, DhcpType,
       SocketType, PTL DEF Spec

\* The safety properties of the button, sound, the leases and the browser's socket
\* hold together, and with a free alarm and a tmp.tmp that opens so do those of the
\* LED and the log file: what the run on Parts checks, for all values of the constants.
THEOREM PartsSafe ==
    Spec => /\ [](/\ NoEdgeLost /\ Alternates /\ Accounted
                  /\ RingsCounted /\ LeaseKept /\ ExpiryNoticed /\ OneSocket)
            /\ AddOutcomes = {TRUE} => []LedObeys
            /\ TmpOutcomes = {TRUE} => []TailKept
  BY PartsBehave, ButtonNoEdgeLost, ButtonAlternates, ButtonAccounted, SoundRings,
     DhcpKeepsLease, DhcpNotices, SocketOne, LedKeepsPromise, LogKeepsTail, PTL
=============================================================================
