-------------------------------- MODULE IrLed --------------------------------
(***************************************************************************)
(* An infrared transmitter (ir/ir_led.cpp): an IR_LED object and its       *)
(* routines as functions from the object to its next state.  left is the   *)
(* time until the alarm timer_ fires, None when timer_ is -1.              *)
(***************************************************************************)
EXTENDS IrCodec

CONSTANTS
    Interval,   \* repeatInterval() of every protocol
    MinRepeats  \* minimum_repeats() of every protocol

ASSUME RepeatAssumption == Interval \in [Protocols -> Nat] /\ MinRepeats \in [Protocols -> Nat]

\* The lengths of the first i marks and spaces together, and of all of them.
Upto(times) ==
    LET sum[i \in 0..Len(times)] == IF i = 0 THEN 0 ELSE sum[i - 1] + times[i] IN sum
Sum(times) == Upto(times)[Len(times)]

NewLed == [times |-> <<>>, out |-> 0, left |-> None, repeat |-> 0, lit |-> FALSE]

\* stop
StopLed(l) == [l EXCEPT !.out = 0, !.left = None, !.repeat = 0, !.lit = FALSE]

\* setOutputTimes
SetOutputTimes(l, times) == [StopLed(l) EXCEPT !.times = times]

\* Mutant of Pause: the length of the message is not taken off.
PauseLong(p, l) == Interval[p]
\* The silence after a message, one unit short when it will be repeated: the
\* alarm that begins the repetition takes that unit.
Pause(p, l) == Max({1, Interval[p] - Sum(l.times) - (IF l.repeat > 0 THEN 1 ELSE 0)})

\* set_next: the next mark or space, the pause after the last, the start of a
\* repetition, or the end.
NextPulse(l) == [l EXCEPT !.lit = l.out % 2 = 0, !.left = l.times[l.out + 1], !.out = @ + 1]
SetNext(p, l) ==
    LET dark == [l EXCEPT !.lit = FALSE] IN
    IF l.out < Len(l.times) THEN NextPulse(l)
    ELSE IF l.out = Len(l.times) THEN [dark EXCEPT !.out = @ + 1, !.left = Pause(p, l)]
    ELSE IF l.repeat > 0 THEN [dark EXCEPT !.repeat = @ - 1, !.out = 0, !.left = 1]
    ELSE [dark EXCEPT !.left = None]

\* Mutant of StartLed: what was going on is not stopped.
StartLedOn(p, l, repeats) ==
    IF l.times = <<>> THEN l ELSE SetNext(p, [l EXCEPT !.repeat = repeats])
\* transmit with the repetitions of the protocol, repeat with none.
StartLed(p, l, repeats) ==
    IF l.times = <<>> THEN StopLed(l)
    ELSE SetNext(p, [StopLed(l) EXCEPT !.repeat = repeats])

Transmit(p, l) == StartLed(p, l, MinRepeats[p])

\* NEC_Transmitter::repeat replaces the times; the others send them again.
Repeat(p, l) == StartLed(p, IF p = "nec" THEN SetOutputTimes(l, RepeatTimes) ELSE l, 0)
==============================================================================
