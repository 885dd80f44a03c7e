-------------------------------- MODULE Sound --------------------------------
(***************************************************************************)
(* Sound output (util/sound.cpp): the application sets data, a tone or a   *)
(* beep playing, and the PWM interrupt plays one pulse at a time until it  *)
(* turns itself off.  Levels, volume, frequencies and times are left out:  *)
(* a pulse is a step of the position in the data or of the count of a      *)
(* tone.  The interrupt comes between any two steps of a call.             *)
(***************************************************************************)
EXTENDS Integers

CONSTANTS
    DataSizes,    \* sizes of the sound data
    Rings,        \* arguments of playOnce
    Pulses,       \* lengths of tones and beeps, in pulses
    RepeatWrap    \* 256: values of repeat_

ASSUME SoundAssumption ==
    /\ DataSizes \cup Rings \cup Pulses \subseteq Nat
    /\ RepeatWrap \in Nat \ {0} /\ Rings \subseteq 0..(RepeatWrap - 1)

VARIABLES
    irq,       \* irq_is_enabled(PWM_IRQ_WRAP)
    datasz,    \* datasz_
    idx,       \* idx_
    repeat,    \* repeat_
    loop,      \* loop_
    count,     \* count_
    sine,      \* tone_p_ is not 0
    doing,     \* where the application is in a call, with an argument
    tally,     \* ghost: whether playOnce alone decides how often the data is played
    due        \* ghost: rings that were asked for less rings played

sound == <<irq, datasz, idx, repeat, loop, count, sine, doing, tally, due>>

NoCall == <<"none", 0>>

\* Rings are counted from a playOnce that starts the sound: "asked" when some
\* were asked for, "zero" when none were so far, "raced" when the interrupt
\* ended a ring while playOnce was adding to repeat_, "off" after other calls.
Counted == tally \in {"asked", "zero"}
Uncounted == tally' = "off" /\ due' = 0

SoundInit ==
    /\ irq = FALSE /\ datasz \in DataSizes /\ idx = 0 /\ repeat = 0 /\ loop = FALSE
    /\ count = 0 /\ sine = FALSE
    /\ doing = NoCall /\ tally = "off" /\ due = 0

-----------------------------------------------------------------------------
\* playOnce when nothing plays, and the two steps of it when something does.
PlayOnce(n) ==
    /\ doing = NoCall /\ ~irq
    /\ idx' = 0 /\ repeat' = n /\ irq' = TRUE
    /\ IF datasz > 0 THEN tally' = (IF n > 0 THEN "asked" ELSE "zero") /\ due' = n
                     ELSE Uncounted
    /\ UNCHANGED <<datasz, loop, count, sine, doing>>
PlayMore(n) ==
    /\ doing = NoCall /\ irq /\ repeat < 8
    /\ doing' = <<"add", (repeat + n) % RepeatWrap>>
    /\ IF Counted /\ repeat + n < RepeatWrap
          THEN tally' = (IF n > 0 THEN "asked" ELSE tally) /\ due' = due + n
          ELSE Uncounted
    /\ UNCHANGED <<irq, datasz, idx, repeat, loop, count, sine>>
PlayAdd ==
    /\ doing[1] = "add"
    /\ repeat' = doing[2]
    /\ doing' = NoCall
    /\ UNCHANGED <<irq, datasz, idx, loop, count, sine, tally, due>>

\* startPlaying
StartPlaying ==
    /\ doing = NoCall
    /\ loop' = TRUE /\ irq' = TRUE
    /\ Uncounted
    /\ UNCHANGED <<datasz, idx, repeat, count, sine, doing>>

\* Mutant of Stopped: a loop goes on.
StoppedRepeat == repeat' = 0 /\ loop' = loop
\* stopPlaying, without its immediate part
Stopped == repeat' = 0 /\ loop' = FALSE

StopPlaying ==
    /\ doing = NoCall
    /\ Stopped
    /\ Uncounted
    /\ UNCHANGED <<irq, datasz, idx, count, sine, doing>>
StopAtOnce ==
    /\ doing = NoCall
    /\ Stopped /\ idx' = datasz
    /\ doing' = <<"count", 0>> /\ Uncounted
    /\ UNCHANGED <<irq, datasz, count, sine>>
StopCount ==
    /\ doing[1] = "count"
    /\ count' = 0
    /\ doing' = NoCall
    /\ UNCHANGED <<irq, datasz, idx, repeat, loop, sine, tally, due>>

\* tone, beep and setSoundData stop what plays and wait until it ends.
Wait(what, n) ==
    /\ doing = NoCall
    /\ Stopped
    /\ doing' = <<what, n>> /\ Uncounted
    /\ UNCHANGED <<irq, datasz, idx, count, sine>>

Tone ==
    /\ doing[1] = "tone" /\ ~irq
    /\ sine' = TRUE /\ count' = doing[2] /\ idx' = 0 /\ irq' = TRUE
    /\ doing' = NoCall
    /\ UNCHANGED <<datasz, repeat, loop, tally, due>>
Beep ==
    /\ doing[1] = "beep" /\ ~irq
    /\ count' = doing[2] /\ irq' = TRUE
    /\ doing' = NoCall
    /\ UNCHANGED <<datasz, idx, repeat, loop, sine, tally, due>>
SetSoundData ==
    /\ doing[1] = "data" /\ ~irq
    /\ datasz' = doing[2]
    /\ doing' = NoCall
    /\ UNCHANGED <<irq, idx, repeat, loop, count, sine, tally, due>>

\* stop, and a new object from get and start
Restarted ==
    /\ doing = NoCall
    /\ irq' = FALSE /\ datasz' = 0 /\ idx' = 0 /\ repeat' = 0 /\ loop' = FALSE
    /\ count' = 0 /\ sine' = FALSE
    /\ Uncounted
    /\ UNCHANGED doing

-----------------------------------------------------------------------------
(* next_pulse *)

\* A sample of the data.
PulseSample ==
    /\ irq /\ count = 0 /\ idx < datasz
    /\ idx' = idx + 1
    /\ due' = IF tally # "off" /\ idx' = datasz THEN due - 1 ELSE due
    /\ UNCHANGED <<irq, datasz, repeat, loop, count, sine, doing, tally>>

\* Mutant of Left: a ring is counted after the test.
LeftLate == repeat
Left == IF repeat > 0 THEN repeat - 1 ELSE 0

\* The data is at its end: once more, or off.
PulseEnd ==
    /\ irq /\ count = 0 /\ idx >= datasz
    /\ repeat' = Left
    /\ IF loop \/ Left > 0 THEN idx' = 0 /\ UNCHANGED irq
                           ELSE irq' = FALSE /\ UNCHANGED idx
    /\ tally' = IF Counted /\ doing[1] = "add" THEN "raced" ELSE tally
    /\ UNCHANGED <<datasz, loop, count, sine, doing, due>>

\* A pulse of a tone or a beep, and its last one.
PulseTone ==
    /\ irq /\ count > 1
    /\ count' = count - 1
    /\ idx' = IF sine THEN idx + 1 ELSE idx
    /\ UNCHANGED <<irq, datasz, repeat, loop, sine, doing, tally, due>>
PulseLast ==
    /\ irq /\ count = 1
    /\ count' = 0 /\ sine' = FALSE /\ idx' = 0
    /\ irq' = (loop \/ repeat > 0)
    /\ UNCHANGED <<datasz, repeat, loop, doing, tally, due>>

NextPulse == PulseSample \/ PulseEnd \/ PulseTone \/ PulseLast

Returns == PlayAdd \/ StopCount \/ Tone \/ Beep \/ SetSoundData

SoundNext ==
    \/ \E n \in Rings : PlayOnce(n) \/ PlayMore(n)
    \/ StartPlaying \/ StopPlaying \/ StopAtOnce
    \/ \E n \in Pulses \ {0} : Wait("tone", n)
    \/ \E n \in Pulses : Wait("beep", n)
    \/ \E n \in DataSizes : Wait("data", n)
    \/ Restarted
    \/ Returns
    \/ NextPulse

\* The interrupt comes while it is enabled, and the application goes on.
SoundFairness == WF_sound(NextPulse) /\ WF_sound(Returns)
SoundSpec == SoundInit /\ [][SoundNext]_sound /\ SoundFairness

-----------------------------------------------------------------------------
(* Properties                                                               *)

SoundTypeOK ==
    /\ {irq, loop, sine} \subseteq BOOLEAN
    /\ datasz \in DataSizes \cup {0} /\ repeat \in 0..(RepeatWrap - 1)
    /\ {idx, count} \subseteq Nat

\* A call that waits for the sound to end returns: whatever plays, stopPlaying
\* lets the interrupt turn itself off.
WaitEnds == doing # NoCall ~> doing = NoCall

\* The data is played as often as playOnce was told, by the call that started the
\* sound and by those that came while it played together, and once when that
\* was zero; unless another call came, or the interrupt ended a ring while
\* playOnce was adding to repeat_: then that count is lost and a ring is added, or
\* the sound is over and the rings asked for are lost ("raced").
RingsCounted ==
    /\ tally = "asked" => due >= 0 /\ (~irq => due = 0)
    /\ tally = "zero" => due \in {0, -1} /\ (~irq => due = -1)
=============================================================================
