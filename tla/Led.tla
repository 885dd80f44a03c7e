--------------------------------- MODULE Led ---------------------------------
(***************************************************************************)
(* An LED (util/led.cpp) that is steady or flashes a pattern from an       *)
(* alarm.  The alarm interrupts the calls of the application between any   *)
(* two of their steps.  A pattern is the set of the bits that are on; how  *)
(* long an alarm takes does not matter, only whether there is one.         *)
(***************************************************************************)
EXTENDS Integers

CONSTANTS
    FlashPeriods,   \* periods the application sets; 0 is none
    FlashBits,      \* sizes of the patterns
    AddOutcomes     \* whether add_alarm_in_ms finds a free alarm

ASSUME FlashAssumption == FlashPeriods \subseteq Nat /\ FlashBits \subseteq Nat \ {0}
ASSUME AddAssumption == AddOutcomes \subseteq BOOLEAN

VARIABLES
    lit,       \* get_led()
    period,    \* flash_period_
    pattern,   \* flash_pattern_
    bits,      \* flash_bits_
    index,     \* flash_index_
    flasher,   \* flasher_ is not -1: an alarm is set
    call,      \* the call under way and its argument
    promise    \* ghost: what the last call made of the LED

led == <<lit, period, pattern, bits, index, flasher, call, promise>>

Idle == <<"idle", 0>>
Steady == IF lit THEN "on" ELSE "off"

LedInit ==
    /\ lit \in BOOLEAN /\ period = 0 /\ pattern = {0} /\ bits = 2 /\ index = 0
    /\ flasher = FALSE /\ call = Idle /\ promise = Steady

-----------------------------------------------------------------------------
\* Mutant of SetState: flashing is not ended.
SetStateOnly(s) ==
    /\ call = Idle
    /\ call' = <<"state", s>> /\ promise' = "none"
    /\ UNCHANGED <<lit, period, pattern, bits, index, flasher>>
\* setState and the assignment of a state, in two steps.
SetState(s) ==
    /\ call = Idle
    /\ period' = 0
    /\ call' = <<"state", s>> /\ promise' = "none"
    /\ UNCHANGED <<lit, pattern, bits, index, flasher>>
SetLed ==
    /\ call[1] = "state"
    /\ lit' = call[2]
    /\ call' = Idle /\ promise' = IF lit' THEN "on" ELSE "off"
    /\ UNCHANGED <<period, pattern, bits, index, flasher>>

\* setFlash notes the period first.
SetFlash(p) ==
    /\ call = Idle
    /\ period' = p
    /\ call' = <<"flash", 0>> /\ promise' = "none"
    /\ UNCHANGED <<lit, pattern, bits, index, flasher>>

\* setFlashPattern, which ends in setFlash with the period as it is.
SetFlashPattern(pat, b) ==
    /\ call = Idle
    /\ pattern' = pat
    /\ call' = <<"bits", b>> /\ promise' = "none"
    /\ UNCHANGED <<lit, period, bits, index, flasher>>
SetBits ==
    /\ call[1] = "bits"
    /\ bits' = call[2]
    /\ call' = <<"flash", 0>>
    /\ UNCHANGED <<lit, period, pattern, index, flasher, promise>>

\* check_flash: a pattern that is all off or all on is a state.
Pattern == pattern \cap 0..(bits - 1)
CheckFlash == Pattern # {} /\ Pattern # 0..(bits - 1)

FlashIndex ==
    /\ call[1] = "flash"
    /\ index' = IF index >= bits THEN 0 ELSE index
    /\ lit' = IF CheckFlash THEN lit ELSE Pattern # {}
    /\ call' = <<"alarm", 0>>
    /\ UNCHANGED <<period, pattern, bits, flasher, promise>>

\* The alarm is set or cancelled, and setFlash returns.
FlashAlarm ==
    /\ call[1] = "alarm"
    /\ \/ /\ CheckFlash /\ period > bits
          /\ \E added \in AddOutcomes : flasher' = (flasher \/ added)
          /\ promise' = "flash"
       \/ /\ ~(CheckFlash /\ period > bits)
          /\ flasher' = FALSE
          /\ promise' = Steady
    /\ call' = Idle
    /\ UNCHANGED <<lit, period, pattern, bits, index>>

\* setFlashPeriod changes the speed and tests nothing.
SetFlashPeriod(p) ==
    /\ call = Idle
    /\ period' = p
    /\ promise' = IF promise = "flash" /\ p >= bits THEN "flash" ELSE "none"
    /\ UNCHANGED <<lit, pattern, bits, index, flasher, call>>

\* do_timer sets the alarm again.
Goes == period > 0 /\ period \div bits > 0

\* timer_cb and do_timer
DoTimer ==
    /\ flasher
    /\ \/ /\ period > 0
          /\ lit' = (index \in pattern)
          /\ index' = IF index + 1 >= bits THEN 0 ELSE index + 1
       \/ /\ period = 0
          /\ UNCHANGED <<lit, index>>
    /\ flasher' = Goes
    /\ UNCHANGED <<period, pattern, bits, call, promise>>

LedNext ==
    \/ \E s \in BOOLEAN : SetState(s)
    \/ SetLed
    \/ \E p \in FlashPeriods : SetFlash(p) \/ SetFlashPeriod(p)
    \/ \E b \in FlashBits : \E pat \in SUBSET (0..(b - 1)) : SetFlashPattern(pat, b)
    \/ SetBits \/ FlashIndex \/ FlashAlarm
    \/ DoTimer

LedSpec == LedInit /\ [][LedNext]_led

-----------------------------------------------------------------------------
(* Properties                                                               *)

LedTypeOK ==
    /\ lit \in BOOLEAN /\ flasher \in BOOLEAN
    /\ period \in FlashPeriods \cup {0}
    /\ bits \in FlashBits \cup {2} /\ index \in Nat
    /\ call[1] \in {"idle", "state", "flash", "bits", "alarm"}
    /\ promise \in {"none", "on", "off", "flash"}

\* What a call promised stays true until the next call, whatever the alarm does
\* in the middle of the calls or after them: when setFlash or setFlashPattern
\* returned true the LED flashes, and when they returned false, or after
\* setState, it keeps its state (led.h: "true if LED flashing, false if steady").
LedObeys ==
    /\ promise = "flash" => flasher /\ period \div bits > 0 /\ CheckFlash
    /\ promise = "on" => lit
    /\ promise = "off" => ~lit
=============================================================================
