----------------------------- MODULE IrReceiver -----------------------------
(***************************************************************************)
(* An infrared receiver (ir/ir_receiver.cpp with the NEC, Samsung and Sony *)
(* classes): an IR_Receiver object and its interrupt routines as functions *)
(* from the object to its next state.                                      *)
(*                                                                         *)
(* msgLeft and bitLeft are the times until the alarms msg_timer_ and       *)
(* bit_timer_ fire, None when the timer is -1; permits is the count of the *)
(* semaphore.  heard notes the last callback made: the application's       *)
(* callbacks do not call the receiver.                                     *)
(***************************************************************************)
EXTENDS IrCodec

CONSTANTS
    MsgTimeout,  \* msg_timeout_, 0 for none
    BitTimeout,  \* bit_timeout_, 0 for none
    Address      \* address_: the address the receiver listens to

ASSUME TimeoutAssumption == MsgTimeout \in Nat /\ BitTimeout \in Nat

NoEvent == [kind |-> "none", addr |-> 0, func |-> 0]

ErrorEvent == [NoEvent EXCEPT !.kind = "error"]

NewReceiver == [sync |-> 0, pulses |-> <<>>, rptAddr |-> 0, rptFunc |-> 0,
                msgLeft |-> None, bitLeft |-> None, prev |-> 0,
                permits |-> 1, heard |-> NoEvent]

Event(r, kind) == [kind |-> kind, addr |-> r.rptAddr, func |-> r.rptFunc]

\* Mutant of Reset: the bit timer goes on.
ResetKeepsTimer(r) ==
    [r EXCEPT !.sync = 0, !.pulses = <<>>, !.msgLeft = None, !.permits = 1]
\* reset; sem_release stops at the one permit the semaphore may have.
\* prev_count_, which is dead until start_timeout, is forgotten here.
Reset(r) == [r EXCEPT !.sync = 0, !.pulses = <<>>, !.bitLeft = None,
                      !.msgLeft = None, !.prev = 0, !.permits = 1]

\* Mutant of StartMessageTimeout: the timer is not started.
StartMessageTimeoutNot(r) == r
\* start_message_timeout
StartMessageTimeout(r) ==
    IF MsgTimeout > 0 /\ r.msgLeft = None THEN [r EXCEPT !.msgLeft = MsgTimeout] ELSE r

\* start_timeout
StartTimeout(r) ==
    LET s == StartMessageTimeout(r) IN
    IF BitTimeout > 0 THEN [s EXCEPT !.prev = Len(r.pulses), !.bitLeft = BitTimeout] ELSE s

\* message_complete and message_error.  rpt_addr_ and rpt_func_ are written by
\* decode_message even when it fails.
MessageComplete(p, r) ==
    LET d == Decode(p, r.pulses, Address)
        s == [r EXCEPT !.rptAddr = d.addr, !.rptFunc = d.func]
    IN Reset([s EXCEPT !.heard = IF d.ok THEN Event(s, "msg") ELSE ErrorEvent])

\* check_sync and store_timestamp before, at and after the sync space: an edge
\* that ends a mark (falling) or a space of duration d.
WaitMark(p, r, d, falling) ==
    IF falling /\ ComparePulse(d, SyncMark[p])
    THEN StartTimeout([r EXCEPT !.sync = 1, !.pulses = <<d>>])
    ELSE [r EXCEPT !.pulses = <<>>]
WaitSpace(p, r, d, falling) ==
    IF ~falling /\ ComparePulse(d, SyncSpace[p])
    THEN [r EXCEPT !.sync = 2, !.pulses = Append(@, d)]
    ELSE IF p = "nec" /\ ~falling /\ ComparePulse(d, 4)
         THEN [Reset(r) EXCEPT !.heard = Event(r, "repeat")]
         ELSE Reset(r)
\* Mutant of Collect: the message ends one pulse late.
CollectLate(p, r, d) ==
    LET s == [r EXCEPT !.pulses = Append(@, d)] IN
    IF Len(s.pulses) > MessageLen(p) THEN MessageComplete(p, s) ELSE s
Collect(p, r, d) ==
    LET s == [r EXCEPT !.pulses = Append(@, d)] IN
    IF Len(s.pulses) = MessageLen(p) THEN MessageComplete(p, s) ELSE s

StoreTimestamp(p, r, d, falling) ==
    CASE r.sync = 0 -> WaitMark(p, r, d, falling)
      [] r.sync = 1 -> WaitSpace(p, r, d, falling)
      [] r.sync = 2 -> Collect(p, r, d)

\* timeout: without a callback ("error"), or with one that gives the message
\* up ("fail") or wants more of it ("keep").
Timeout(r, tmo) ==
    CASE tmo = "error" -> Reset([r EXCEPT !.heard = ErrorEvent])
      [] tmo = "fail" -> Reset(r)
      [] tmo = "keep" -> r

\* timeout_msg
TimeoutMsg(r, tmo) == [Timeout(r, tmo) EXCEPT !.msgLeft = None]

\* Mutant of Silent: check_bit_timeout is not asked.
SilentAny(r) == Len(r.pulses) = r.prev
\* No pulse since the bit timer last looked, and the sync space is over.
Silent(r) == Len(r.pulses) = r.prev /\ r.sync = 2

\* timeout_bit runs again and again while a message is being received.
TimeoutBit(r, tmo) ==
    LET again == [r EXCEPT !.prev = Len(r.pulses), !.bitLeft = BitTimeout]
    IN IF r.sync = 0 THEN [r EXCEPT !.bitLeft = None]
       ELSE IF Silent(r) /\ tmo # "keep" THEN Timeout(r, tmo)
       ELSE again
=============================================================================
