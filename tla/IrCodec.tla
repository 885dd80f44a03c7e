------------------------------- MODULE IrCodec -------------------------------
(***************************************************************************)
(* The infrared protocols of ir/: what setMessageTimes of a transmitter    *)
(* makes of an address and a function code, and what decode of a receiver  *)
(* makes of the pulse times.  Marks (light) and spaces alternate, a mark   *)
(* first.  Times are multiples of the base pulse, which has Base units; a  *)
(* byte has Bits bits (8 in the code).                                     *)
(***************************************************************************)
EXTENDS Binary, Sequences, FiniteSetsExt

CONSTANTS
    Base,      \* NEC_, SAMSUNG_ or SONY_BASE_PULSE
    Bits,      \* bits of a byte
    AddrSize,  \* Sony: bits of the address
    CmdSize,   \* Sony: bits of the function code
    AnyAddr,   \* 0xffff: the receiver listens to every address
    None       \* -1: no alarm

ASSUME CodecAssumption ==
    /\ {Base, Bits, AddrSize, CmdSize} \subseteq Nat \ {0} /\ Base % 2 = 0
    /\ None \notin Nat

Protocols == {"nec", "samsung", "sony"}

\* compare_pulse with the band of half a base pulse that every caller uses.
ComparePulse(pulse, n) ==
    pulse > n * Base - Base \div 2 /\ pulse < n * Base + Base \div 2

\* Base pulses of the mark and of the space that begin a message.
SyncMark == [nec |-> 16, samsung |-> 8, sony |-> 4]
SyncSpace == [nec |-> 8, samsung |-> 8, sony |-> 1]

\* Values of NEC_MESSAGE_LEN, SAMSUNG_MESSAGE_LEN and Sony's n_pulse.
MessageLen(p) == IF p = "sony" THEN (AddrSize + CmdSize) * 2 + 1
                 ELSE 2 + 4 * Bits * 2 + 1

-----------------------------------------------------------------------------
Low(n) == n % Pow2[Bits]
High(n) == Low(n \div Pow2[Bits])
Complement(b) == Pow2[Bits] - 1 - b

\* The four bytes of a message: a long address takes two, and a short one is
\* followed by its complement (NEC) or by itself (Samsung).
NecBytes(addr, func) ==
    <<Low(addr), IF addr >= Pow2[Bits] THEN High(addr) ELSE Complement(Low(addr)),
      Low(func), Complement(Low(func))>>
SamsungBytes(addr, func) ==
    <<Low(addr), IF addr >= Pow2[Bits] THEN High(addr) ELSE Low(addr),
      Low(func), Complement(Low(func))>>

\* NEC_ and SAMSUNG_Transmitter::setMessageTimes: a bit is a mark and a space
\* of one or three base pulses, and a last mark ends the last space.
ByteTimes(p, bytes) ==
    [i \in 1..MessageLen(p) |->
        LET k == (i - 4) \div 2 IN
        Base * IF i = 1 THEN SyncMark[p]
               ELSE IF i = 2 THEN SyncSpace[p]
               ELSE IF i % 2 = 1 THEN 1
               ELSE IF BitOf(bytes[k \div Bits + 1], k % Bits) = 0 THEN 1 ELSE 3]

\* Sony_Transmitter::setMessageTimes: a bit is a space and a mark of one or
\* two base pulses, the function code first.
SonyTimes(addr, func) ==
    [i \in 1..MessageLen("sony") |->
        LET k == (i - 3) \div 2 IN
        Base * IF i = 1 THEN SyncMark["sony"]
               ELSE IF i % 2 = 0 THEN 1
               ELSE IF (IF k < CmdSize THEN BitOf(func, k) ELSE BitOf(addr, k - CmdSize)) = 0
                    THEN 1 ELSE 2]

MessageTimes(p, addr, func) ==
    CASE p = "sony" -> SonyTimes(addr, func)
      [] p = "nec" -> ByteTimes(p, NecBytes(addr, func))
      [] p = "samsung" -> ByteTimes(p, SamsungBytes(addr, func))

\* NEC_Transmitter::repeat
RepeatTimes == <<16 * Base, 4 * Base, Base>>

-----------------------------------------------------------------------------
Failed == [ok |-> FALSE, addr |-> 0, func |-> 0]

Accept(addr, func, ok, address) ==
    [ok |-> ok /\ address \in {addr, AnyAddr}, addr |-> addr, func |-> func]

\* The address in the first two bytes.
NecAddress(b, c) == IF c = Complement(b) THEN b ELSE b + c * Pow2[Bits]
SamsungAddress(b, c) == IF c = b THEN b ELSE b + c * Pow2[Bits]

\* NEC_ and SAMSUNG_Receiver::decode of a whole message: a space longer than
\* two base pulses is a one.
DecodeBytes(p, pulses, address) ==
    LET byte(j) == Number({k \in 0..(Bits - 1) : pulses[4 + 2 * (j * Bits + k)] > 2 * Base},
                             Bits)
    IN Accept(IF p = "nec" THEN NecAddress(byte(0), byte(1)) ELSE SamsungAddress(byte(0), byte(1)),
              byte(2), byte(3) = Complement(byte(2)), address)

\* Sony_Receiver::decode of a whole message.  When a pulse is wrong the code
\* leaves part of the numbers behind, which nothing reads.
DecodeSony(pulses, address) ==
    LET one(k) == ComparePulse(pulses[3 + 2 * k], 2)
        good(k) == /\ ComparePulse(pulses[2 + 2 * k], 1)
                   /\ one(k) \/ ComparePulse(pulses[3 + 2 * k], 1)
    IN IF \A k \in 0..(AddrSize + CmdSize - 1) : good(k)
       THEN Accept(Number({k \in 0..(AddrSize - 1) : one(CmdSize + k)}, AddrSize),
                   Number({k \in 0..(CmdSize - 1) : one(k)}, CmdSize), TRUE, address)
       ELSE Failed

IsRepeat(pulses) ==
    /\ Len(pulses) >= 3 /\ ComparePulse(pulses[1], 16)
    /\ ComparePulse(pulses[2], 4) /\ ComparePulse(pulses[3], 1)

\* decode: a NEC repeat code is accepted with address and function zero.
Decode(p, pulses, address) ==
    IF p = "nec" /\ IsRepeat(pulses) THEN [Failed EXCEPT !.ok = TRUE]
    ELSE IF Len(pulses) < MessageLen(p) \/ ~ComparePulse(pulses[1], SyncMark[p]) THEN Failed
    ELSE IF p = "sony" THEN DecodeSony(pulses, address)
    ELSE IF ComparePulse(pulses[2], SyncSpace[p]) THEN DecodeBytes(p, pulses, address)
    ELSE Failed

-----------------------------------------------------------------------------
(* What a receiver is to make of a message                                  *)

\* The protocol can carry the address and the function code.
Fits(p, addr, func) ==
    IF p = "sony" THEN addr < Pow2[AddrSize] /\ func < Pow2[CmdSize]
    ELSE addr < Pow2[Bits] * Pow2[Bits] /\ func < Pow2[Bits]

\* Long addresses whose bytes are those of a short one, which they are taken
\* for: 0xfe01 for NEC, 0x0101 for Samsung.
Ambiguous(p, addr) == /\ addr >= Pow2[Bits]
                      /\ \/ p = "nec" /\ High(addr) = Complement(Low(addr))
                         \/ p = "samsung" /\ High(addr) = Low(addr)
HeardAddr(p, addr) == IF Ambiguous(p, addr) THEN Low(addr) ELSE addr
==============================================================================
