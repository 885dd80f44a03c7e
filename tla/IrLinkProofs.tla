---------------------------- MODULE IrLinkProofs ----------------------------
(***************************************************************************)
(* Proofs about IrLink, for every protocol, message, timeout, delay and    *)
(* amount of interference: that decoding undoes encoding, the type         *)
(* invariant, that nothing is left behind by what is over, that all frames *)
(* of a message are sent and evenly, that a thread is woken only by a      *)
(* message that ended while it waited, and that the receiver hears every   *)
(* transmission that is fresh.                                             *)
(***************************************************************************)
EXTENDS IrLink, BinaryProofs

-----------------------------------------------------------------------------
(* Times                                                                    *)

\* setMessageTimes makes a message of at least five times.
LEMMA MessageTyped ==
    ASSUME NEW p \in Protocols, NEW addr \in Nat, NEW func \in Nat
    PROVE  /\ MessageTimes(p, addr, func) \in Seq(Nat)
           /\ Len(MessageTimes(p, addr, func)) = MessageLen(p)
           /\ MessageLen(p) \in Nat /\ MessageLen(p) >= 5
<1>1. MessageLen(p) \in Nat /\ MessageLen(p) >= 5
  <2>1. Bits \in Nat /\ AddrSize \in Nat /\ CmdSize \in Nat
        /\ Bits >= 1 /\ AddrSize >= 1 /\ CmdSize >= 1
    BY CodecAssumption
  <2>2. (AddrSize + CmdSize) * 2 + 1 \in Nat /\ (AddrSize + CmdSize) * 2 + 1 >= 5
    BY <2>1
  <2>3. 2 + 4 * Bits * 2 + 1 \in Nat /\ 2 + 4 * Bits * 2 + 1 >= 5
    BY <2>1
  <2> QED
    BY <2>2, <2>3 DEF MessageLen
<1>2. Base \in Nat /\ SyncMark[p] \in Nat /\ SyncSpace[p] \in Nat
  BY CodecAssumption DEF Protocols, SyncMark, SyncSpace
<1>3. ASSUME NEW bytes
      PROVE  ByteTimes(p, bytes) \in Seq(Nat) /\ Len(ByteTimes(p, bytes)) = MessageLen(p)
  BY <1>1, <1>2 DEF ByteTimes
<1>4. CASE p = "sony"
  <2>1. SonyTimes(addr, func) \in Seq(Nat) /\ Len(SonyTimes(addr, func)) = MessageLen(p)
    BY <1>1, <1>2, <1>4 DEF SonyTimes
  <2> QED
    BY <1>1, <1>4, <2>1 DEF MessageTimes
<1>5. CASE p # "sony"
  BY <1>1, <1>3, <1>5 DEF MessageTimes, Protocols
<1> QED
  BY <1>1, <1>4, <1>5

\* compare_pulse tells the multiples of the base pulse apart.
LEMMA Compare ==
    ASSUME NEW k \in 1..16, NEW n \in 1..16
    PROVE  ComparePulse(Base * k, n) <=> k = n
<1>1. Base \in Nat /\ Base > 0 /\ Base % 2 = 0
  BY CodecAssumption
<1> DEFINE h == Base \div 2
<1>2. h \in Nat /\ h > 0 /\ Base = 2 * h
  BY <1>1
<1>3. ComparePulse(Base * k, n) <=> (Base * k > n * Base - h /\ Base * k < n * Base + h)
  BY DEF ComparePulse
<1> HIDE DEF h
<1>4. CASE k = n
  BY <1>1, <1>2, <1>3, <1>4
<1>5. CASE k < n
  <2>1. n = k + (n - k) /\ n - k \in Nat /\ n - k >= 1
    BY <1>5
  <2> DEFINE d == n - k
  <2>2. d \in Nat /\ d >= 1 /\ n = k + d
    BY <2>1
  <2> HIDE DEF d
  <2>3. n * Base = Base * k + d * Base /\ d * Base >= Base
    BY <1>1, <2>2
  <2> QED
    BY <1>1, <1>2, <1>3, <1>5, <2>2, <2>3
<1>6. CASE k > n
  <2> DEFINE d == k - n
  <2>2. d \in Nat /\ d >= 1 /\ k = n + d
    BY <1>6
  <2> HIDE DEF d
  <2>3. Base * k = n * Base + d * Base /\ d * Base >= Base
    BY <1>1, <2>2
  <2> QED
    BY <1>1, <1>2, <1>3, <1>6, <2>2, <2>3
<1> QED
  BY <1>4, <1>5, <1>6

\* The times of a message: the sync mark and space, and one to three base pulses.
LEMMA TimesShape ==
    ASSUME NEW p \in Protocols, NEW addr \in Nat, NEW func \in Nat,
           NEW t, t = MessageTimes(p, addr, func)
    PROVE  /\ t[1] = Base * SyncMark[p] /\ t[2] = Base * SyncSpace[p]
           /\ \A i \in 3..MessageLen(p) : \E k \in 1..3 : t[i] = Base * k
<1>1. MessageLen(p) \in Nat /\ MessageLen(p) >= 5
  BY MessageTyped
<1>2. CASE p = "sony"
  <2>1. t = SonyTimes(addr, func)
    BY <1>2 DEF MessageTimes
  <2>2. t[1] = Base * SyncMark[p] /\ t[2] = Base * SyncSpace[p]
    BY <1>1, <1>2, <2>1 DEF SonyTimes, SyncSpace
  <2>3. ASSUME NEW i \in 3..MessageLen(p) PROVE t[i] \in {Base * 1, Base * 2}
    BY <1>1, <1>2, <2>1, <2>3 DEF SonyTimes
  <2> QED
    BY <2>2, <2>3
<1>3. CASE p # "sony"
  <2>1. PICK bytes : t = ByteTimes(p, bytes)
    BY <1>3 DEF MessageTimes, Protocols
  <2>2. t[1] = Base * SyncMark[p] /\ t[2] = Base * SyncSpace[p]
    BY <1>1, <2>1 DEF ByteTimes
  <2>3. ASSUME NEW i \in 3..MessageLen(p) PROVE t[i] \in {Base * 1, Base * 3}
    BY <1>1, <2>1, <2>3 DEF ByteTimes
  <2> QED
    BY <2>2, <2>3
<1> QED
  BY <1>2, <1>3

-----------------------------------------------------------------------------
(* Messages                                                                 *)

\* A byte of a message.
Byte == 0..(Pow2[Bits] - 1)

\* The parts of a message's address and their complements are bytes.
LEMMA ByteTyped ==
    /\ \A n \in Nat : Low(n) \in Byte /\ High(n) \in Byte
    /\ \A b \in Byte : Complement(b) \in Byte /\ Low(b) = b /\ b \in Nat
    /\ Pow2[Bits] \in Nat /\ Pow2[Bits] > 0
<1>1. Bits \in Nat /\ Pow2[Bits] \in Nat /\ Pow2[Bits] > 0
  BY CodecAssumption, Powers
<1> DEFINE P == Pow2[Bits]
<1> HIDE DEF P
<1>2. P \in Nat /\ P > 0
  BY <1>1 DEF P
<1>3. \A n \in Nat : n % P \in 0..(P - 1) /\ n \div P \in Nat
  BY <1>2, Division
<1>4. \A b \in 0..(P - 1) : b \in Nat /\ b < P /\ P - 1 - b \in 0..(P - 1)
  BY <1>2
<1>5. \A b \in 0..(P - 1) : b % P = b
  BY <1>2, <1>4, Division
<1> QED
  BY <1>2, <1>3, <1>4, <1>5 DEF P, Byte, Low, High, Complement

\* The ones of byte j in the times t.
Ones(t, j) == {k \in 0..(Bits - 1) : t[4 + 2 * (j * Bits + k)] > 2 * Base}

\* decode finds the four bytes that setMessageTimes was given (NEC and Samsung).
LEMMA BytesHeard ==
    ASSUME NEW p \in {"nec", "samsung"}, NEW bytes \in [1..4 -> Byte],
           NEW t, t = ByteTimes(p, bytes), NEW j \in 0..3
    PROVE  Number(Ones(t, j), Bits) = bytes[j + 1]
<1>1. Bits \in Nat /\ Bits > 0 /\ Base \in Nat /\ Base > 0
  BY CodecAssumption
<1>2. j + 1 \in 1..4 /\ bytes[j + 1] \in Byte
  OBVIOUS
<1>3. bytes[j + 1] \in Nat /\ bytes[j + 1] < Pow2[Bits]
  BY <1>2, ByteTyped DEF Byte
<1>4. MessageLen(p) = 2 + 8 * Bits + 1
  BY <1>1 DEF MessageLen
<1>5. ASSUME NEW k \in 0..(Bits - 1)
      PROVE  t[4 + 2 * (j * Bits + k)] > 2 * Base <=> BitOf(bytes[j + 1], k) = 1
  <2> DEFINE m == j * Bits + k
             i == 4 + 2 * m
  <2>1. m \in Nat /\ m <= 4 * Bits - 1
    <3>1. j * Bits <= 3 * Bits /\ j * Bits \in Nat
      BY <1>1
    <3> QED
      BY <1>1, <3>1
  <2>2. m \div Bits = j /\ m % Bits = k
    BY <1>1, <2>1, Division
  <2> HIDE DEF m
  <2>3. i \in 1..MessageLen(p) /\ i # 1 /\ i # 2 /\ i % 2 = 0 /\ (i - 4) \div 2 = m
    BY <1>1, <1>4, <2>1
  <2> HIDE DEF i
  <2>4. t[i] = Base * (IF BitOf(bytes[m \div Bits + 1], m % Bits) = 0 THEN 1 ELSE 3)
    BY <2>3 DEF ByteTimes
  <2>5. t[i] = Base * (IF BitOf(bytes[j + 1], k) = 0 THEN 1 ELSE 3)
    BY <2>2, <2>4
  <2>6. BitOf(bytes[j + 1], k) \in 0..1
    BY <1>1, <1>3, BitType
  <2>7. t[i] > 2 * Base <=> BitOf(bytes[j + 1], k) = 1
    BY <1>1, <2>5, <2>6
  <2> QED
    BY <2>7 DEF i, m
<1>6. \A k \in 0..(Bits - 1) : k \in Ones(t, j) <=> BitOf(bytes[j + 1], k) = 1
  BY <1>5 DEF Ones
<1> QED
  BY <1>1, <1>3, <1>6, NumberOfBits

\* decode of a message of four bytes.
LEMMA BytesDecoded ==
    ASSUME NEW p \in {"nec", "samsung"}, NEW bytes \in [1..4 -> Byte], NEW address
    PROVE  Decode(p, ByteTimes(p, bytes), address) =
             Accept(IF p = "nec" THEN NecAddress(bytes[1], bytes[2])
                    ELSE SamsungAddress(bytes[1], bytes[2]),
                    bytes[3], bytes[4] = Complement(bytes[3]), address)
<1> DEFINE t == ByteTimes(p, bytes)
           byte(j) == Number(Ones(t, j), Bits)
<1>1. MessageLen(p) \in Nat /\ MessageLen(p) >= 5
  BY MessageTyped, 0 \in Nat DEF Protocols
<1>2. t[1] = Base * SyncMark[p] /\ t[2] = Base * SyncSpace[p] /\ Len(t) = MessageLen(p)
  BY <1>1 DEF ByteTimes
<1>3. SyncMark[p] \in 1..16 /\ SyncSpace[p] = 8
  BY DEF SyncMark, SyncSpace
<1>4. ComparePulse(t[1], SyncMark[p]) /\ ComparePulse(t[2], SyncSpace[p]) /\ ~ComparePulse(t[2], 4)
  <2> HIDE DEF t
  <2> QED
    BY <1>2, <1>3, Compare
<1>5. byte(0) = bytes[1] /\ byte(1) = bytes[2] /\ byte(2) = bytes[3] /\ byte(3) = bytes[4]
  <2> HIDE DEF byte
  <2>1. ASSUME NEW j \in 0..3 PROVE byte(j) = bytes[j + 1]
    <3>1. t = ByteTimes(p, bytes)
      OBVIOUS
    <3> HIDE DEF t
    <3> QED
      BY <3>1, BytesHeard DEF byte
  <2>2. byte(0) = bytes[0 + 1] /\ byte(1) = bytes[1 + 1] /\ byte(2) = bytes[2 + 1] /\ byte(3) = bytes[3 + 1]
    BY <2>1
  <2> QED
    BY <2>2
<1>6. DecodeBytes(p, t, address) =
        Accept(IF p = "nec" THEN NecAddress(byte(0), byte(1)) ELSE SamsungAddress(byte(0), byte(1)),
               byte(2), byte(3) = Complement(byte(2)), address)
  BY DEF DecodeBytes, Ones
<1>7. Decode(p, t, address) = DecodeBytes(p, t, address)
  <2> HIDE DEF t
  <2>1. ~IsRepeat(t)
    BY <1>4 DEF IsRepeat
  <2>2. ~(Len(t) < MessageLen(p)) /\ p # "sony"
    BY <1>1, <1>2
  <2> QED
    BY <1>4, <2>1, <2>2 DEF Decode
<1> HIDE DEF t, byte
<1> QED
  BY <1>5, <1>6, <1>7 DEF t

\* decode of a Sony message: the function code and the address that
\* setMessageTimes was given.
LEMMA SonyDecoded ==
    ASSUME NEW addr \in Nat, NEW func \in Nat, Fits("sony", addr, func), NEW address
    PROVE  Decode("sony", SonyTimes(addr, func), address) = Accept(addr, func, TRUE, address)
<1> DEFINE t == SonyTimes(addr, func)
           one(k) == ComparePulse(t[3 + 2 * k], 2)
           good(k) == /\ ComparePulse(t[2 + 2 * k], 1)
                      /\ one(k) \/ ComparePulse(t[3 + 2 * k], 1)
           bit(k) == IF k < CmdSize THEN BitOf(func, k) ELSE BitOf(addr, k - CmdSize)
<1>1. AddrSize \in Nat /\ CmdSize \in Nat /\ AddrSize > 0 /\ CmdSize > 0
  BY CodecAssumption
<1>2. MessageLen("sony") = (AddrSize + CmdSize) * 2 + 1
  BY DEF MessageLen
<1>3. ASSUME NEW k \in 0..(AddrSize + CmdSize - 1)
      PROVE  good(k) /\ (one(k) <=> bit(k) = 1)
  <2>1. bit(k) \in 0..1
    <3>1. CASE k < CmdSize
      BY <3>1, BitType
    <3>2. CASE ~(k < CmdSize)
      <4>1. k - CmdSize \in Nat
        BY <1>1, <3>2
      <4> QED
        BY <3>2, <4>1, BitType
    <3> QED
      BY <3>1, <3>2
  <2>2. t[2 + 2 * k] = Base * 1
    <3> DEFINE i == 2 + 2 * k
    <3>1. i \in 1..MessageLen("sony") /\ i # 1 /\ i % 2 = 0
      BY <1>1, <1>2
    <3> HIDE DEF i
    <3>2. t[i] = Base * 1
      BY <3>1 DEF SonyTimes
    <3> QED
      BY <3>2 DEF i
  <2>3. t[3 + 2 * k] = Base * (IF bit(k) = 0 THEN 1 ELSE 2)
    <3> DEFINE i == 3 + 2 * k
    <3>1. i \in 1..MessageLen("sony") /\ i # 1 /\ i % 2 = 1 /\ (i - 3) \div 2 = k
      BY <1>1, <1>2
    <3> HIDE DEF i
    <3>2. t[i] = Base * (IF (IF k < CmdSize THEN BitOf(func, k) ELSE BitOf(addr, k - CmdSize)) = 0
                         THEN 1 ELSE 2)
      BY <3>1 DEF SonyTimes
    <3> QED
      BY <3>2 DEF i
  <2> HIDE DEF t, bit
  <2>4. CASE bit(k) = 0
    <3>1. t[3 + 2 * k] = Base * 1
      BY <2>3, <2>4
    <3> QED
      BY <2>2, <2>4, <3>1, Compare
  <2>5. CASE bit(k) = 1
    <3>1. t[3 + 2 * k] = Base * 2
      BY <2>3, <2>5
    <3> QED
      BY <2>2, <2>5, <3>1, Compare
  <2> QED
    BY <2>1, <2>4, <2>5
<1> DEFINE fs == {k \in 0..(CmdSize - 1) : one(k)}
           as == {k \in 0..(AddrSize - 1) : one(CmdSize + k)}
<1>4. Number(fs, CmdSize) = func
  <2>1. ASSUME NEW k \in 0..(CmdSize - 1) PROVE k \in fs <=> BitOf(func, k) = 1
    <3>1. k \in 0..(AddrSize + CmdSize - 1) /\ k < CmdSize
      BY <1>1
    <3>2. one(k) <=> BitOf(func, k) = 1
      <4> HIDE DEF one
      <4> QED
        BY <1>3, <3>1
    <3> HIDE DEF one
    <3> QED
      BY <3>2
  <2>2. func < Pow2[CmdSize]
    BY DEF Fits
  <2> HIDE DEF fs
  <2> QED
    BY <1>1, <2>1, <2>2, NumberOfBits
<1>5. Number(as, AddrSize) = addr
  <2>1. ASSUME NEW k \in 0..(AddrSize - 1) PROVE k \in as <=> BitOf(addr, k) = 1
    <3>1. CmdSize + k \in 0..(AddrSize + CmdSize - 1) /\ ~(CmdSize + k < CmdSize)
          /\ (CmdSize + k) - CmdSize = k
      BY <1>1
    <3>2. one(CmdSize + k) <=> BitOf(addr, k) = 1
      <4> HIDE DEF one
      <4>1. bit(CmdSize + k) = BitOf(addr, (CmdSize + k) - CmdSize)
        BY <3>1
      <4> HIDE DEF bit
      <4>2. one(CmdSize + k) <=> bit(CmdSize + k) = 1
        BY <1>3, <3>1
      <4> QED
        BY <3>1, <4>1, <4>2
    <3> HIDE DEF one
    <3> QED
      BY <3>2
  <2>2. addr < Pow2[AddrSize]
    BY DEF Fits
  <2> HIDE DEF as
  <2> QED
    BY <1>1, <2>1, <2>2, NumberOfBits
<1>6. DecodeSony(t, address) = Accept(Number(as, AddrSize), Number(fs, CmdSize), TRUE, address)
  <2>1. \A k \in 0..(AddrSize + CmdSize - 1) : good(k)
    BY <1>3
  <2> QED
    BY <2>1 DEF DecodeSony
<1>7. Decode("sony", t, address) = DecodeSony(t, address)
  <2>1. MessageLen("sony") \in Nat /\ MessageLen("sony") >= 5
    BY <1>1, <1>2
  <2>2. Len(t) = MessageLen("sony") /\ t[1] = Base * SyncMark["sony"]
    BY <2>1 DEF SonyTimes
  <2>3. SyncMark["sony"] \in 1..16
    BY DEF SyncMark
  <2> HIDE DEF t
  <2>4. ComparePulse(t[1], SyncMark["sony"])
    BY <2>2, <2>3, Compare
  <2>5. ~(Len(t) < MessageLen("sony"))
    BY <2>1, <2>2
  <2> QED
    BY <2>4, <2>5 DEF Decode
<1> HIDE DEF as, fs
<1> QED
  BY <1>4, <1>5, <1>6, <1>7

\* A receiver makes of a message of its protocol what was sent (decode after
\* setMessageTimes): the function code and the address, a long address that reads
\* as a short one excepted, for every number of bits, address and function code.
THEOREM DecodeUndoesEncode ==
    ASSUME NEW p \in Protocols, NEW addr \in Nat, NEW func \in Nat, Fits(p, addr, func),
           NEW address
    PROVE  Decode(p, MessageTimes(p, addr, func), address)
             = Accept(HeardAddr(p, addr), func, TRUE, address)
<1>1. CASE p = "sony"
  <2>1. HeardAddr(p, addr) = addr
    BY <1>1 DEF HeardAddr, Ambiguous
  <2> QED
    BY <1>1, <2>1, SonyDecoded DEF MessageTimes
<1> DEFINE P == Pow2[Bits]
<1>2. CASE p \in {"nec", "samsung"}
  <2>1. P \in Nat /\ P > 0 /\ func < P /\ addr < P * P
    BY <1>2, ByteTyped DEF Fits
  <2>2. /\ addr % P \in 0..(P - 1) /\ addr \div P \in Nat /\ addr = (addr \div P) * P + (addr % P)
        /\ addr \div P < P /\ (addr < P => addr % P = addr) /\ func % P = func
    <3> HIDE DEF P
    <3> QED
      BY <2>1, Division
  <2>3. (addr \div P) % P = addr \div P
    <3> HIDE DEF P
    <3> QED
      BY <2>1, <2>2, Division
  <2>4. Low(addr) = addr % P /\ High(addr) = addr \div P /\ Low(func) = func
    BY <2>2, <2>3 DEF Low, High
  <2>5. /\ Low(addr) \in Byte /\ High(addr) \in Byte /\ func \in Byte
        /\ Complement(Low(addr)) \in Byte /\ Complement(func) \in Byte
    BY <2>4, ByteTyped
  <2> DEFINE second == IF addr >= P THEN High(addr)
                       ELSE IF p = "nec" THEN Complement(Low(addr)) ELSE Low(addr)
             bytes == <<Low(addr), second, func, Complement(func)>>
  <2>6. MessageTimes(p, addr, func) = ByteTimes(p, bytes)
    BY <1>2, <2>4 DEF MessageTimes, NecBytes, SamsungBytes
  <2>7. second \in Byte
    BY <2>5
  <2> HIDE DEF second
  <2>8. bytes \in [1..4 -> Byte] /\ bytes[1] = Low(addr) /\ bytes[2] = second
        /\ bytes[3] = func /\ bytes[4] = Complement(func)
    BY <2>5, <2>7
  <2> HIDE DEF bytes
  <2>9. Decode(p, ByteTimes(p, bytes), address)
          = Accept(IF p = "nec" THEN NecAddress(Low(addr), second)
                   ELSE SamsungAddress(Low(addr), second), func, TRUE, address)
    <3>1. (bytes[4] = Complement(bytes[3])) <=> TRUE
      BY <2>8
    <3> QED
      BY <1>2, <2>8, <3>1, BytesDecoded
  <2>10. (IF p = "nec" THEN NecAddress(Low(addr), second) ELSE SamsungAddress(Low(addr), second))
           = HeardAddr(p, addr)
    <3>1. CASE addr >= P
      <4>1. second = High(addr) /\ Low(addr) + High(addr) * P = addr
        BY <2>1, <2>2, <2>4, <3>1 DEF second
      <4> QED
        BY <1>2, <3>1, <4>1 DEF NecAddress, SamsungAddress, HeardAddr, Ambiguous
    <3>2. CASE ~(addr >= P)
      <4>1. Low(addr) = addr
        BY <2>1, <2>2, <2>4, <3>2
      <4> QED
        BY <1>2, <3>2, <4>1 DEF NecAddress, SamsungAddress, HeardAddr, Ambiguous, second
    <3> QED
      BY <3>1, <3>2
  <2> QED
    BY <2>6, <2>9, <2>10
<1> QED
  BY <1>1, <1>2 DEF Protocols

-----------------------------------------------------------------------------

\* What an alarm has left: a time, or no alarm.
Time == Nat \cup {None}

-----------------------------------------------------------------------------
(* Numbers                                                                  *)

\* The smaller and the larger of two numbers.
LEMMA MinMax ==
    ASSUME NEW a \in Int, NEW b \in Int
    PROVE  /\ Min({a, b}) = IF a <= b THEN a ELSE b
           /\ Max({a, b}) = IF a >= b THEN a ELSE b
<1>1. ASSUME NEW c \in {a, b}, \A y \in {a, b} : c <= y PROVE Min({a, b}) = c
  BY <1>1 DEF Min
<1>2. ASSUME NEW c \in {a, b}, \A y \in {a, b} : c >= y PROVE Max({a, b}) = c
  BY <1>2 DEF Max
<1> QED
  BY <1>1, <1>2

\* The sums of a message's times, which set_next's loop computes: they begin with
\* nothing, each adds one time, and none is more than the whole.
LEMMA Sums ==
    ASSUME NEW t \in Seq(Nat)
    PROVE  /\ Upto(t) \in [0..Len(t) -> Nat]
           /\ Upto(t)[0] = 0
           /\ \A i \in 1..Len(t) : Upto(t)[i] = Upto(t)[i - 1] + t[i]
           /\ \A i \in 0..Len(t) : Upto(t)[i] <= Sum(t)
           /\ Sum(t) \in Nat
<1> DEFINE IsSum(g, n) == /\ g[0] = 0
                          /\ \A i \in 1..n : g[i] = g[i - 1] + t[i]
           Has(n) == \E g \in [0..n -> Nat] : IsSum(g, n)
           T == {n \in Nat : n <= Len(t) => Has(n)}
<1>1. Has(0)
  <2>1. [i \in 0..0 |-> 0] \in [0..0 -> Nat] /\ IsSum([i \in 0..0 |-> 0], 0)
    OBVIOUS
  <2> QED
    BY <2>1
<1>2. ASSUME NEW n \in Nat, n + 1 <= Len(t), Has(n) PROVE Has(n + 1)
  <2>1. PICK g \in [0..n -> Nat] : IsSum(g, n)
    BY <1>2
  <2> DEFINE h == [i \in 0..(n + 1) |-> IF i = n + 1 THEN g[n] + t[n + 1] ELSE g[i]]
  <2>2. t[n + 1] \in Nat /\ g[n] \in Nat
    BY <1>2
  <2>3. h \in [0..(n + 1) -> Nat]
    BY <2>2
  <2>4. ASSUME NEW i \in 1..(n + 1) PROVE h[i] = h[i - 1] + t[i]
    <3>1. CASE i = n + 1
      BY <2>2, <3>1
    <3>2. CASE i \in 1..n
      BY <2>1, <3>2
    <3> QED
      BY <3>1, <3>2
  <2>5. h[0] = 0
    BY <2>1
  <2> QED
    BY <2>3, <2>4, <2>5
<1>3. Has(Len(t))
  <2> HIDE DEF Has
  <2>1. T \subseteq Nat /\ 0 \in T
    BY <1>1
  <2>2. \A n \in T : n + 1 \in T
    BY <1>2
  <2>3. T = Nat
    <3> HIDE DEF T
    <3> QED
      BY <2>1, <2>2, SetInduction
  <2>4. Len(t) \in Nat
    OBVIOUS
  <2> QED
    BY <2>3, <2>4
<1>4. PICK g \in [0..Len(t) -> Nat] : IsSum(g, Len(t))
  BY <1>3
<1>5. g = [i \in 0..Len(t) |-> IF i = 0 THEN 0 ELSE g[i - 1] + t[i]]
  BY <1>4
<1>6. Upto(t) = [i \in 0..Len(t) |-> IF i = 0 THEN 0 ELSE Upto(t)[i - 1] + t[i]]
  <2> HIDE DEF IsSum
  <2> QED
    BY <1>5 DEF Upto
<1>7. \A i \in 0..Len(t) : Upto(t)[i] = g[i]
  <2> DEFINE V == {n \in Nat : n <= Len(t) => Upto(t)[n] = g[n]}
  <2>1. V \subseteq Nat /\ 0 \in V
    BY <1>4, <1>6
  <2>2. ASSUME NEW n \in V PROVE n + 1 \in V
    <3> SUFFICES ASSUME n + 1 <= Len(t) PROVE Upto(t)[n + 1] = g[n + 1]
      OBVIOUS
    <3>1. n \in Nat /\ Upto(t)[n] = g[n]
      OBVIOUS
    <3>2. n + 1 \in 1..Len(t) /\ (n + 1) - 1 = n
      BY <3>1
    <3> HIDE DEF V, IsSum
    <3>3. Upto(t)[n + 1] = Upto(t)[n] + t[n + 1]
      <4>1. ASSUME NEW u, u = [i \in 0..Len(t) |-> IF i = 0 THEN 0 ELSE u[i - 1] + t[i]]
            PROVE  u[n + 1] = u[n] + t[n + 1]
        <5> DEFINE w == [i \in 0..Len(t) |-> IF i = 0 THEN 0 ELSE u[i - 1] + t[i]]
        <5>1. w[n + 1] = u[n] + t[n + 1]
          BY <3>2
        <5>2. u = w
          BY <4>1
        <5> HIDE DEF w
        <5> QED
          BY <5>1, <5>2
      <4> QED
        BY <1>6, <4>1
    <3>4. g[n + 1] = g[n] + t[n + 1]
      BY <1>4, <3>2 DEF IsSum
    <3> QED
      BY <3>1, <3>3, <3>4
  <2>3. V = Nat
    <3> HIDE DEF V
    <3> QED
      BY <2>1, <2>2, SetInduction
  <2> QED
    BY <2>3
<1>8. Upto(t) = g
  BY <1>6, <1>7
<1>9. \A i \in 0..Len(t) : g[i] <= g[Len(t)]
  <2> DEFINE D == {n \in Nat : n <= Len(t) => g[Len(t) - n] <= g[Len(t)]}
  <2>1. D \subseteq Nat /\ 0 \in D
    OBVIOUS
  <2>2. ASSUME NEW n \in D PROVE n + 1 \in D
    <3> SUFFICES ASSUME n + 1 <= Len(t) PROVE g[Len(t) - (n + 1)] <= g[Len(t)]
      OBVIOUS
    <3>1. n \in Nat /\ g[Len(t) - n] <= g[Len(t)]
      OBVIOUS
    <3> DEFINE k == Len(t) - n
    <3>2. k \in 1..Len(t) /\ k - 1 \in 0..Len(t) /\ Len(t) - (n + 1) = k - 1
      BY <3>1
    <3> HIDE DEF D, k
    <3>3. g[k] = g[k - 1] + t[k] /\ t[k] \in Nat /\ g[k - 1] \in Nat /\ g[Len(t)] \in Nat
      BY <1>4, <3>2
    <3>4. g[k] <= g[Len(t)]
      BY <3>1 DEF k
    <3> QED
      BY <3>2, <3>3, <3>4
  <2>3. D = Nat
    <3> HIDE DEF D
    <3> QED
      BY <2>1, <2>2, SetInduction
  <2>4. ASSUME NEW i \in 0..Len(t) PROVE g[i] <= g[Len(t)]
    <3>1. Len(t) - i \in Nat /\ Len(t) - i <= Len(t) /\ Len(t) - (Len(t) - i) = i
      OBVIOUS
    <3>2. Len(t) - i \in D
      BY <2>3, <3>1
    <3> QED
      BY <3>1, <3>2
  <2> QED
    BY <2>4
<1> QED
  BY <1>4, <1>8, <1>9 DEF Sum

-----------------------------------------------------------------------------
(* The transmitter                                                          *)

LedRecord == [times : Seq(Nat), out : Nat, left : Time, repeat : Nat, lit : BOOLEAN]

\* A well-formed IR_LED of protocol p: out_index_ and repeat_ keep within what is
\* transmitted, and without an alarm, or before the first mark, the light is off.
LedOK(p, l) ==
    /\ l \in LedRecord
    /\ l.out <= Len(l.times) + 1 /\ l.repeat <= MinRepeats[p]
    /\ l.left = None \/ l.out = 0 => ~l.lit
    /\ l.left # None => l.times # <<>>

\* The transmissions that a transmitter will still make.
Owed(l) == IF l.left = None THEN 0
           ELSE l.repeat + (IF l.out <= Len(l.times) THEN 1 ELSE 0)

\* The pause after a message is a time, and with a repetition to come it is what
\* is left of the interval but for the unit that the repetition takes.
LEMMA PauseTime ==
    ASSUME NEW p \in Protocols, NEW l, LedOK(p, l)
    PROVE  /\ Pause(p, l) \in Nat
           /\ (l.repeat > 0 /\ Sum(l.times) + 2 <= Interval[p])
                => Pause(p, l) = Interval[p] - Sum(l.times) - 1
<1>1. l.times \in Seq(Nat) /\ l.repeat \in Nat
  BY DEF LedOK, LedRecord
<1>2. Sum(l.times) \in Nat /\ Interval[p] \in Nat
  BY <1>1, Sums, RepeatAssumption
<1> DEFINE rest == Interval[p] - Sum(l.times) - (IF l.repeat > 0 THEN 1 ELSE 0)
<1>3. rest \in Int
  BY <1>1, <1>2
<1>4. Pause(p, l) = IF 1 >= rest THEN 1 ELSE rest
  <2> HIDE DEF rest
  <2>1. Max({1, rest}) = IF 1 >= rest THEN 1 ELSE rest
    BY <1>3, MinMax
  <2> QED
    BY <2>1 DEF Pause, rest
<1> QED
  BY <1>1, <1>2, <1>3, <1>4

\* set_next takes a transmitter from one state to the next: into the next mark or
\* space, the pause, the repetition or the end.
LEMMA SetNextOK ==
    ASSUME NEW p \in Protocols, NEW l, LedOK(p, l), l.times # <<>>
    PROVE  /\ LedOK(p, SetNext(p, l))
           /\ l.out < Len(l.times) =>
                /\ SetNext(p, l) = [times |-> l.times, out |-> l.out + 1, left |-> l.times[l.out + 1],
                                    repeat |-> l.repeat, lit |-> (l.out % 2 = 0)]
                /\ l.times[l.out + 1] \in Nat
           /\ l.out = Len(l.times) =>
                /\ SetNext(p, l) = [times |-> l.times, out |-> l.out + 1, left |-> Pause(p, l),
                                    repeat |-> l.repeat, lit |-> FALSE]
                /\ Pause(p, l) \in Nat
           /\ (l.out > Len(l.times) /\ l.repeat > 0) =>
                SetNext(p, l) = [times |-> l.times, out |-> 0, left |-> 1,
                                 repeat |-> l.repeat - 1, lit |-> FALSE]
           /\ (l.out > Len(l.times) /\ l.repeat = 0) =>
                SetNext(p, l) = [times |-> l.times, out |-> l.out, left |-> None,
                                 repeat |-> 0, lit |-> FALSE]
<1> DEFINE n == SetNext(p, l)
<1>1. /\ Len(l.times) \in Nat /\ Len(l.times) > 0 /\ None \notin Nat /\ MinRepeats[p] \in Nat
      /\ l \in LedRecord /\ l.times \in Seq(Nat) /\ l.out \in Nat /\ l.repeat \in Nat
      /\ l.out <= Len(l.times) + 1 /\ l.repeat <= MinRepeats[p]
  BY CodecAssumption, RepeatAssumption DEF LedOK, LedRecord
<1>2. CASE l.out < Len(l.times)
  <2>1. l.times[l.out + 1] \in Nat
    BY <1>1, <1>2
  <2>2. n = [l EXCEPT !.lit = l.out % 2 = 0, !.left = l.times[l.out + 1], !.out = l.out + 1]
    BY <1>2 DEF SetNext, NextPulse
  <2>3. n = [times |-> l.times, out |-> l.out + 1, left |-> l.times[l.out + 1],
             repeat |-> l.repeat, lit |-> (l.out % 2 = 0)]
    BY <1>1, <2>2 DEF LedRecord
  <2> HIDE DEF n
  <2>4. LedOK(p, n)
    BY <1>1, <1>2, <2>1, <2>3 DEF LedOK, LedRecord, Time
  <2> QED
    BY <1>1, <1>2, <2>1, <2>3, <2>4 DEF n
<1>3. CASE l.out = Len(l.times)
  <2>1. Pause(p, l) \in Nat
    BY PauseTime
  <2>2. n = [[l EXCEPT !.lit = FALSE] EXCEPT !.out = @ + 1, !.left = Pause(p, l)]
    BY <1>1, <1>3 DEF SetNext
  <2>3. n = [times |-> l.times, out |-> l.out + 1, left |-> Pause(p, l),
             repeat |-> l.repeat, lit |-> FALSE]
    BY <1>1, <2>2 DEF LedRecord
  <2> HIDE DEF n
  <2>4. LedOK(p, n)
    BY <1>1, <1>3, <2>1, <2>3 DEF LedOK, LedRecord, Time
  <2> QED
    BY <1>1, <1>3, <2>1, <2>3, <2>4 DEF n
<1>4. CASE l.out > Len(l.times) /\ l.repeat > 0
  <2>1. n = [[l EXCEPT !.lit = FALSE] EXCEPT !.repeat = @ - 1, !.out = 0, !.left = 1]
    BY <1>1, <1>4 DEF SetNext
  <2>2. n = [times |-> l.times, out |-> 0, left |-> 1, repeat |-> l.repeat - 1, lit |-> FALSE]
    BY <1>1, <2>1 DEF LedRecord
  <2> HIDE DEF n
  <2>3. l.repeat - 1 \in Nat /\ l.repeat - 1 <= MinRepeats[p] /\ 0 <= Len(l.times) + 1
    BY <1>1, <1>4
  <2>4. LedOK(p, n)
    BY <1>1, <2>2, <2>3 DEF LedOK, LedRecord, Time
  <2> QED
    BY <1>1, <1>4, <2>2, <2>4 DEF n
<1>5. CASE l.out > Len(l.times) /\ l.repeat = 0
  <2>1. n = [[l EXCEPT !.lit = FALSE] EXCEPT !.left = None]
    BY <1>1, <1>5 DEF SetNext
  <2>2. n = [times |-> l.times, out |-> l.out, left |-> None, repeat |-> 0, lit |-> FALSE]
    BY <1>1, <1>5, <2>1 DEF LedRecord
  <2> HIDE DEF n
  <2>3. LedOK(p, n)
    BY <1>1, <2>2 DEF LedOK, LedRecord, Time
  <2> QED
    BY <1>1, <1>5, <2>2, <2>3 DEF n
<1> QED
  BY <1>1, <1>2, <1>3, <1>4, <1>5

\* A transmitter that was stopped is at rest, and keeps its times.
LEMMA StopOK ==
    ASSUME NEW p \in Protocols, NEW l, LedOK(p, l)
    PROVE  /\ LedOK(p, StopLed(l)) /\ Owed(StopLed(l)) = 0
           /\ StopLed(l) = [times |-> l.times, out |-> 0, left |-> None, repeat |-> 0, lit |-> FALSE]
<1>1. StopLed(l) = [times |-> l.times, out |-> 0, left |-> None, repeat |-> 0, lit |-> FALSE]
  <2>1. ASSUME NEW n, n = StopLed(l)
        PROVE  n = [times |-> l.times, out |-> 0, left |-> None, repeat |-> 0, lit |-> FALSE]
    BY <2>1 DEF LedOK, LedRecord, StopLed
  <2> QED
    BY <2>1
<1>2. l.times \in Seq(Nat) /\ Len(l.times) \in Nat /\ MinRepeats[p] \in Nat
  BY RepeatAssumption DEF LedOK, LedRecord
<1> QED
  BY <1>1, <1>2 DEF LedOK, LedRecord, Owed, Time

\* transmit and repeat begin with the first mark and owe as many transmissions as
\* they were told.
LEMMA StartOK ==
    ASSUME NEW p \in Protocols, NEW l, LedOK(p, l), l.times # <<>>,
           NEW n \in 0..MinRepeats[p]
    PROVE  /\ LedOK(p, StartLed(p, l, n)) /\ Owed(StartLed(p, l, n)) = n + 1
           /\ StartLed(p, l, n) = [times |-> l.times, out |-> 1, left |-> l.times[1],
                                   repeat |-> n, lit |-> TRUE]
           /\ l.times[1] \in Nat
<1> DEFINE k == [StopLed(l) EXCEPT !.repeat = n]
<1>1. k = [times |-> l.times, out |-> 0, left |-> None, repeat |-> n, lit |-> FALSE]
  <2>1. ASSUME NEW m, m = k
        PROVE  m = [times |-> l.times, out |-> 0, left |-> None, repeat |-> n, lit |-> FALSE]
    BY <2>1 DEF LedOK, LedRecord, StopLed
  <2> QED
    BY <2>1
<1>2. StartLed(p, l, n) = SetNext(p, k)
  BY DEF StartLed
<1>3. Len(l.times) \in Nat /\ Len(l.times) > 0 /\ l.times \in Seq(Nat) /\ MinRepeats[p] \in Nat
  BY RepeatAssumption DEF LedOK, LedRecord
<1> HIDE DEF k
<1>4. LedOK(p, k) /\ k.times = l.times /\ k.out = 0 /\ k.repeat = n
  BY <1>1, <1>3 DEF LedOK, LedRecord, Time
<1>5. LedOK(p, SetNext(p, k)) /\ l.times[1] \in Nat
      /\ SetNext(p, k) = [times |-> l.times, out |-> 1, left |-> l.times[1],
                          repeat |-> n, lit |-> (0 % 2 = 0)]
  BY <1>3, <1>4, SetNextOK
<1>6. (0 % 2 = 0) = TRUE
  OBVIOUS
<1> QED
  <2>1. StartLed(p, l, n) = [times |-> l.times, out |-> 1, left |-> l.times[1], repeat |-> n, lit |-> TRUE]
    BY <1>2, <1>5, <1>6
  <2>2. l.times[1] # None
    BY <1>5, CodecAssumption
  <2>3. Owed(StartLed(p, l, n)) = n + 1
    BY <1>3, <2>1, <2>2 DEF Owed
  <2> QED
    BY <1>2, <1>5, <2>1, <2>3

\* Time passes for a transmitter.
LEMMA LedLaterOK ==
    ASSUME NEW p \in Protocols, LedOK(p, led), NEW dt \in Nat, CanPass(dt)
    PROVE  /\ LedOK(p, LedLater(dt)) /\ Owed(LedLater(dt)) = Owed(led)
           /\ LedLater(dt) = [led EXCEPT !.left = Later(led.left, dt)]
           /\ (Later(led.left, dt) = None) <=> (led.left = None)
           /\ led.left # None => dt <= led.left /\ led.left \in Nat /\ Later(led.left, dt) = led.left - dt
<1>1. led.left # None => dt <= led.left /\ led.left \in Nat /\ led.left - dt \in Nat
  BY DEF CanPass, Alarms, LedOK, LedRecord, Time
<1>2. (Later(led.left, dt) = None <=> led.left = None) /\ Later(led.left, dt) \in Time
  BY <1>1, CodecAssumption DEF Later, Time
<1>3. LedLater(dt) = [led EXCEPT !.left = Later(led.left, dt)]
  BY DEF LedLater
<1> QED
  BY <1>1, <1>2, <1>3 DEF LedOK, LedRecord, Owed, Later

-----------------------------------------------------------------------------
(* The receiver                                                             *)

\* A receiver has its fields; what a failed decode leaves in three of them is of
\* no concern.
RxRecord(r) ==
    r = [sync |-> r.sync, pulses |-> r.pulses, rptAddr |-> r.rptAddr, rptFunc |-> r.rptFunc,
         msgLeft |-> r.msgLeft, bitLeft |-> r.bitLeft, prev |-> r.prev,
         permits |-> r.permits, heard |-> r.heard]

\* A well-formed IR_Receiver of protocol p: its buffer has room for another pulse,
\* and outside a message there is no bit timer.
RxOK(p, r) ==
    /\ RxRecord(r)
    /\ r.sync \in 0..2 /\ r.permits \in 0..1
    /\ r.pulses \in Seq(Nat) /\ Len(r.pulses) < MessageLen(p)
    /\ r.sync = 1 => Len(r.pulses) = 1
    /\ r.msgLeft \in Time /\ r.bitLeft \in Time
    /\ r.sync = 0 => r.bitLeft = None

\* The message of receiver r is over in s, or the time for one.
Over(r, s) == \/ r.sync # 0 /\ s.sync = 0
              \/ r.msgLeft # None /\ s.msgLeft = None

\* The semaphore is released only when a message is over.
Released(r, s) == s.permits = r.permits \/ (s.permits = 1 /\ Over(r, s))

\* reset makes any receiver one that waits for a message.
LEMMA ResetOK ==
    ASSUME NEW p \in Protocols, NEW r, RxRecord(r)
    PROVE  /\ RxOK(p, Reset(r))
           /\ Reset(r).sync = 0 /\ Reset(r).permits = 1 /\ Reset(r).msgLeft = None
           /\ Reset(r).bitLeft = None /\ Reset(r).pulses = <<>>
<1>1. ASSUME NEW s, s = Reset(r)
      PROVE  s = [sync |-> 0, pulses |-> <<>>, rptAddr |-> r.rptAddr, rptFunc |-> r.rptFunc,
                  msgLeft |-> None, bitLeft |-> None, prev |-> 0, permits |-> 1, heard |-> r.heard]
  BY <1>1 DEF Reset, RxRecord
<1>2. MessageLen(p) \in Nat /\ MessageLen(p) > 0
  BY MessageTyped, 0 \in Nat
<1>3. ASSUME NEW s, s = Reset(r)
      PROVE  RxOK(p, s) /\ s.sync = 0 /\ s.permits = 1 /\ s.msgLeft = None
             /\ s.bitLeft = None /\ s.pulses = <<>>
  <2>1. /\ s.sync = 0 /\ s.permits = 1 /\ s.msgLeft = None
        /\ s.bitLeft = None /\ s.pulses = <<>>
    BY <1>1, <1>3
  <2>2. RxRecord(s)
    BY <1>1, <1>3 DEF RxRecord
  <2> QED
    BY <1>2, <2>1, <2>2 DEF RxOK, Time
<1> QED
  BY <1>3

\* Reset ends a message.
LEMMA ResetReleases ==
    ASSUME NEW p \in Protocols, NEW r, RxOK(p, r), NEW s, RxRecord(s),
           r.sync # 0 \/ r.msgLeft # None
    PROVE  RxOK(p, Reset(s)) /\ Released(r, Reset(s))
  BY ResetOK DEF Released, Over

\* Starting the timers leaves the message and the semaphore alone.
LEMMA StartTimeoutOK ==
    ASSUME NEW p \in Protocols, NEW r, RxOK(p, r)
    PROVE  /\ RxOK(p, StartMessageTimeout(r)) /\ Released(r, StartMessageTimeout(r))
           /\ r.sync # 0 => RxOK(p, StartTimeout(r)) /\ Released(r, StartTimeout(r))
           /\ StartTimeout(r).permits = r.permits
           /\ StartMessageTimeout(r).permits = r.permits
           /\ StartMessageTimeout(r).sync = r.sync
<1> DEFINE m == IF MsgTimeout > 0 /\ r.msgLeft = None THEN MsgTimeout ELSE r.msgLeft
<1>1. ASSUME NEW s, s = StartMessageTimeout(r)
      PROVE  s = [sync |-> r.sync, pulses |-> r.pulses, rptAddr |-> r.rptAddr,
                  rptFunc |-> r.rptFunc, msgLeft |-> m, bitLeft |-> r.bitLeft,
                  prev |-> r.prev, permits |-> r.permits, heard |-> r.heard]
  BY <1>1 DEF StartMessageTimeout, RxOK, RxRecord
<1>2. m \in Time
  BY TimeoutAssumption DEF RxOK, Time
<1> HIDE DEF m
<1>3. ASSUME NEW s, s = StartMessageTimeout(r)
      PROVE  RxOK(p, s) /\ s.permits = r.permits /\ s.sync = r.sync /\ s.pulses = r.pulses
  <2>1. RxRecord(s)
    BY <1>1, <1>3 DEF RxRecord
  <2> QED
    BY <1>1, <1>2, <1>3, <2>1 DEF RxOK
<1>4. ASSUME NEW s, s = StartMessageTimeout(r), NEW t, t = StartTimeout(r)
      PROVE  t.permits = r.permits /\ (r.sync # 0 => RxOK(p, t))
  <2>1. CASE BitTimeout > 0
    <3>1. t = [sync |-> s.sync, pulses |-> s.pulses, rptAddr |-> s.rptAddr,
               rptFunc |-> s.rptFunc, msgLeft |-> s.msgLeft, bitLeft |-> BitTimeout,
               prev |-> Len(r.pulses), permits |-> s.permits, heard |-> s.heard]
      <4>1. t = [s EXCEPT !.prev = Len(r.pulses), !.bitLeft = BitTimeout]
        BY <1>4, <2>1 DEF StartTimeout
      <4>2. RxRecord(s)
        BY <1>3, <1>4 DEF RxOK
      <4> QED
        BY <4>1, <4>2 DEF RxRecord
    <3>2. RxRecord(t)
      BY <3>1 DEF RxRecord
    <3> QED
      BY <1>3, <1>4, <3>1, <3>2, TimeoutAssumption DEF RxOK, Time
  <2>2. CASE ~(BitTimeout > 0)
    BY <1>3, <1>4, <2>2 DEF StartTimeout
  <2> QED
    BY <2>1, <2>2
<1> QED
  BY <1>3, <1>4 DEF Released

\* message_complete ends the message, whether it can be decoded or not.
LEMMA MessageCompleteOK ==
    ASSUME NEW p \in Protocols, NEW r, RxOK(p, r), r.sync # 0, NEW s, RxRecord(s)
    PROVE  RxOK(p, MessageComplete(p, s)) /\ Released(r, MessageComplete(p, s))
<1> DEFINE d == Decode(p, s.pulses, Address)
           t == [s EXCEPT !.rptAddr = d.addr, !.rptFunc = d.func]
           u == [t EXCEPT !.heard = IF d.ok THEN Event(t, "msg") ELSE ErrorEvent]
<1>1. RxRecord(u)
  <2> HIDE DEF d
  <2>1. RxRecord(t)
    <3>1. ASSUME NEW x, x = t PROVE RxRecord(x)
      BY <3>1 DEF RxRecord
    <3> QED
      BY <3>1
  <2> HIDE DEF t
  <2>2. ASSUME NEW x, x = u PROVE RxRecord(x)
    BY <2>1, <2>2 DEF RxRecord
  <2> QED
    BY <2>2
<1>2. MessageComplete(p, s) = Reset(u)
  BY DEF MessageComplete
<1> QED
  BY <1>1, <1>2, ResetReleases

\* A buffer with one more pulse.
LEMMA Appended ==
    ASSUME NEW q \in Seq(Nat), NEW d \in Nat
    PROVE  Append(q, d) \in Seq(Nat) /\ Len(Append(q, d)) = Len(q) + 1
  OBVIOUS

\* An edge before a message: the sync mark begins one, anything else is ignored.
LEMMA WaitMarkOK ==
    ASSUME NEW p \in Protocols, NEW r, RxOK(p, r), r.sync = 0, NEW d \in Nat, NEW falling
    PROVE  RxOK(p, WaitMark(p, r, d, falling)) /\ Released(r, WaitMark(p, r, d, falling))
<1>1. MessageLen(p) \in Nat /\ MessageLen(p) > 1
  BY MessageTyped, 0 \in Nat
<1>2. ASSUME NEW s, s = [r EXCEPT !.sync = 1, !.pulses = <<d>>]
      PROVE  RxOK(p, s) /\ s.sync = 1 /\ s.permits = r.permits
  <2>1. s = [sync |-> 1, pulses |-> <<d>>, rptAddr |-> r.rptAddr, rptFunc |-> r.rptFunc,
             msgLeft |-> r.msgLeft, bitLeft |-> r.bitLeft, prev |-> r.prev,
             permits |-> r.permits, heard |-> r.heard]
    BY <1>2 DEF RxOK, RxRecord
  <2>2. RxRecord(s)
    BY <2>1 DEF RxRecord
  <2>3. <<d>> \in Seq(Nat) /\ Len(<<d>>) = 1
    OBVIOUS
  <2> QED
    BY <1>1, <2>1, <2>2, <2>3 DEF RxOK
<1>3. ASSUME NEW s, s = [r EXCEPT !.pulses = <<>>]
      PROVE  RxOK(p, s) /\ s.permits = r.permits
  <2>1. s = [sync |-> r.sync, pulses |-> <<>>, rptAddr |-> r.rptAddr, rptFunc |-> r.rptFunc,
             msgLeft |-> r.msgLeft, bitLeft |-> r.bitLeft, prev |-> r.prev,
             permits |-> r.permits, heard |-> r.heard]
    BY <1>3 DEF RxOK, RxRecord
  <2>2. RxRecord(s)
    BY <2>1 DEF RxRecord
  <2> QED
    BY <1>1, <2>1, <2>2 DEF RxOK
<1>4. CASE falling /\ ComparePulse(d, SyncMark[p])
  <2> DEFINE s == [r EXCEPT !.sync = 1, !.pulses = <<d>>]
  <2>1. WaitMark(p, r, d, falling) = StartTimeout(s)
    BY <1>4 DEF WaitMark
  <2>2. RxOK(p, s) /\ s.sync # 0 /\ s.permits = r.permits
    BY <1>2
  <2> HIDE DEF s
  <2> QED
    BY <2>1, <2>2, StartTimeoutOK DEF Released
<1>5. CASE ~(falling /\ ComparePulse(d, SyncMark[p]))
  BY <1>3, <1>5 DEF WaitMark, Released
<1> QED
  BY <1>4, <1>5

\* The edge after the sync mark: the sync space goes on with the message, a NEC
\* repeat or anything else ends it.
LEMMA WaitSpaceOK ==
    ASSUME NEW p \in Protocols, NEW r, RxOK(p, r), r.sync = 1, NEW d \in Nat, NEW falling
    PROVE  RxOK(p, WaitSpace(p, r, d, falling)) /\ Released(r, WaitSpace(p, r, d, falling))
<1>1. MessageLen(p) \in Nat /\ MessageLen(p) > 2
  BY MessageTyped, 0 \in Nat
<1>2. ASSUME NEW s, s = [r EXCEPT !.sync = 2, !.pulses = Append(r.pulses, d)]
      PROVE  RxOK(p, s) /\ s.permits = r.permits
  <2>1. s = [sync |-> 2, pulses |-> Append(r.pulses, d), rptAddr |-> r.rptAddr,
             rptFunc |-> r.rptFunc, msgLeft |-> r.msgLeft, bitLeft |-> r.bitLeft,
             prev |-> r.prev, permits |-> r.permits, heard |-> r.heard]
    BY <1>2 DEF RxOK, RxRecord
  <2>2. RxRecord(s)
    BY <2>1 DEF RxRecord
  <2>3. Append(r.pulses, d) \in Seq(Nat) /\ Len(Append(r.pulses, d)) = 2
    <3>1. r.pulses \in Seq(Nat) /\ Len(r.pulses) = 1
      BY DEF RxOK
    <3>2. Append(r.pulses, d) \in Seq(Nat) /\ Len(Append(r.pulses, d)) = Len(r.pulses) + 1
      BY <3>1, Appended
    <3> QED
      BY <3>1, <3>2
  <2> QED
    BY <1>1, <2>1, <2>2, <2>3 DEF RxOK
<1>3. RxOK(p, Reset(r)) /\ Released(r, Reset(r))
  BY ResetReleases DEF RxOK
<1>4. ASSUME NEW s, s = [Reset(r) EXCEPT !.heard = Event(r, "repeat")]
      PROVE  RxOK(p, s) /\ Released(r, s)
  <2> DEFINE q == Reset(r)
  <2>1. RxOK(p, q) /\ Released(r, q)
    BY <1>3
  <2> HIDE DEF q
  <2>2. s = [sync |-> q.sync, pulses |-> q.pulses, rptAddr |-> q.rptAddr, rptFunc |-> q.rptFunc,
             msgLeft |-> q.msgLeft, bitLeft |-> q.bitLeft, prev |-> q.prev,
             permits |-> q.permits, heard |-> Event(r, "repeat")]
    <3>1. s = [q EXCEPT !.heard = Event(r, "repeat")]
      BY <1>4 DEF q
    <3> QED
      BY <2>1, <3>1 DEF RxOK, RxRecord
  <2>3. RxRecord(s)
    BY <2>2 DEF RxRecord
  <2> QED
    BY <2>1, <2>2, <2>3 DEF RxOK, Released, Over
<1>5. \/ WaitSpace(p, r, d, falling) = [r EXCEPT !.sync = 2, !.pulses = Append(r.pulses, d)]
      \/ WaitSpace(p, r, d, falling) = [Reset(r) EXCEPT !.heard = Event(r, "repeat")]
      \/ WaitSpace(p, r, d, falling) = Reset(r)
  BY DEF WaitSpace
<1> QED
  BY <1>2, <1>3, <1>4, <1>5 DEF Released

\* A pulse of the message, the last of which ends it.
LEMMA CollectOK ==
    ASSUME NEW p \in Protocols, NEW r, RxOK(p, r), r.sync = 2, NEW d \in Nat
    PROVE  RxOK(p, Collect(p, r, d)) /\ Released(r, Collect(p, r, d))
<1> DEFINE s == [r EXCEPT !.pulses = Append(r.pulses, d)]
<1>1. MessageLen(p) \in Nat
  BY MessageTyped, 0 \in Nat
<1>2. ASSUME NEW t, t = s
      PROVE  t = [sync |-> r.sync, pulses |-> Append(r.pulses, d), rptAddr |-> r.rptAddr,
                  rptFunc |-> r.rptFunc, msgLeft |-> r.msgLeft, bitLeft |-> r.bitLeft,
                  prev |-> r.prev, permits |-> r.permits, heard |-> r.heard]
  BY <1>2 DEF RxOK, RxRecord
<1>3. Collect(p, r, d) = IF Len(s.pulses) = MessageLen(p) THEN MessageComplete(p, s) ELSE s
  BY DEF Collect
<1> HIDE DEF s
<1>4. RxRecord(s)
  BY <1>2 DEF RxRecord
<1>5. CASE Len(s.pulses) = MessageLen(p)
  BY <1>3, <1>4, <1>5, MessageCompleteOK
<1>6. CASE Len(s.pulses) # MessageLen(p)
  <2>1. Append(r.pulses, d) \in Seq(Nat) /\ Len(Append(r.pulses, d)) = Len(r.pulses) + 1
    BY DEF RxOK
  <2>2. s.pulses = Append(r.pulses, d) /\ s.sync = 2 /\ s.permits = r.permits
        /\ s.msgLeft = r.msgLeft /\ s.bitLeft = r.bitLeft
    BY <1>2
  <2>3. s.pulses \in Seq(Nat) /\ Len(s.pulses) < MessageLen(p)
    BY <1>1, <1>6, <2>1, <2>2 DEF RxOK
  <2>4. Collect(p, r, d) = s
    BY <1>3, <1>6
  <2>5. RxOK(p, s)
    BY <1>4, <2>2, <2>3 DEF RxOK
  <2> QED
    BY <2>2, <2>4, <2>5 DEF Released
<1> QED
  BY <1>5, <1>6

\* store_timestamp, whatever the edge.
LEMMA StoreOK ==
    ASSUME NEW p \in Protocols, NEW r, RxOK(p, r), NEW d \in Nat, NEW falling
    PROVE  RxOK(p, StoreTimestamp(p, r, d, falling)) /\ Released(r, StoreTimestamp(p, r, d, falling))
<1>1. CASE r.sync = 0
  BY <1>1, WaitMarkOK DEF StoreTimestamp
<1>2. CASE r.sync = 1
  BY <1>2, WaitSpaceOK DEF StoreTimestamp
<1>3. CASE r.sync = 2
  BY <1>3, CollectOK DEF StoreTimestamp
<1> QED
  BY <1>1, <1>2, <1>3 DEF RxOK

\* timeout ends the message, unless the application keeps it.
LEMMA TimeoutOK ==
    ASSUME NEW p \in Protocols, NEW r, RxOK(p, r), NEW tmo \in {"error", "fail", "keep"},
           r.sync # 0 \/ r.msgLeft # None
    PROVE  /\ RxOK(p, Timeout(r, tmo)) /\ Released(r, Timeout(r, tmo))
           /\ tmo = "keep" => Timeout(r, tmo) = r
           /\ tmo # "keep" => Timeout(r, tmo).msgLeft = None
<1>1. CASE tmo = "error"
  <2> DEFINE s == [r EXCEPT !.heard = ErrorEvent]
  <2>1. RxRecord(s)
    <3>1. ASSUME NEW t, t = s PROVE RxRecord(t)
      BY <3>1 DEF RxOK, RxRecord
    <3> QED
      BY <3>1
  <2>2. Timeout(r, tmo) = Reset(s)
    BY <1>1 DEF Timeout
  <2> HIDE DEF s
  <2> QED
    BY <1>1, <2>1, <2>2, ResetReleases, ResetOK
<1>2. CASE tmo = "fail"
  <2>1. Timeout(r, tmo) = Reset(r) /\ RxRecord(r)
    BY <1>2 DEF Timeout, RxOK
  <2> QED
    BY <1>2, <2>1, ResetReleases, ResetOK
<1>3. CASE tmo = "keep"
  BY <1>3 DEF Timeout, Released
<1> QED
  BY <1>1, <1>2, <1>3

\* timeout_msg of a message timer that ran.
LEMMA TimeoutMsgOK ==
    ASSUME NEW p \in Protocols, NEW r, RxOK(p, r), NEW tmo \in {"error", "fail", "keep"},
           r.msgLeft # None
    PROVE  RxOK(p, TimeoutMsg(r, tmo)) /\ Released(r, TimeoutMsg(r, tmo))
<1> DEFINE q == Timeout(r, tmo)
<1>1. RxOK(p, q) /\ Released(r, q)
  BY TimeoutOK
<1>2. TimeoutMsg(r, tmo) = [q EXCEPT !.msgLeft = None]
  BY DEF TimeoutMsg
<1> HIDE DEF q
<1>3. ASSUME NEW s, s = TimeoutMsg(r, tmo) PROVE RxOK(p, s) /\ Released(r, s)
  <2>1. s = [sync |-> q.sync, pulses |-> q.pulses, rptAddr |-> q.rptAddr, rptFunc |-> q.rptFunc,
             msgLeft |-> None, bitLeft |-> q.bitLeft, prev |-> q.prev,
             permits |-> q.permits, heard |-> q.heard]
    BY <1>1, <1>2, <1>3 DEF RxOK, RxRecord
  <2>2. RxRecord(s)
    BY <2>1 DEF RxRecord
  <2> QED
    BY <1>1, <2>1, <2>2 DEF RxOK, Released, Over, Time
<1> QED
  BY <1>3

\* timeout_bit of a bit timer that ran.
LEMMA TimeoutBitOK ==
    ASSUME NEW p \in Protocols, NEW r, RxOK(p, r), NEW tmo \in {"error", "fail", "keep"},
           r.bitLeft # None
    PROVE  RxOK(p, TimeoutBit(r, tmo)) /\ Released(r, TimeoutBit(r, tmo))
<1>1. r.sync # 0
  BY DEF RxOK
<1>2. CASE Silent(r) /\ tmo # "keep"
  BY <1>1, <1>2, TimeoutOK DEF TimeoutBit
<1>3. CASE ~(Silent(r) /\ tmo # "keep")
  <2>1. ASSUME NEW s, s = [r EXCEPT !.prev = Len(r.pulses), !.bitLeft = BitTimeout]
        PROVE  RxOK(p, s) /\ Released(r, s)
    <3>1. s = [sync |-> r.sync, pulses |-> r.pulses, rptAddr |-> r.rptAddr, rptFunc |-> r.rptFunc,
               msgLeft |-> r.msgLeft, bitLeft |-> BitTimeout, prev |-> Len(r.pulses),
               permits |-> r.permits, heard |-> r.heard]
      BY <2>1 DEF RxOK, RxRecord
    <3>2. RxRecord(s)
      BY <3>1 DEF RxRecord
    <3> QED
      BY <1>1, <3>1, <3>2, TimeoutAssumption DEF RxOK, Released, Time
  <2> QED
    BY <1>1, <1>3, <2>1 DEF TimeoutBit
<1> QED
  BY <1>2, <1>3

\* Time passes for a receiver: its timers run on, and nothing else changes.
LEMMA RxLaterOK ==
    ASSUME NEW p \in Protocols, RxOK(p, rx), NEW dt \in Nat, CanPass(dt)
    PROVE  /\ RxOK(p, RxLater(dt))
           /\ RxLater(dt).sync = rx.sync /\ RxLater(dt).permits = rx.permits
           /\ (RxLater(dt).msgLeft = None) <=> (rx.msgLeft = None)
           /\ (RxLater(dt).bitLeft = None) <=> (rx.bitLeft = None)
<1>1. ASSUME NEW a \in Time, a # None => dt <= a
      PROVE  Later(a, dt) \in Time /\ (Later(a, dt) = None <=> a = None)
  BY <1>1, CodecAssumption DEF Later, Time
<1>2. /\ rx.msgLeft \in Time /\ (rx.msgLeft # None => dt <= rx.msgLeft)
      /\ rx.bitLeft \in Time /\ (rx.bitLeft # None => dt <= rx.bitLeft)
  BY DEF CanPass, Alarms, RxOK
<1>3. ASSUME NEW s, s = RxLater(dt)
      PROVE  s = [sync |-> rx.sync, pulses |-> rx.pulses, rptAddr |-> rx.rptAddr,
                  rptFunc |-> rx.rptFunc, msgLeft |-> Later(rx.msgLeft, dt),
                  bitLeft |-> Later(rx.bitLeft, dt), prev |-> rx.prev,
                  permits |-> rx.permits, heard |-> rx.heard]
  BY <1>3 DEF RxLater, RxOK, RxRecord
<1>4. ASSUME NEW s, s = RxLater(dt)
      PROVE  /\ RxOK(p, s) /\ s.sync = rx.sync /\ s.permits = rx.permits
             /\ (s.msgLeft = None) <=> (rx.msgLeft = None)
             /\ (s.bitLeft = None) <=> (rx.bitLeft = None)
  <2>1. RxRecord(s)
    BY <1>3, <1>4 DEF RxRecord
  <2> QED
    BY <1>1, <1>2, <1>3, <1>4, <2>1 DEF RxOK
<1> QED
  BY <1>4

-----------------------------------------------------------------------------
(* The link                                                                 *)

\* The receiver, its semaphore and the thread that waits for it.
RxPart == /\ RxOK(RxP, rx) /\ gap \in 0..MaxGap
          /\ waiter \in {"idle", "waiting"}
          /\ waiter = "idle" => rx.permits = 1
          /\ NotStale

\* Where a transmission that will be repeated is in its interval: since it began
\* it has taken the times so far, and the pause ends one unit before the next.
Pace ==
    LET n == Len(led.times) IN
    led.left # None =>
        /\ led.repeat > 0 /\ led.out \in 1..n => since + led.left = Upto(led.times)[led.out]
        /\ led.repeat > 0 /\ led.out = n + 1 => since + led.left = Interval[TxP] - 1
        /\ led.out = 0 => since + led.left = Interval[TxP] /\ MinRepeats[TxP] > 0

\* The transmitter, and what it still has to send.
TxPart == /\ LedOK(TxP, led) /\ due = Owed(led) /\ since \in Nat
          /\ led.repeat > 0 => Sum(led.times) + 2 <= Interval[TxP]
          /\ Pace

LinkInv == /\ link \in [tx : Protocols, rx : Protocols, tmo : {"error", "fail", "keep"}]
           /\ noise \in 0..MaxNoise
           /\ RxPart /\ TxPart

\* The time since the last edge keeps within what is told apart.
LEMMA GapTyped ==
    ASSUME gap \in 0..MaxGap, NEW dt \in Nat
    PROVE  GapLater(dt) \in 0..MaxGap
<1>1. MaxGap \in Nat /\ gap \in Nat /\ gap + dt \in Int
  BY LinkAssumption
<1>2. GapLater(dt) = IF MaxGap <= gap + dt THEN MaxGap ELSE gap + dt
  BY <1>1, MinMax DEF GapLater
<1> QED
  BY <1>1, <1>2

\* The receiver sees what the light does, or does not see it.
LEMMA SeesOK ==
    ASSUME NEW p \in Protocols, RxP = p, RxOK(p, rx), gap \in 0..MaxGap, NEW dt \in Nat,
           CanPass(dt), NEW lit, NEW seen, Sees(lit, dt, seen)
    PROVE  RxOK(p, rx') /\ Released(RxLater(dt), rx') /\ gap' \in 0..MaxGap
<1> DEFINE q == RxLater(dt)
           h == IF Begins THEN NoEvent ELSE q.heard
           r == [q EXCEPT !.heard = h]
<1>1. RxOK(p, q)
  BY RxLaterOK
<1>2. IF lit # led.lit /\ seen THEN rx' = StoreTimestamp(p, r, GapLater(dt), ~lit) /\ gap' = 0
                               ELSE rx' = r /\ gap' = GapLater(dt)
  BY DEF Sees
<1>3. GapLater(dt) \in 0..MaxGap /\ 0 \in 0..MaxGap /\ GapLater(dt) \in Nat
  BY GapTyped, LinkAssumption
<1> HIDE DEF q, h
<1>4. ASSUME NEW s, s = r
      PROVE  RxOK(p, s) /\ s.sync = q.sync /\ s.permits = q.permits /\ s.msgLeft = q.msgLeft
  <2>1. s = [sync |-> q.sync, pulses |-> q.pulses, rptAddr |-> q.rptAddr, rptFunc |-> q.rptFunc,
             msgLeft |-> q.msgLeft, bitLeft |-> q.bitLeft, prev |-> q.prev,
             permits |-> q.permits, heard |-> h]
    BY <1>1, <1>4 DEF RxOK, RxRecord
  <2>2. RxRecord(s)
    BY <2>1 DEF RxRecord
  <2> QED
    BY <1>1, <2>1, <2>2 DEF RxOK
<1>5. RxOK(p, r) /\ r.sync = q.sync /\ r.permits = q.permits /\ r.msgLeft = q.msgLeft
  BY <1>4
<1> HIDE DEF r
<1>6. CASE lit # led.lit /\ seen
  <2>1. RxOK(p, rx') /\ Released(r, rx')
    BY <1>2, <1>3, <1>5, <1>6, StoreOK
  <2> QED
    BY <1>2, <1>3, <1>5, <1>6, <2>1 DEF q, Released, Over
<1>7. CASE ~(lit # led.lit /\ seen)
  BY <1>2, <1>3, <1>5, <1>7 DEF q, Released
<1> QED
  BY <1>6, <1>7

\* A receiver that releases its semaphore only when a message is over wakes no
\* thread for an older one.
LEMMA ReceiverKeeps ==
    ASSUME RxPart, RxP \in Protocols, NEW dt \in Nat, CanPass(dt), UNCHANGED <<link, waiter>>,
           RxOK(RxP, rx'), Released(RxLater(dt), rx'), gap' \in 0..MaxGap,
           ended' = (ended \/ Ends)
    PROVE  RxPart'
<1>1. /\ RxLater(dt).sync = rx.sync /\ RxLater(dt).permits = rx.permits
      /\ (RxLater(dt).msgLeft = None) <=> (rx.msgLeft = None)
  BY RxLaterOK DEF RxPart
<1>2. Over(RxLater(dt), rx') => Ends
  BY <1>1 DEF Over, Ends
<1>3. rx'.permits = rx.permits \/ (rx'.permits = 1 /\ Ends)
  BY <1>1, <1>2 DEF Released
<1>4. NotStale'
  BY <1>3 DEF RxPart, NotStale
<1>5. waiter' = "idle" => rx'.permits = 1
  BY <1>3 DEF RxPart
<1> QED
  BY <1>4, <1>5 DEF RxPart, RxP

\* The clock since a transmission began.
LEMMA SinceTyped ==
    ASSUME TxP \in Protocols, since \in Nat, NEW dt \in Nat
    PROVE  /\ SinceLater(dt) \in Nat
           /\ (due > 0 /\ MinRepeats[TxP] > 0 /\ since + dt <= Interval[TxP])
                => SinceLater(dt) = since + dt
<1>1. Interval[TxP] \in Nat
  BY RepeatAssumption
<1>2. Min({Interval[TxP] + 1, since + dt})
        = IF Interval[TxP] + 1 <= since + dt THEN Interval[TxP] + 1 ELSE since + dt
  BY <1>1, MinMax
<1> QED
  BY <1>1, <1>2 DEF SinceLater

\* Time passes: the transmitter stays where it is in its interval.
LEMMA TxLater ==
    ASSUME TxPart, TxP \in Protocols, NEW dt \in Nat, CanPass(dt), UNCHANGED <<link, due>>,
           led' = LedLater(dt), since' = SinceLater(dt)
    PROVE  TxPart'
<1>1. /\ LedOK(TxP, led') /\ Owed(led') = Owed(led)
      /\ led' = [led EXCEPT !.left = Later(led.left, dt)]
      /\ (Later(led.left, dt) = None) <=> (led.left = None)
      /\ led.left # None => dt <= led.left /\ led.left \in Nat /\ Later(led.left, dt) = led.left - dt
  BY LedLaterOK DEF TxPart
<1>2. /\ led'.times = led.times /\ led'.out = led.out /\ led'.repeat = led.repeat
      /\ led'.left = Later(led.left, dt)
  BY <1>1 DEF TxPart, LedOK, LedRecord
<1>3. /\ led.out \in Nat /\ led.repeat \in Nat /\ led.times \in Seq(Nat) /\ Len(led.times) \in Nat
      /\ Interval[TxP] \in Nat /\ MinRepeats[TxP] \in Nat /\ led.repeat <= MinRepeats[TxP]
  BY RepeatAssumption DEF TxPart, LedOK, LedRecord
<1>4. since' \in Nat
  BY SinceTyped DEF TxPart
<1>5. Pace'
  <2> SUFFICES ASSUME led'.left # None PROVE Pace'
    BY DEF Pace
  <2>1. led.left # None /\ dt <= led.left /\ led.left \in Nat /\ led'.left = led.left - dt
    BY <1>1, <1>2
  <2>2. ASSUME led.repeat > 0 \/ led.out = 0, since + led.left <= Interval[TxP], MinRepeats[TxP] > 0
        PROVE  since' + led'.left = since + led.left
    <3>1. due > 0
      BY <1>3, <2>1, <2>2 DEF TxPart, Owed
    <3>2. since + dt <= Interval[TxP] /\ since \in Nat
      BY <1>3, <2>1, <2>2 DEF TxPart
    <3>3. since' = since + dt
      BY <2>2, <3>1, <3>2, SinceTyped
    <3> QED
      BY <2>1, <3>2, <3>3
  <2>3. CASE led.repeat > 0 /\ led.out \in 1..Len(led.times)
    <3>1. since + led.left = Upto(led.times)[led.out] /\ Sum(led.times) + 2 <= Interval[TxP]
      BY <2>1, <2>3 DEF TxPart, Pace
    <3>2. Upto(led.times)[led.out] <= Sum(led.times) /\ Sum(led.times) \in Nat
          /\ Upto(led.times)[led.out] \in Nat
      BY <1>3, <2>3, Sums
    <3>3. since + led.left <= Interval[TxP] /\ MinRepeats[TxP] > 0
      BY <1>3, <2>3, <3>1, <3>2
    <3>4. since' + led'.left = Upto(led.times)[led.out]
      BY <2>2, <2>3, <3>1, <3>3
    <3> QED
      BY <1>2, <1>3, <2>3, <3>4 DEF Pace, TxP
  <2>4. CASE led.repeat > 0 /\ led.out = Len(led.times) + 1
    <3>1. since + led.left = Interval[TxP] - 1
      BY <2>1, <2>4 DEF TxPart, Pace
    <3>2. since + led.left <= Interval[TxP] /\ MinRepeats[TxP] > 0
      BY <1>3, <2>4, <3>1
    <3>3. since' + led'.left = Interval[TxP] - 1
      BY <2>2, <2>4, <3>1, <3>2
    <3> QED
      BY <1>2, <1>3, <2>4, <3>3 DEF Pace, TxP
  <2>5. CASE led.out = 0
    <3>1. since + led.left = Interval[TxP] /\ MinRepeats[TxP] > 0
      BY <2>1, <2>5 DEF TxPart, Pace
    <3>2. since' + led'.left = Interval[TxP]
      BY <1>3, <2>2, <2>5, <3>1
    <3> QED
      BY <1>2, <1>3, <2>5, <3>1, <3>2 DEF Pace, TxP
  <2>6. CASE ~(led.repeat > 0 /\ led.out \in 1..Len(led.times))
             /\ ~(led.repeat > 0 /\ led.out = Len(led.times) + 1) /\ led.out # 0
    BY <1>2, <2>6 DEF Pace
  <2> QED
    BY <2>3, <2>4, <2>5, <2>6
<1> QED
  BY <1>1, <1>2, <1>4, <1>5 DEF TxPart, TxP

\* An alarm of the transmitter takes it to the next state, on time.
LEMMA TxAlarm ==
    ASSUME TxPart, TxP \in Protocols, NEW seen \in BOOLEAN, LedAlarm(seen)
    PROVE  TxPart'
<1> DEFINE dt == led.left
           n == Len(led.times)
<1>1. /\ led.out \in Nat /\ led.repeat \in Nat /\ led.times \in Seq(Nat) /\ n \in Nat
      /\ Interval[TxP] \in Nat /\ MinRepeats[TxP] \in Nat /\ led.repeat <= MinRepeats[TxP]
      /\ led.out <= n + 1 /\ since \in Nat
  BY RepeatAssumption DEF TxPart, LedOK, LedRecord
<1>2. dt # None /\ dt \in Nat /\ led.times # <<>> /\ n > 0 /\ None \notin Nat
  BY CodecAssumption DEF LedAlarm, TxPart, LedOK, LedRecord, Time
<1>3. /\ led' = SetNext(TxP, led) /\ LedOK(TxP, led') /\ UNCHANGED link
      /\ due' = IF led.out = n THEN due - 1 ELSE due
      /\ since' = IF Begins THEN 0 ELSE SinceLater(dt)
  BY <1>2, SetNextOK DEF LedAlarm, TxPart
<1>4. due = led.repeat + (IF led.out <= n THEN 1 ELSE 0)
  BY <1>2 DEF TxPart, Owed
<1>5. since' \in Nat
  BY <1>1, <1>2, <1>3, SinceTyped
<1>6. /\ Upto(led.times) \in [0..n -> Nat] /\ Upto(led.times)[0] = 0
      /\ \A i \in 1..n : Upto(led.times)[i] = Upto(led.times)[i - 1] + led.times[i]
      /\ \A i \in 0..n : Upto(led.times)[i] <= Sum(led.times)
      /\ Sum(led.times) \in Nat
  BY <1>1, Sums
<1>7. led.repeat > 0 => Sum(led.times) + 2 <= Interval[TxP]
  BY DEF TxPart
<1>8. ASSUME led.repeat > 0, since + dt <= Interval[TxP], ~Begins
      PROVE  since' = since + dt
  <2>1. due > 0 /\ MinRepeats[TxP] > 0
    BY <1>1, <1>4, <1>8
  <2>2. SinceLater(dt) = since + dt
    BY <1>1, <1>2, <1>8, <2>1, SinceTyped
  <2> QED
    BY <1>3, <1>8, <2>2
<1>9. CASE led.out < n
  <2>1. /\ led' = [times |-> led.times, out |-> led.out + 1, left |-> led.times[led.out + 1],
                   repeat |-> led.repeat, lit |-> (led.out % 2 = 0)]
        /\ led.times[led.out + 1] \in Nat
    BY <1>2, <1>3, <1>9, SetNextOK DEF TxPart
  <2>2. /\ led'.times = led.times /\ led'.out = led.out + 1 /\ led'.repeat = led.repeat
        /\ led'.left = led.times[led.out + 1] /\ led'.left \in Nat /\ led'.left # None
        /\ led'.lit = (led.out % 2 = 0)
    BY <1>2, <2>1
  <2>3. due' = Owed(led')
    BY <1>1, <1>3, <1>4, <1>9, <2>2 DEF Owed
  <2>4. led.repeat > 0 => since' + led'.left = Upto(led.times)[led.out + 1]
    <3> SUFFICES ASSUME led.repeat > 0 PROVE since' + led'.left = Upto(led.times)[led.out + 1]
      OBVIOUS
    <3>1. led.out + 1 \in 1..n /\ (led.out + 1) - 1 = led.out
      <4>1. led.out + 1 >= 1 /\ led.out + 1 <= n /\ led.out + 1 \in Int
        BY <1>1, <1>9
      <4> QED
        BY <1>1, <4>1
    <3>2. Upto(led.times)[led.out + 1] = Upto(led.times)[led.out] + led.times[led.out + 1]
      BY <1>6, <3>1
    <3>3. Upto(led.times)[led.out] \in Nat /\ Upto(led.times)[led.out] <= Sum(led.times)
      BY <1>1, <1>6, <1>9
    <3>4. CASE led.out = 0
      <4>1. led'.out = 1 /\ led'.lit /\ ~led.lit
        <5>1. led.out % 2 = 0
          BY <3>4
        <5>2. led'.lit
          BY <2>2, <5>1
        <5> QED
          BY <2>2, <3>4, <5>2 DEF TxPart, LedOK
      <4>2. since' = 0
        BY <1>3, <4>1 DEF Begins
      <4> QED
        BY <1>6, <2>2, <3>2, <3>4, <4>2
    <3>5. CASE led.out # 0
      <4>1. since + dt = Upto(led.times)[led.out]
        BY <1>1, <1>2, <1>9, <3>5 DEF TxPart, Pace
      <4>2. ~Begins
        BY <1>1, <2>2, <3>5 DEF Begins
      <4>3. since' = since + dt
        BY <1>1, <1>6, <1>7, <1>8, <3>3, <4>1, <4>2
      <4> QED
        BY <2>2, <3>2, <4>1, <4>3
    <3> QED
      BY <3>4, <3>5
  <2>5. Pace'
    BY <1>1, <1>3, <1>9, <2>2, <2>4 DEF Pace, TxP
  <2> QED
    BY <1>3, <1>5, <1>7, <2>2, <2>3, <2>5 DEF TxPart, TxP
<1>10. CASE led.out = n
  <2>1. /\ led' = [times |-> led.times, out |-> led.out + 1, left |-> Pause(TxP, led),
                   repeat |-> led.repeat, lit |-> FALSE]
        /\ Pause(TxP, led) \in Nat
    BY <1>2, <1>3, <1>10, SetNextOK DEF TxPart
  <2>2. /\ led'.times = led.times /\ led'.out = n + 1 /\ led'.repeat = led.repeat
        /\ led'.left = Pause(TxP, led) /\ led'.left \in Nat /\ led'.left # None
        /\ ~led'.lit
    BY <1>2, <1>10, <2>1
  <2>3. due' = Owed(led')
    BY <1>1, <1>3, <1>4, <1>10, <2>2 DEF Owed
  <2>4. led.repeat > 0 => since' + led'.left = Interval[TxP] - 1
    <3> SUFFICES ASSUME led.repeat > 0 PROVE since' + led'.left = Interval[TxP] - 1
      OBVIOUS
    <3>1. since + dt = Sum(led.times)
      BY <1>1, <1>2, <1>10 DEF TxPart, Pace, Sum
    <3>2. since' = Sum(led.times)
      BY <1>1, <1>6, <1>7, <1>8, <2>2, <3>1 DEF Begins
    <3>3. led'.left = Interval[TxP] - Sum(led.times) - 1
      BY <1>7, <2>2, PauseTime DEF TxPart
    <3> QED
      BY <1>1, <1>6, <3>2, <3>3
  <2>5. Pace'
    BY <1>1, <1>3, <2>2, <2>4 DEF Pace, TxP
  <2> QED
    BY <1>3, <1>5, <1>7, <2>2, <2>3, <2>5 DEF TxPart, TxP
<1>11. CASE led.out = n + 1 /\ led.repeat > 0
  <2>1. led' = [times |-> led.times, out |-> 0, left |-> 1,
                repeat |-> led.repeat - 1, lit |-> FALSE]
    <3>1. led.out > n
      BY <1>1, <1>11
    <3> QED
      BY <1>2, <1>3, <1>11, <3>1, SetNextOK DEF TxPart
  <2>2. /\ led'.times = led.times /\ led'.out = 0 /\ led'.repeat = led.repeat - 1
        /\ led'.left = 1 /\ led'.left # None /\ ~led'.lit
    BY <1>2, <2>1
  <2>3. due' = Owed(led')
    BY <1>1, <1>3, <1>4, <1>11, <2>2 DEF Owed
  <2>4. since' + 1 = Interval[TxP]
    <3>1. since + dt = Interval[TxP] - 1
      BY <1>1, <1>2, <1>11 DEF TxPart, Pace
    <3>2. since' = since + dt
      BY <1>1, <1>8, <1>11, <2>2, <3>1 DEF Begins
    <3> QED
      BY <1>1, <3>1, <3>2
  <2>5. Pace'
    BY <1>1, <1>3, <1>11, <2>2, <2>4 DEF Pace, TxP
  <2> QED
    BY <1>1, <1>3, <1>5, <1>7, <1>11, <2>2, <2>3, <2>5 DEF TxPart, TxP
<1>12. CASE led.out = n + 1 /\ led.repeat = 0
  <2>1. led' = [times |-> led.times, out |-> led.out, left |-> None, repeat |-> 0, lit |-> FALSE]
    <3>1. led.out > n
      BY <1>1, <1>12
    <3> QED
      BY <1>2, <1>3, <1>12, <3>1, SetNextOK DEF TxPart
  <2>2. led'.left = None /\ led'.repeat = 0
    BY <2>1
  <2>3. due' = Owed(led')
    BY <1>1, <1>3, <1>4, <1>12, <2>2 DEF Owed
  <2>4. Pace'
    BY <2>2 DEF Pace
  <2> QED
    BY <1>3, <1>5, <2>2, <2>3, <2>4 DEF TxPart, TxP
<1> QED
  BY <1>1, <1>9, <1>10, <1>11, <1>12

\* setOutputTimes gives a stopped transmitter other times.
LEMMA OutputOK ==
    ASSUME NEW p \in Protocols, NEW l, LedOK(p, l), NEW t \in Seq(Nat)
    PROVE  LedOK(p, SetOutputTimes(l, t)) /\ SetOutputTimes(l, t).times = t
<1>1. ASSUME NEW n, n = SetOutputTimes(l, t)
      PROVE  n = [times |-> t, out |-> 0, left |-> None, repeat |-> 0, lit |-> FALSE]
  <2>1. n = [StopLed(l) EXCEPT !.times = t]
    BY <1>1 DEF SetOutputTimes
  <2> QED
    BY <2>1 DEF LedOK, LedRecord, StopLed
<1>2. Len(t) \in Nat /\ MinRepeats[p] \in Nat
  BY RepeatAssumption
<1>3. ASSUME NEW n, n = SetOutputTimes(l, t) PROVE LedOK(p, n) /\ n.times = t
  <2>1. n = [times |-> t, out |-> 0, left |-> None, repeat |-> 0, lit |-> FALSE]
    BY <1>1, <1>3
  <2>2. n \in LedRecord
    BY <2>1 DEF LedRecord, Time
  <2>3. n.times = t /\ n.out = 0 /\ n.left = None /\ n.repeat = 0 /\ ~n.lit
    BY <2>1
  <2> QED
    BY <1>2, <2>2, <2>3 DEF LedOK
<1> QED
  BY <1>3

\* The application starts a transmission of n + 1 frames.
LEMMA TxStart ==
    ASSUME TxPart, TxP \in Protocols, NEW l, LedOK(TxP, l), l.times # <<>>,
           NEW n \in 0..MinRepeats[TxP], n > 0 => Sum(l.times) + 2 <= Interval[TxP],
           led' = StartLed(TxP, l, n), due' = n + 1, since' = 0, UNCHANGED link
    PROVE  TxPart'
<1>1. /\ LedOK(TxP, led') /\ Owed(led') = n + 1
      /\ led' = [times |-> l.times, out |-> 1, left |-> l.times[1], repeat |-> n, lit |-> TRUE]
      /\ l.times[1] \in Nat
  BY StartOK
<1>2. led'.times = l.times /\ led'.out = 1 /\ led'.left = l.times[1] /\ led'.repeat = n
  BY <1>1
<1>3. l.times \in Seq(Nat) /\ Len(l.times) \in Nat /\ Len(l.times) > 0
  BY DEF LedOK, LedRecord
<1>4. Upto(l.times)[1] = l.times[1]
  <2>1. 1 \in 1..Len(l.times) /\ 1 - 1 = 0
    BY <1>3
  <2>2. Upto(l.times)[1] = Upto(l.times)[1 - 1] + l.times[1] /\ Upto(l.times)[0] = 0
    BY <1>3, <2>1, Sums
  <2> QED
    BY <1>1, <2>2
<1>5. Pace'
  BY <1>1, <1>2, <1>3, <1>4 DEF Pace
<1> QED
  BY <1>1, <1>2, <1>5 DEF TxPart, TxP

\* transmit, repeat and stop leave the transmitter with what it owes.
LEMMA TxControl ==
    ASSUME TxPart, TxP \in Protocols, NEW dt \in Delays,
           AppRepeat(dt) \/ AppStop(dt) \/ \E m \in Messages : AppTransmit(m, dt)
    PROVE  TxPart'
<1>1. LedOK(TxP, led) /\ led.times \in Seq(Nat) /\ MinRepeats[TxP] \in Nat
  BY RepeatAssumption DEF TxPart, LedOK, LedRecord
<1>2. ASSUME NEW m \in Messages, AppTransmit(m, dt) PROVE TxPart'
  <2> DEFINE t == MessageTimes(TxP, m[1], m[2])
             l == SetOutputTimes(led, t)
  <2>1. m[1] \in Nat /\ m[2] \in Nat
    BY LinkAssumption
  <2>2. t \in Seq(Nat) /\ Len(t) >= 5
    BY <2>1, MessageTyped
  <2>3. MinRepeats[TxP] > 0 => Sum(t) + 2 <= Interval[TxP]
    BY PauseAssumption
  <2>4. led' = StartLed(TxP, l, MinRepeats[TxP]) /\ due' = MinRepeats[TxP] + 1
        /\ since' = 0 /\ UNCHANGED link
    BY <1>2 DEF AppTransmit, Controls, Transmit
  <2> HIDE DEF t
  <2>5. LedOK(TxP, l) /\ l.times = t /\ t # <<>>
    BY <1>1, <2>2, OutputOK
  <2> HIDE DEF l
  <2> QED
    BY <1>1, <2>3, <2>4, <2>5, TxStart
<1>3. CASE AppRepeat(dt)
  <2> DEFINE l == IF TxP = "nec" THEN SetOutputTimes(led, RepeatTimes) ELSE led
  <2>1. RepeatTimes \in Seq(Nat) /\ RepeatTimes # <<>>
    BY CodecAssumption DEF RepeatTimes
  <2>2. LedOK(TxP, l) /\ l.times # <<>>
    BY <1>1, <1>3, <2>1, OutputOK DEF AppRepeat
  <2>3. led' = StartLed(TxP, l, 0) /\ due' = 0 + 1 /\ since' = 0 /\ UNCHANGED link
    BY <1>3 DEF AppRepeat, Controls, Repeat
  <2> HIDE DEF l
  <2>4. 0 \in 0..MinRepeats[TxP] /\ ~(0 > 0)
    BY <1>1
  <2> QED
    BY <2>2, <2>3, <2>4, TxStart
<1>4. CASE AppStop(dt)
  <2>1. led' = StopLed(led) /\ due' = 0 /\ since' = 0 /\ UNCHANGED link
    BY <1>4 DEF AppStop, Controls
  <2>2. LedOK(TxP, led') /\ Owed(led') = 0 /\ led'.left = None /\ led'.repeat = 0
    BY <1>1, <2>1, StopOK
  <2> QED
    BY <2>1, <2>2 DEF TxPart, Pace, TxP
<1> QED
  BY <1>2, <1>3, <1>4

\* Nothing is transmitted, received or waited for at first.
LEMMA LinkInitial == Init => LinkInv
<1> SUFFICES ASSUME Init PROVE LinkInv
  OBVIOUS
<1>1. PICK l \in Links, t \in Tmos : link = [tx |-> l[1], rx |-> l[2], tmo |-> t]
  BY DEF Init
<1>2. link \in [tx : Protocols, rx : Protocols, tmo : {"error", "fail", "keep"}]
  BY <1>1, LinkAssumption
<1>3. TxP \in Protocols /\ RxP \in Protocols
  BY <1>2 DEF TxP, RxP
<1>4. noise \in 0..MaxNoise /\ gap \in 0..MaxGap
  BY LinkAssumption DEF Init
<1>5. LedOK(TxP, led) /\ led.left = None /\ led.repeat = 0
  BY <1>3, RepeatAssumption DEF Init, NewLed, LedOK, LedRecord, Time
<1>6. RxOK(RxP, rx) /\ rx.permits = 1
  <2>1. MessageLen(RxP) \in Nat /\ MessageLen(RxP) > 0
    BY <1>3, MessageTyped, 0 \in Nat
  <2>2. RxRecord(rx)
    BY DEF Init, NewReceiver, RxRecord
  <2> QED
    BY <2>1, <2>2 DEF Init, NewReceiver, RxOK, Time
<1>7. TxPart
  BY <1>5 DEF Init, TxPart, Owed, Pace
<1>8. RxPart
  BY <1>4, <1>6 DEF Init, RxPart, NotStale
<1> QED
  BY <1>2, <1>4, <1>7, <1>8 DEF LinkInv

\* Every step of the alarms, the application, the interference and the waiting
\* thread keeps the invariant.
LEMMA LinkStep ==
    ASSUME LinkInv, [Next]_vars
    PROVE  LinkInv'
<1>1. /\ TxP \in Protocols /\ RxP \in Protocols /\ link.tmo \in {"error", "fail", "keep"}
      /\ TxPart /\ RxPart /\ noise \in 0..MaxNoise /\ MaxNoise \in Nat
  BY LinkAssumption DEF LinkInv, TxP, RxP
<1>2. /\ RxOK(RxP, rx) /\ gap \in 0..MaxGap /\ None \notin Nat
      /\ rx.msgLeft \in Time /\ rx.bitLeft \in Time /\ led.left \in Time
  BY <1>1, CodecAssumption DEF RxPart, TxPart, RxOK, LedOK, LedRecord
<1>3. ASSUME NEW seen \in BOOLEAN, LedAlarm(seen) PROVE LinkInv'
  <2>1. led.left \in Nat /\ CanPass(led.left)
    BY <1>2, <1>3 DEF LedAlarm, Time
  <2>2. RxOK(RxP, rx') /\ Released(RxLater(led.left), rx') /\ gap' \in 0..MaxGap
    BY <1>1, <1>2, <1>3, <2>1, SeesOK DEF LedAlarm
  <2>3. RxPart'
    BY <1>1, <1>3, <2>1, <2>2, ReceiverKeeps DEF LedAlarm
  <2>4. TxPart'
    BY <1>1, <1>3, TxAlarm
  <2>5. noise' \in 0..MaxNoise
    BY <1>1, <1>3 DEF LedAlarm
  <2> QED
    BY <1>3, <2>3, <2>4, <2>5 DEF LinkInv, LedAlarm
<1>4. CASE MsgAlarm
  <2> DEFINE dt == rx.msgLeft
  <2>1. dt \in Nat /\ CanPass(dt) /\ dt # None
    BY <1>2, <1>4 DEF MsgAlarm, Time
  <2>2. RxOK(RxP, RxLater(dt)) /\ RxLater(dt).msgLeft # None
    BY <1>1, <1>2, <2>1, RxLaterOK
  <2>3. rx' = TimeoutMsg(RxLater(dt), link.tmo) /\ gap' = GapLater(dt)
    BY <1>4 DEF MsgAlarm
  <2>4. RxOK(RxP, rx') /\ Released(RxLater(dt), rx')
    BY <1>1, <2>2, <2>3, TimeoutMsgOK
  <2>5. gap' \in 0..MaxGap
    BY <1>2, <2>1, <2>3, GapTyped
  <2>6. RxPart'
    BY <1>1, <1>4, <2>1, <2>4, <2>5, ReceiverKeeps DEF MsgAlarm, Listens
  <2>7. TxPart'
    BY <1>1, <1>4, <2>1, TxLater DEF MsgAlarm
  <2> QED
    BY <1>1, <1>4, <2>6, <2>7 DEF LinkInv, MsgAlarm
<1>5. CASE BitAlarm
  <2> DEFINE dt == rx.bitLeft
  <2>1. dt \in Nat /\ CanPass(dt) /\ dt # None
    BY <1>2, <1>5 DEF BitAlarm, Time
  <2>2. RxOK(RxP, RxLater(dt)) /\ RxLater(dt).bitLeft # None
    BY <1>1, <1>2, <2>1, RxLaterOK
  <2>3. rx' = TimeoutBit(RxLater(dt), link.tmo) /\ gap' = GapLater(dt)
    BY <1>5 DEF BitAlarm
  <2>4. RxOK(RxP, rx') /\ Released(RxLater(dt), rx')
    BY <1>1, <2>2, <2>3, TimeoutBitOK
  <2>5. gap' \in 0..MaxGap
    BY <1>2, <2>1, <2>3, GapTyped
  <2>6. RxPart'
    BY <1>1, <1>5, <2>1, <2>4, <2>5, ReceiverKeeps DEF BitAlarm, Listens
  <2>7. TxPart'
    BY <1>1, <1>5, <2>1, TxLater DEF BitAlarm
  <2> QED
    BY <1>1, <1>5, <2>6, <2>7 DEF LinkInv, BitAlarm
<1>6. ASSUME NEW dt \in Delays,
             AppRepeat(dt) \/ AppStop(dt) \/ \E m \in Messages : AppTransmit(m, dt)
      PROVE  LinkInv'
  <2>1. PICK l, n : Controls(l, n, dt)
    BY <1>6 DEF AppRepeat, AppStop, AppTransmit
  <2>2. dt \in Nat /\ CanPass(dt)
    BY <2>1, LinkAssumption DEF Controls
  <2>3. RxOK(RxP, rx') /\ Released(RxLater(dt), rx') /\ gap' \in 0..MaxGap
    BY <1>1, <1>2, <2>1, <2>2, SeesOK DEF Controls
  <2>4. RxPart'
    BY <1>1, <2>1, <2>2, <2>3, ReceiverKeeps DEF Controls
  <2>5. TxPart'
    BY <1>1, <1>6, TxControl
  <2>6. noise' \in 0..MaxNoise
    BY <1>1, <2>1 DEF Controls
  <2> QED
    BY <2>1, <2>4, <2>5, <2>6 DEF LinkInv, Controls
<1>7. ASSUME NEW dt \in Delays, NEW falling \in BOOLEAN, Glitch(dt, falling) PROVE LinkInv'
  <2>1. dt \in Nat /\ CanPass(dt)
    BY <1>7, LinkAssumption DEF Glitch
  <2>2. RxOK(RxP, RxLater(dt)) /\ GapLater(dt) \in Nat /\ 0 \in 0..MaxGap
    BY <1>1, <1>2, <2>1, RxLaterOK, GapTyped, LinkAssumption
  <2>3. RxOK(RxP, rx') /\ Released(RxLater(dt), rx') /\ gap' \in 0..MaxGap
    BY <1>1, <1>7, <2>2, StoreOK DEF Glitch
  <2>4. RxPart'
    BY <1>1, <1>7, <2>1, <2>3, ReceiverKeeps DEF Glitch
  <2>5. TxPart'
    BY <1>1, <1>7, <2>1, TxLater DEF Glitch
  <2>6. noise' \in 0..MaxNoise
    BY <1>1, <1>7 DEF Glitch
  <2> QED
    BY <1>7, <2>4, <2>5, <2>6 DEF LinkInv, Glitch
<1>8. CASE AppStartTimeout
  <2>1. RxOK(RxP, rx') /\ rx'.permits = rx.permits
    BY <1>1, <1>2, <1>8, StartTimeoutOK DEF AppStartTimeout
  <2>2. RxPart'
    BY <1>1, <1>8, <2>1 DEF AppStartTimeout, ghosts, RxPart, NotStale, RxP
  <2>3. TxPart'
    BY <1>1, <1>8 DEF AppStartTimeout, ghosts, TxPart, Pace, TxP
  <2> QED
    BY <1>1, <1>8, <2>2, <2>3 DEF LinkInv, AppStartTimeout
<1>9. CASE WaitBegins \/ WaitTimesOut
  <2>1. ASSUME NEW n \in 0..1, NEW s, s = [rx EXCEPT !.permits = n]
        PROVE  RxOK(RxP, s) /\ s.permits = n
    <3>1. s = [sync |-> rx.sync, pulses |-> rx.pulses, rptAddr |-> rx.rptAddr,
               rptFunc |-> rx.rptFunc, msgLeft |-> rx.msgLeft, bitLeft |-> rx.bitLeft,
               prev |-> rx.prev, permits |-> n, heard |-> rx.heard]
      BY <1>2, <2>1 DEF RxOK, RxRecord
    <3>2. RxRecord(s)
      BY <3>1 DEF RxRecord
    <3> QED
      BY <1>2, <3>1, <3>2 DEF RxOK
  <2>2. RxOK(RxP, rx') /\ (WaitBegins => rx'.permits = 0) /\ (WaitTimesOut => rx'.permits = 1)
    BY <1>9, <2>1 DEF WaitBegins, WaitTimesOut
  <2>3. RxPart'
    BY <1>1, <1>9, <2>2 DEF WaitBegins, WaitTimesOut, ghosts, RxPart, NotStale, RxP
  <2>4. TxPart'
    BY <1>1, <1>9 DEF WaitBegins, WaitTimesOut, ghosts, TxPart, Pace, TxP
  <2> QED
    BY <1>1, <1>9, <2>3, <2>4 DEF LinkInv, WaitBegins, WaitTimesOut
<1>10. CASE WaitWakes \/ UNCHANGED vars
  <2>1. RxPart'
    BY <1>1, <1>10 DEF WaitWakes, vars, ghosts, RxPart, NotStale, RxP
  <2>2. TxPart'
    BY <1>1, <1>10 DEF WaitWakes, vars, ghosts, TxPart, Pace, TxP
  <2> QED
    BY <1>1, <1>10, <2>1, <2>2 DEF LinkInv, WaitWakes, vars
<1> QED
  BY <1>3, <1>4, <1>5, <1>6, <1>7, <1>8, <1>9, <1>10 DEF Next

-----------------------------------------------------------------------------
(* The theorems                                                             *)

\* The inductive invariant of the link.
THEOREM LinkInvariance == Spec => []LinkInv
<1>1. Init => LinkInv
  BY LinkInitial
<1>2. LinkInv /\ [Next]_vars => LinkInv'
  BY LinkStep
<1> QED
  BY <1>1, <1>2, PTL DEF Spec

\* Type correctness: out_index_ and repeat_ keep within what is transmitted, and
\* no receive buffer outgrows a message, whatever interference there is.
THEOREM LinkType == Spec => []TypeOK
<1>1. LinkInv => TypeOK
  <2> SUFFICES ASSUME LinkInv PROVE TypeOK
    OBVIOUS
  <2>1. LedOK(TxP, led) /\ RxOK(RxP, rx) /\ TxP \in Protocols
    BY DEF LinkInv, TxPart, RxPart, TxP
  <2>2. led.out \in 0..(Len(led.times) + 1) /\ led.repeat \in 0..MinRepeats[TxP]
    <3>1. led.times \in Seq(Nat) /\ Len(led.times) \in Nat /\ led.out \in Nat
          /\ led.repeat \in Nat /\ MinRepeats[TxP] \in Nat
      BY <2>1, RepeatAssumption DEF LedOK, LedRecord
    <3> QED
      BY <2>1, <3>1 DEF LedOK
  <2> QED
    BY <2>1, <2>2 DEF LinkInv, RxPart, RxOK, TypeOK
<1> QED
  BY <1>1, LinkInvariance, PTL

\* Nothing is left behind by what is over: no bit timer outside a message, no light
\* without an alarm that turns it off, and a permit for the next wait_for_message.
THEOREM LinkAtRest == Spec => []AtRest
<1>1. LinkInv => AtRest
  BY DEF LinkInv, TxPart, RxPart, RxOK, LedOK, AtRest
<1> QED
  BY <1>1, LinkInvariance, PTL

\* transmit and repeat send exactly the repetitions of the protocol (set_next), for
\* all messages and numbers of repetitions.
THEOREM LinkAllFrames == Spec => []AllFramesSent
<1>1. LinkInv => AllFramesSent
  <2> SUFFICES ASSUME LinkInv PROVE AllFramesSent
    OBVIOUS
  <2>1. due = Owed(led) /\ led.repeat \in Nat
    BY DEF LinkInv, TxPart, LedOK, LedRecord
  <2> QED
    BY <2>1 DEF Owed, AllFramesSent
<1> QED
  BY <1>1, LinkInvariance, PTL

\* wait_for_message returns true only for a message that ended after the call.
THEOREM LinkNotStale == Spec => []NotStale
<1>1. LinkInv => NotStale
  BY DEF LinkInv, RxPart
<1> QED
  BY <1>1, LinkInvariance, PTL

\* The frames of a message begin repeatInterval() apart, for all messages that leave
\* time for a pause: set_next subtracts every time it sent, and its own last unit.
THEOREM LinkEvenFrames == Spec => EvenFrames
<1>1. LinkInv /\ [Next]_vars => [LedAlarm(TRUE) /\ Begins => SinceLater(led.left) = Interval[TxP]]_vars
  <2> SUFFICES ASSUME LinkInv, LedAlarm(TRUE), Begins PROVE SinceLater(led.left) = Interval[TxP]
    OBVIOUS
  <2>1. TxP \in Protocols /\ TxPart /\ LedOK(TxP, led)
    BY DEF LinkInv, TxPart, TxP
  <2>2. /\ led.left # None /\ led.left \in Nat /\ led.times # <<>> /\ led.times \in Seq(Nat)
        /\ Len(led.times) \in Nat /\ Len(led.times) > 0 /\ led.out \in Nat /\ led.repeat \in Nat
        /\ led.out <= Len(led.times) + 1 /\ since \in Nat
    BY <2>1 DEF LedAlarm, TxPart, LedOK, LedRecord, Time
  <2>3. led' = SetNext(TxP, led) /\ led'.out = 1 /\ led'.lit
    BY DEF LedAlarm, Begins
  <2>4. led.out = 0
    <3>1. CASE led.out < Len(led.times)
      <4>1. led'.out = led.out + 1
        BY <2>1, <2>2, <2>3, <3>1, SetNextOK
      <4> QED
        BY <2>2, <2>3, <4>1
    <3>2. CASE led.out >= Len(led.times)
      <4>1. ~led'.lit
        BY <2>1, <2>2, <2>3, <3>2, SetNextOK
      <4> QED
        BY <2>3, <4>1
    <3> QED
      BY <2>2, <3>1, <3>2
  <2>5. since + led.left = Interval[TxP] /\ MinRepeats[TxP] > 0
    BY <2>1, <2>2, <2>4 DEF TxPart, Pace
  <2>6. due > 0 /\ Interval[TxP] \in Nat
    BY <2>1, <2>2, <2>4, RepeatAssumption DEF TxPart, Owed
  <2>7. PICK dt \in Nat : dt = led.left
    BY <2>2
  <2>8. since + dt <= Interval[TxP]
    BY <2>2, <2>5, <2>6, <2>7
  <2>9. SinceLater(dt) = since + dt
    BY <2>1, <2>2, <2>5, <2>6, <2>8, SinceTyped
  <2> QED
    BY <2>5, <2>7, <2>9
<1> QED
  BY <1>1, LinkInvariance, PTL DEF Spec, EvenFrames

-----------------------------------------------------------------------------
(* What the receiver makes of an edge, field by field                       *)

\* Two receivers are at the same place in a message.
SamePlace(r, s) == /\ s.sync = r.sync /\ s.pulses = r.pulses /\ s.heard = r.heard
                   /\ s.prev = r.prev

\* A receiver that waits for a message.
Waiting(r) == r.sync = 0 /\ r.pulses = <<>> /\ r.msgLeft = None /\ r.bitLeft = None

\* Time passes: the timers run on.
LEMMA LaterFields ==
    ASSUME NEW p \in Protocols, RxOK(p, rx), NEW dt \in Nat, CanPass(dt)
    PROVE  /\ SamePlace(rx, RxLater(dt))
           /\ RxLater(dt).msgLeft = Later(rx.msgLeft, dt)
           /\ RxLater(dt).bitLeft = Later(rx.bitLeft, dt)
<1>1. ASSUME NEW s, s = RxLater(dt)
      PROVE  s = [sync |-> rx.sync, pulses |-> rx.pulses, rptAddr |-> rx.rptAddr,
                  rptFunc |-> rx.rptFunc, msgLeft |-> Later(rx.msgLeft, dt),
                  bitLeft |-> Later(rx.bitLeft, dt), prev |-> rx.prev,
                  permits |-> rx.permits, heard |-> rx.heard]
  BY <1>1 DEF RxLater, RxOK, RxRecord
<1>2. ASSUME NEW s, s = RxLater(dt)
      PROVE  SamePlace(rx, s) /\ s.msgLeft = Later(rx.msgLeft, dt)
             /\ s.bitLeft = Later(rx.bitLeft, dt)
  BY <1>1, <1>2 DEF SamePlace
<1> QED
  BY <1>2

\* What reset leaves.
LEMMA ResetFields ==
    ASSUME NEW r, RxRecord(r)
    PROVE  Waiting(Reset(r)) /\ Reset(r).heard = r.heard
<1>1. ASSUME NEW s, s = Reset(r)
      PROVE  s = [sync |-> 0, pulses |-> <<>>, rptAddr |-> r.rptAddr, rptFunc |-> r.rptFunc,
                  msgLeft |-> None, bitLeft |-> None, prev |-> 0, permits |-> 1, heard |-> r.heard]
  BY <1>1 DEF Reset, RxRecord
<1>2. ASSUME NEW s, s = Reset(r) PROVE Waiting(s) /\ s.heard = r.heard
  BY <1>1, <1>2 DEF Waiting
<1> QED
  BY <1>2

\* An edge before a message that does not end a sync mark.
LEMMA MarkIgnored ==
    ASSUME NEW p \in Protocols, NEW r, RxOK(p, r), r.sync = 0, NEW d \in Nat, NEW falling,
           ~(falling /\ ComparePulse(d, SyncMark[p])), NEW s, s = StoreTimestamp(p, r, d, falling)
    PROVE  /\ s.sync = 0 /\ s.pulses = <<>> /\ s.heard = r.heard
           /\ s.msgLeft = r.msgLeft /\ s.bitLeft = r.bitLeft
<1>1. s = WaitMark(p, r, d, falling)
  BY DEF StoreTimestamp
<1>2. s = [r EXCEPT !.pulses = <<>>]
  BY <1>1 DEF WaitMark
<1>3. s = [sync |-> r.sync, pulses |-> <<>>, rptAddr |-> r.rptAddr, rptFunc |-> r.rptFunc,
           msgLeft |-> r.msgLeft, bitLeft |-> r.bitLeft, prev |-> r.prev,
           permits |-> r.permits, heard |-> r.heard]
  BY <1>2 DEF RxOK, RxRecord
<1> QED
  BY <1>3

\* The end of a sync mark of duration d begins a message, and the timers.
Begun(r, d, s) ==
    /\ s.sync = 1 /\ Len(s.pulses) = 1 /\ s.pulses[1] = d /\ s.heard = r.heard
    /\ (MsgTimeout > 0 /\ r.msgLeft = None) => s.msgLeft = MsgTimeout
    /\ ~(MsgTimeout > 0 /\ r.msgLeft = None) => s.msgLeft = r.msgLeft
    /\ BitTimeout > 0 => s.bitLeft = BitTimeout /\ s.prev = 1
    /\ ~(BitTimeout > 0) => s.bitLeft = r.bitLeft

\* An edge that ends a sync mark.
LEMMA MarkTaken ==
    ASSUME NEW p \in Protocols, NEW r, RxOK(p, r), r.sync = 0, NEW d \in Nat, NEW falling,
           NEW s, s = StoreTimestamp(p, r, d, falling)
    PROVE  (falling /\ ComparePulse(d, SyncMark[p])) => Begun(r, d, s)
<1>c. SUFFICES ASSUME falling /\ ComparePulse(d, SyncMark[p]) PROVE Begun(r, d, s)
  OBVIOUS
<1>0. s = WaitMark(p, r, d, falling)
  BY DEF StoreTimestamp
<1>p. PICK one : one = <<d>>
  OBVIOUS
<1> DEFINE a == [r EXCEPT !.sync = 1, !.pulses = one]
           m == IF MsgTimeout > 0 /\ r.msgLeft = None THEN MsgTimeout ELSE r.msgLeft
<1>1. s = StartTimeout(a)
  BY <1>c, <1>0, <1>p DEF WaitMark
<1>2. ASSUME NEW b, b = a
      PROVE  b = [sync |-> 1, pulses |-> one, rptAddr |-> r.rptAddr, rptFunc |-> r.rptFunc,
                  msgLeft |-> r.msgLeft, bitLeft |-> r.bitLeft, prev |-> r.prev,
                  permits |-> r.permits, heard |-> r.heard]
  BY <1>2 DEF RxOK, RxRecord
<1> HIDE DEF a
<1>3. a = [sync |-> 1, pulses |-> one, rptAddr |-> r.rptAddr, rptFunc |-> r.rptFunc,
           msgLeft |-> r.msgLeft, bitLeft |-> r.bitLeft, prev |-> r.prev,
           permits |-> r.permits, heard |-> r.heard]
  BY <1>2
<1>4. ASSUME NEW b, b = StartMessageTimeout(a)
      PROVE  b = [sync |-> 1, pulses |-> one, rptAddr |-> r.rptAddr, rptFunc |-> r.rptFunc,
                  msgLeft |-> m, bitLeft |-> r.bitLeft, prev |-> r.prev,
                  permits |-> r.permits, heard |-> r.heard]
  BY <1>3, <1>4 DEF StartMessageTimeout
<1> DEFINE b == StartMessageTimeout(a)
<1>5. b = [sync |-> 1, pulses |-> one, rptAddr |-> r.rptAddr, rptFunc |-> r.rptFunc,
           msgLeft |-> m, bitLeft |-> r.bitLeft, prev |-> r.prev,
           permits |-> r.permits, heard |-> r.heard]
  BY <1>4
<1>6. s = IF BitTimeout > 0 THEN [b EXCEPT !.prev = Len(a.pulses), !.bitLeft = BitTimeout] ELSE b
  BY <1>1 DEF StartTimeout
<1>7. a.pulses = one /\ Len(a.pulses) = 1 /\ Len(one) = 1 /\ one[1] = d
  BY <1>p, <1>3
<1> HIDE DEF b, m
<1>8. CASE BitTimeout > 0
  <2>1. s = [sync |-> 1, pulses |-> one, rptAddr |-> r.rptAddr, rptFunc |-> r.rptFunc,
             msgLeft |-> m, bitLeft |-> BitTimeout, prev |-> 1,
             permits |-> r.permits, heard |-> r.heard]
    BY <1>5, <1>6, <1>7, <1>8
  <2>2. /\ s.sync = 1 /\ s.pulses = one /\ s.heard = r.heard /\ s.msgLeft = m
        /\ s.bitLeft = BitTimeout /\ s.prev = 1
    BY <2>1
  <2> QED
    BY <1>7, <1>8, <2>2 DEF m, Begun
<1>9. CASE ~(BitTimeout > 0)
  <2>1. s = b
    BY <1>6, <1>9
  <2>2. /\ s.sync = 1 /\ s.pulses = one /\ s.heard = r.heard /\ s.msgLeft = m
        /\ s.bitLeft = r.bitLeft
    BY <1>5, <2>1
  <2> QED
    BY <1>7, <1>9, <2>2 DEF m, Begun
<1> QED
  BY <1>8, <1>9

\* A pulse of duration d of a message is stored, and nothing else happens.
Stored(r, d, s) == /\ s.sync = 2 /\ s.pulses = Append(r.pulses, d) /\ s.heard = r.heard
                   /\ s.msgLeft = r.msgLeft /\ s.bitLeft = r.bitLeft /\ s.prev = r.prev

\* The edge after the sync mark.
LEMMA SpaceFields ==
    ASSUME NEW p \in Protocols, NEW r, RxOK(p, r), r.sync = 1, NEW d \in Nat, NEW falling,
           NEW s, s = StoreTimestamp(p, r, d, falling)
    PROVE  /\ (~falling /\ ComparePulse(d, SyncSpace[p])) => Stored(r, d, s)
           /\ ~(~falling /\ ComparePulse(d, SyncSpace[p])) =>
                /\ Waiting(s)
                /\ (p = "nec" /\ ~falling /\ ComparePulse(d, 4)) => s.heard.kind = "repeat"
                /\ ~(p = "nec" /\ ~falling /\ ComparePulse(d, 4)) => s.heard = r.heard
<1>1. s = WaitSpace(p, r, d, falling)
  BY DEF StoreTimestamp
<1>2. CASE ~falling /\ ComparePulse(d, SyncSpace[p])
  <2>1. s = [r EXCEPT !.sync = 2, !.pulses = Append(r.pulses, d)]
    BY <1>1, <1>2 DEF WaitSpace
  <2>2. s = [sync |-> 2, pulses |-> Append(r.pulses, d), rptAddr |-> r.rptAddr,
             rptFunc |-> r.rptFunc, msgLeft |-> r.msgLeft, bitLeft |-> r.bitLeft, prev |-> r.prev,
             permits |-> r.permits, heard |-> r.heard]
    BY <2>1 DEF RxOK, RxRecord
  <2> QED
    BY <1>2, <2>2 DEF Stored
<1>3. Waiting(Reset(r)) /\ Reset(r).heard = r.heard /\ RxRecord(Reset(r))
  BY ResetFields, ResetOK DEF RxOK
<1>4. CASE ~(~falling /\ ComparePulse(d, SyncSpace[p])) /\ (p = "nec" /\ ~falling /\ ComparePulse(d, 4))
  <2> DEFINE q == Reset(r)
  <2>1. s = [q EXCEPT !.heard = Event(r, "repeat")]
    BY <1>1, <1>4 DEF WaitSpace
  <2>2. Waiting(q) /\ RxRecord(q)
    BY <1>3
  <2> HIDE DEF q
  <2>3. s = [sync |-> q.sync, pulses |-> q.pulses, rptAddr |-> q.rptAddr, rptFunc |-> q.rptFunc,
             msgLeft |-> q.msgLeft, bitLeft |-> q.bitLeft, prev |-> q.prev,
             permits |-> q.permits, heard |-> Event(r, "repeat")]
    BY <2>1, <2>2 DEF RxRecord
  <2>4. Event(r, "repeat").kind = "repeat"
    BY DEF Event
  <2> QED
    BY <1>4, <2>2, <2>3, <2>4 DEF Waiting
<1>5. CASE ~(~falling /\ ComparePulse(d, SyncSpace[p])) /\ ~(p = "nec" /\ ~falling /\ ComparePulse(d, 4))
  <2>1. s = Reset(r)
    BY <1>1, <1>5 DEF WaitSpace
  <2> QED
    BY <1>3, <1>5, <2>1
<1> QED
  BY <1>2, <1>4, <1>5

\* What the application is told of a message that was decoded.
Result(m) == IF m.ok THEN [kind |-> "msg", addr |-> m.addr, func |-> m.func] ELSE ErrorEvent

\* A pulse of the message, and the last one.
LEMMA PulseFields ==
    ASSUME NEW p \in Protocols, NEW r, RxOK(p, r), r.sync = 2, NEW d \in Nat, NEW falling,
           NEW s, s = StoreTimestamp(p, r, d, falling)
    PROVE  /\ Len(r.pulses) + 1 # MessageLen(p) => Stored(r, d, s)
           /\ Len(r.pulses) + 1 = MessageLen(p) =>
                /\ Waiting(s)
                /\ s.heard = Result(Decode(p, Append(r.pulses, d), Address))
<1> DEFINE a == [r EXCEPT !.pulses = Append(r.pulses, d)]
           m == Decode(p, Append(r.pulses, d), Address)
<1>1. s = IF Len(a.pulses) = MessageLen(p) THEN MessageComplete(p, a) ELSE a
  BY DEF StoreTimestamp, Collect
<1>2. ASSUME NEW b, b = a
      PROVE  b = [sync |-> 2, pulses |-> Append(r.pulses, d), rptAddr |-> r.rptAddr,
                  rptFunc |-> r.rptFunc, msgLeft |-> r.msgLeft, bitLeft |-> r.bitLeft,
                  prev |-> r.prev, permits |-> r.permits, heard |-> r.heard]
  BY <1>2 DEF RxOK, RxRecord
<1> HIDE DEF a
<1>3. a = [sync |-> 2, pulses |-> Append(r.pulses, d), rptAddr |-> r.rptAddr,
           rptFunc |-> r.rptFunc, msgLeft |-> r.msgLeft, bitLeft |-> r.bitLeft,
           prev |-> r.prev, permits |-> r.permits, heard |-> r.heard]
  BY <1>2
<1>4. a.pulses = Append(r.pulses, d) /\ Len(a.pulses) = Len(r.pulses) + 1
  BY <1>3, Appended DEF RxOK
<1>5. CASE Len(r.pulses) + 1 # MessageLen(p)
  <2>1. s = a
    BY <1>1, <1>4, <1>5
  <2> QED
    BY <1>3, <1>5, <2>1 DEF Stored
<1>6. CASE Len(r.pulses) + 1 = MessageLen(p)
  <2> HIDE DEF m
  <2> DEFINE b == [a EXCEPT !.rptAddr = m.addr, !.rptFunc = m.func]
             h == IF m.ok THEN Event(b, "msg") ELSE ErrorEvent
             c == [b EXCEPT !.heard = h]
  <2>1. s = Reset(c)
    BY <1>1, <1>4, <1>6 DEF MessageComplete, m
  <2>2. ASSUME NEW x, x = b
        PROVE  x = [sync |-> 2, pulses |-> Append(r.pulses, d), rptAddr |-> m.addr,
                    rptFunc |-> m.func, msgLeft |-> r.msgLeft, bitLeft |-> r.bitLeft,
                    prev |-> r.prev, permits |-> r.permits, heard |-> r.heard]
    BY <1>3, <2>2
  <2> HIDE DEF b
  <2>3. b = [sync |-> 2, pulses |-> Append(r.pulses, d), rptAddr |-> m.addr,
             rptFunc |-> m.func, msgLeft |-> r.msgLeft, bitLeft |-> r.bitLeft,
             prev |-> r.prev, permits |-> r.permits, heard |-> r.heard]
    BY <2>2
  <2>4. h = Result(m)
    BY <2>3 DEF Event, Result
  <2> HIDE DEF h
  <2>5. ASSUME NEW x, x = c PROVE RxRecord(x) /\ x.heard = h
    <3>1. x = [sync |-> 2, pulses |-> Append(r.pulses, d), rptAddr |-> m.addr,
               rptFunc |-> m.func, msgLeft |-> r.msgLeft, bitLeft |-> r.bitLeft,
               prev |-> r.prev, permits |-> r.permits, heard |-> h]
      BY <2>3, <2>5
    <3> QED
      BY <3>1 DEF RxRecord
  <2> HIDE DEF c
  <2>6. Waiting(s) /\ s.heard = h
    BY <2>1, <2>5, ResetFields
  <2> QED
    BY <1>6, <2>4, <2>6 DEF m
<1> QED
  BY <1>5, <1>6

\* The bit timer looks again, or ends the message.
LEMMA BitFields ==
    ASSUME NEW p \in Protocols, NEW r, RxOK(p, r), r.sync # 0,
           NEW tmo \in {"error", "fail", "keep"}, NEW s, s = TimeoutBit(r, tmo)
    PROVE  /\ (Silent(r) /\ tmo # "keep") => Waiting(s)
           /\ ~(Silent(r) /\ tmo # "keep") =>
                /\ s.sync = r.sync /\ s.pulses = r.pulses /\ s.heard = r.heard
                /\ s.msgLeft = r.msgLeft /\ s.bitLeft = BitTimeout /\ s.prev = Len(r.pulses)
<1>1. CASE Silent(r) /\ tmo # "keep"
  <2>1. s = Timeout(r, tmo)
    BY <1>1 DEF TimeoutBit
  <2>2. CASE tmo = "fail"
    BY <1>1, <2>1, <2>2, ResetFields DEF Timeout, RxOK
  <2>3. CASE tmo = "error"
    <3> DEFINE q == [r EXCEPT !.heard = ErrorEvent]
    <3>1. ASSUME NEW x, x = q PROVE RxRecord(x)
      BY <3>1 DEF RxOK, RxRecord
    <3>2. s = Reset(q)
      BY <2>1, <2>3 DEF Timeout
    <3> HIDE DEF q
    <3> QED
      BY <1>1, <3>1, <3>2, ResetFields
  <2> QED
    BY <1>1, <2>2, <2>3
<1>2. CASE ~(Silent(r) /\ tmo # "keep")
  <2>1. s = [r EXCEPT !.prev = Len(r.pulses), !.bitLeft = BitTimeout]
    BY <1>2 DEF TimeoutBit
  <2>2. s = [sync |-> r.sync, pulses |-> r.pulses, rptAddr |-> r.rptAddr, rptFunc |-> r.rptFunc,
             msgLeft |-> r.msgLeft, bitLeft |-> BitTimeout, prev |-> Len(r.pulses),
             permits |-> r.permits, heard |-> r.heard]
    BY <2>1 DEF RxOK, RxRecord
  <2> QED
    BY <1>2, <2>2
<1> QED
  BY <1>1, <1>2

\* The message timer ends the message, or only itself.
LEMMA MsgFields ==
    ASSUME NEW p \in Protocols, NEW r, RxOK(p, r),
           NEW tmo \in {"error", "fail", "keep"}, NEW s, s = TimeoutMsg(r, tmo)
    PROVE  /\ tmo # "keep" => s.sync = 0 /\ s.bitLeft = None
           /\ tmo = "keep" => SamePlace(r, s) /\ s.bitLeft = r.bitLeft
<1> DEFINE q == Timeout(r, tmo)
<1>1. RxRecord(q) /\ (tmo # "keep" => Waiting(q)) /\ (tmo = "keep" => q = r)
  <2>1. CASE tmo = "fail"
    BY <2>1, ResetFields, ResetOK DEF Timeout, RxOK
  <2>2. CASE tmo = "error"
    <3> DEFINE a == [r EXCEPT !.heard = ErrorEvent]
    <3>1. ASSUME NEW x, x = a PROVE RxRecord(x)
      BY <3>1 DEF RxOK, RxRecord
    <3>2. q = Reset(a)
      BY <2>2 DEF Timeout
    <3> HIDE DEF a, q
    <3> QED
      BY <2>2, <3>1, <3>2, ResetFields, ResetOK DEF RxOK
  <2>3. CASE tmo = "keep"
    BY <2>3 DEF Timeout, RxOK
  <2> QED
    BY <2>1, <2>2, <2>3
<1>2. s = [q EXCEPT !.msgLeft = None]
  BY DEF TimeoutMsg
<1> HIDE DEF q
<1>3. s = [sync |-> q.sync, pulses |-> q.pulses, rptAddr |-> q.rptAddr, rptFunc |-> q.rptFunc,
           msgLeft |-> None, bitLeft |-> q.bitLeft, prev |-> q.prev,
           permits |-> q.permits, heard |-> q.heard]
  BY <1>1, <1>2 DEF RxRecord
<1> QED
  BY <1>1, <1>3 DEF Waiting, SamePlace

-----------------------------------------------------------------------------
(* The bit timer                                                            *)

\* What the bit timer of receiver r knows, time g after the last edge: it runs
\* while a message is received, and unless the application keeps the message it
\* looks for the second time at most two timeouts after the last edge.
BitTimed(r, g, tmo) ==
    /\ BitTimeout = 0 => r.bitLeft = None
    /\ (BitTimeout > 0 /\ r.sync # 0) =>
         /\ r.bitLeft # None /\ r.bitLeft <= BitTimeout
         /\ r.prev \in Nat /\ r.prev <= Len(r.pulses)
         /\ (r.sync = 2 /\ tmo # "keep") =>
              /\ g + r.bitLeft <= 2 * BitTimeout
              /\ r.prev # Len(r.pulses) => g + r.bitLeft <= BitTimeout

\* Outside a message there is nothing to know.
LEMMA BitTimedOutside ==
    ASSUME NEW r, r.sync = 0, r.bitLeft = None, NEW g, NEW tmo
    PROVE  BitTimed(r, g, tmo)
  BY DEF BitTimed

\* It depends on the message alone.
LEMMA BitTimedSame ==
    ASSUME NEW r, NEW s, s.sync = r.sync, s.pulses = r.pulses, s.prev = r.prev,
           s.bitLeft = r.bitLeft, NEW g, NEW tmo, BitTimed(r, g, tmo)
    PROVE  BitTimed(s, g, tmo)
  BY DEF BitTimed

\* The gap grows by the time that passes, until it is no longer told apart.
LEMMA GapGrows ==
    ASSUME gap \in 0..MaxGap, NEW dt \in Nat
    PROVE  /\ GapLater(dt) \in Nat /\ GapLater(dt) <= gap + dt /\ gap \in Nat
           /\ gap + dt <= MaxGap => GapLater(dt) = gap + dt
<1>1. MaxGap \in Nat /\ gap \in Nat /\ gap + dt \in Int
  BY LinkAssumption
<1>2. GapLater(dt) = IF MaxGap <= gap + dt THEN MaxGap ELSE gap + dt
  BY <1>1, MinMax DEF GapLater
<1> QED
  BY <1>1, <1>2

\* Time passes.
LEMMA BitTimedLater ==
    ASSUME NEW p \in Protocols, RxOK(p, rx), gap \in 0..MaxGap, NEW dt \in Nat, CanPass(dt),
           NEW tmo, BitTimed(rx, gap, tmo)
    PROVE  BitTimed(RxLater(dt), GapLater(dt), tmo)
<1> SUFFICES ASSUME NEW s, s = RxLater(dt), NEW g, g = GapLater(dt) PROVE BitTimed(s, g, tmo)
  OBVIOUS
<1>1. SamePlace(rx, s) /\ s.bitLeft = Later(rx.bitLeft, dt)
  BY LaterFields
<1>2. g \in Nat /\ g <= gap + dt /\ gap \in Nat /\ BitTimeout \in Nat
  BY GapGrows, TimeoutAssumption
<1>3. rx.bitLeft \in Time /\ None \notin Nat
  BY CodecAssumption DEF RxOK
<1>4. CASE rx.bitLeft = None
  <2>1. s.bitLeft = None
    BY <1>1, <1>4 DEF Later
  <2> QED
    BY <1>1, <1>4, <2>1 DEF BitTimed, SamePlace
<1>5. CASE rx.bitLeft # None
  <2>1. rx.bitLeft \in Nat /\ dt <= rx.bitLeft
    BY <1>3, <1>5 DEF Time, CanPass, Alarms
  <2>2. s.bitLeft = rx.bitLeft - dt
    BY <1>1, <1>5 DEF Later
  <2>3. s.bitLeft \in Nat /\ s.bitLeft # None /\ s.bitLeft <= rx.bitLeft
        /\ g + s.bitLeft <= gap + rx.bitLeft
    BY <1>2, <1>3, <2>1, <2>2
  <2>4. BitTimeout > 0
    BY <1>2, <1>5 DEF BitTimed
  <2>5. CASE rx.sync = 0
    BY <1>1, <2>4, <2>5 DEF BitTimed, SamePlace
  <2>6. CASE rx.sync # 0
    <3>1. /\ rx.bitLeft <= BitTimeout /\ rx.prev \in Nat /\ rx.prev <= Len(rx.pulses)
          /\ (rx.sync = 2 /\ tmo # "keep") =>
               /\ gap + rx.bitLeft <= 2 * BitTimeout
               /\ rx.prev # Len(rx.pulses) => gap + rx.bitLeft <= BitTimeout
      BY <2>4, <2>6 DEF BitTimed
    <3>2. s.bitLeft <= BitTimeout
      BY <1>2, <2>1, <2>3, <3>1
    <3>3. (rx.sync = 2 /\ tmo # "keep") =>
               /\ g + s.bitLeft <= 2 * BitTimeout
               /\ rx.prev # Len(rx.pulses) => g + s.bitLeft <= BitTimeout
      BY <1>2, <2>1, <2>3, <3>1
    <3> QED
      BY <1>1, <2>3, <2>4, <3>1, <3>2, <3>3 DEF BitTimed, SamePlace
  <2> QED
    BY <2>5, <2>6
<1> QED
  BY <1>4, <1>5

\* An edge gives the bit timer a pulse to see.
LEMMA BitTimedStore ==
    ASSUME NEW p \in Protocols, NEW r, RxOK(p, r), NEW d \in Nat, NEW falling, NEW g,
           NEW tmo, BitTimed(r, g, tmo), NEW s, s = StoreTimestamp(p, r, d, falling)
    PROVE  BitTimed(s, 0, tmo)
<1>1. /\ r.sync \in 0..2 /\ r.pulses \in Seq(Nat) /\ Len(r.pulses) \in Nat
      /\ r.sync = 0 => r.bitLeft = None /\ BitTimeout \in Nat
      /\ r.bitLeft \in Time /\ BitTimeout \in Nat /\ None \notin Nat
  BY TimeoutAssumption, CodecAssumption DEF RxOK
<1>2. Append(r.pulses, d) \in Seq(Nat) /\ Len(Append(r.pulses, d)) = Len(r.pulses) + 1
  BY <1>1, Appended
<1>3. CASE r.sync = 0
  <2>1. CASE falling /\ ComparePulse(d, SyncMark[p])
    <3>1. Begun(r, d, s)
      BY <1>3, <2>1, MarkTaken
    <3> QED
      BY <1>1, <1>3, <3>1 DEF BitTimed, Begun
  <2>2. CASE ~(falling /\ ComparePulse(d, SyncMark[p]))
    <3>1. s.sync = 0 /\ s.bitLeft = r.bitLeft
      BY <1>3, <2>2, MarkIgnored
    <3> QED
      BY <1>1, <1>3, <3>1 DEF BitTimed
  <2> QED
    BY <2>1, <2>2
<1>4. ASSUME r.sync # 0, Stored(r, d, s)
      PROVE  BitTimed(s, 0, tmo)
  <2>1. CASE BitTimeout > 0
    <3>1. /\ r.bitLeft # None /\ r.bitLeft <= BitTimeout /\ r.bitLeft \in Nat
          /\ r.prev \in Nat /\ r.prev <= Len(r.pulses)
      BY <1>1, <1>4, <2>1 DEF BitTimed, Time
    <3>2. r.prev <= Len(r.pulses) + 1 /\ 0 + r.bitLeft <= 2 * BitTimeout /\ 0 + r.bitLeft <= BitTimeout
      BY <1>1, <3>1
    <3> QED
      BY <1>2, <1>4, <2>1, <3>1, <3>2 DEF BitTimed, Stored
  <2>2. CASE ~(BitTimeout > 0)
    BY <1>1, <1>4, <2>2 DEF BitTimed, Stored
  <2> QED
    BY <2>1, <2>2
<1>5. ASSUME Waiting(s) PROVE BitTimed(s, 0, tmo)
  BY <1>5, BitTimedOutside DEF Waiting
<1>6. CASE r.sync = 1
  <2>1. Waiting(s) \/ Stored(r, d, s)
    BY <1>6, SpaceFields
  <2> QED
    BY <1>4, <1>5, <1>6, <2>1
<1>7. CASE r.sync = 2
  <2>1. Waiting(s) \/ Stored(r, d, s)
    <3>1. CASE Len(r.pulses) + 1 = MessageLen(p)
      BY <1>7, <3>1, PulseFields
    <3>2. CASE Len(r.pulses) + 1 # MessageLen(p)
      BY <1>7, <3>2, PulseFields
    <3> QED
      BY <3>1, <3>2
  <2> QED
    BY <1>4, <1>5, <1>7, <2>1
<1> QED
  BY <1>1, <1>3, <1>6, <1>7

\* The bit timer, when it looks, finds the message silent for the second time at
\* most, and ends it then.
LEMMA BitTimedBit ==
    ASSUME NEW p \in Protocols, NEW r, RxOK(p, r), r.sync # 0, r.bitLeft = 0, NEW g \in Nat,
           NEW tmo \in {"error", "fail", "keep"}, BitTimed(r, g, tmo),
           NEW s, s = TimeoutBit(r, tmo)
    PROVE  BitTimed(s, g, tmo)
<1>1. r.sync \in 0..2 /\ Len(r.pulses) \in Nat /\ BitTimeout \in Nat /\ None \notin Nat
  BY TimeoutAssumption, CodecAssumption DEF RxOK
<1>2. BitTimeout > 0
  BY <1>1 DEF BitTimed
<1>3. CASE Silent(r) /\ tmo # "keep"
  BY <1>3, BitFields, BitTimedOutside DEF Waiting
<1>4. CASE ~(Silent(r) /\ tmo # "keep")
  <2>1. /\ s.sync = r.sync /\ s.pulses = r.pulses
        /\ s.bitLeft = BitTimeout /\ s.prev = Len(r.pulses)
    BY <1>4, BitFields
  <2>2. (r.sync = 2 /\ tmo # "keep") => g + BitTimeout <= 2 * BitTimeout
    <3> SUFFICES ASSUME r.sync = 2, tmo # "keep" PROVE g + BitTimeout <= 2 * BitTimeout
      OBVIOUS
    <3>1. r.prev # Len(r.pulses)
      BY <1>4 DEF Silent
    <3>2. g + r.bitLeft <= BitTimeout
      BY <1>2, <3>1 DEF BitTimed
    <3> QED
      BY <1>1, <3>2
  <2>3. BitTimeout # None /\ BitTimeout <= BitTimeout
    BY <1>1
  <2> QED
    BY <1>1, <1>2, <2>1, <2>2, <2>3 DEF BitTimed
<1> QED
  BY <1>3, <1>4

-----------------------------------------------------------------------------
(* What is transmitted                                                      *)

\* The times t are those of message m in protocol p, or of its repeat code.
Known(p, m, t) == \/ t = MessageTimes(p, m[1], m[2])
                  \/ p = "nec" /\ t = RepeatTimes

\* The protocols' sync marks and spaces are within a sync mark of NEC, and no two
\* protocols have the same mark.
LEMMA SyncRange ==
    ASSUME NEW p \in Protocols, NEW q \in Protocols
    PROVE  /\ SyncMark[p] \in 4..16 /\ SyncSpace[p] \in 1..16
           /\ p # q => SyncMark[p] # SyncMark[q]
           /\ p = "nec" => SyncMark[p] = 16 /\ SyncSpace[p] = 8
  BY DEF Protocols, SyncMark, SyncSpace

\* The sums of a message's first times.
LEMMA FirstSums ==
    ASSUME NEW t \in Seq(Nat), Len(t) >= 3
    PROVE  /\ Upto(t)[1] = t[1] /\ Upto(t)[2] = t[1] + t[2] /\ Upto(t)[3] = t[1] + t[2] + t[3]
           /\ t[1] + t[2] <= Sum(t) /\ Sum(t) \in Nat
           /\ t[1] \in Nat /\ t[2] \in Nat /\ t[3] \in Nat
<1>1. Len(t) \in Nat /\ 1 \in 1..Len(t) /\ 2 \in 1..Len(t) /\ 3 \in 1..Len(t) /\ 2 \in 0..Len(t)
  OBVIOUS
<1>2. /\ Upto(t)[0] = 0
      /\ \A i \in 1..Len(t) : Upto(t)[i] = Upto(t)[i - 1] + t[i]
      /\ \A i \in 0..Len(t) : Upto(t)[i] <= Sum(t)
      /\ Sum(t) \in Nat
  BY Sums
<1>3. t[1] \in Nat /\ t[2] \in Nat /\ t[3] \in Nat
  BY <1>1
<1>4. /\ Upto(t)[1] = Upto(t)[0] + t[1] /\ Upto(t)[2] = Upto(t)[1] + t[2]
      /\ Upto(t)[3] = Upto(t)[2] + t[3] /\ Upto(t)[2] <= Sum(t)
  <2>1. 1 - 1 = 0 /\ 2 - 1 = 1 /\ 3 - 1 = 2
    OBVIOUS
  <2>2. Upto(t)[1] = Upto(t)[1 - 1] + t[1]
    BY <1>1, <1>2
  <2>3. Upto(t)[2] = Upto(t)[2 - 1] + t[2] /\ Upto(t)[3] = Upto(t)[3 - 1] + t[3]
    BY <1>1, <1>2
  <2> QED
    BY <1>1, <1>2, <2>1, <2>2, <2>3
<1> QED
  BY <1>2, <1>3, <1>4

\* A message takes less than the message timeout once its sync mark is over, and
\* so does a repeat code, which is shorter than any message.
LEMMA InTime ==
    ASSUME NEW l \in Links, NEW m \in Messages, MsgTimeout > 0,
           NEW t, Known(l[1], m, t)
    PROVE  MsgTimeout + t[1] > Sum(t)
<1> DEFINE p == l[1]
<1>0. PICK u : u = MessageTimes(p, m[1], m[2])
  OBVIOUS
<1>1. p \in Protocols /\ m[1] \in Nat /\ m[2] \in Nat /\ MsgTimeout \in Nat
  BY LinkAssumption, TimeoutAssumption
<1>2. Base \in Nat /\ Base > 0
  BY CodecAssumption
<1>4. MsgTimeout > Sum(u) - SyncMark[p] * Base
  BY <1>0, PatienceAssumption
<1> HIDE DEF p
<1>3. u \in Seq(Nat) /\ Len(u) >= 5 /\ u[1] = Base * SyncMark[p] /\ u[2] = Base * SyncSpace[p]
  <2>1. u \in Seq(Nat) /\ Len(u) >= 5
    BY <1>0, <1>1, MessageTyped
  <2>2. u[1] = Base * SyncMark[p] /\ u[2] = Base * SyncSpace[p]
    BY <1>0, <1>1, TimesShape
  <2> QED
    BY <2>1, <2>2
<1>5. u[1] + u[2] <= Sum(u) /\ Sum(u) \in Nat /\ u[1] \in Nat /\ u[2] \in Nat
  BY <1>3, FirstSums
<1>6. SyncMark[p] * Base = u[1]
  <2>1. PICK k \in 4..16 : k = SyncMark[p]
    BY <1>1, SyncRange
  <2>2. k * Base = Base * k
    BY <1>2
  <2> QED
    BY <1>3, <2>1, <2>2
<1>7. MsgTimeout + u[1] > Sum(u)
  BY <1>1, <1>4, <1>5, <1>6
<1>8. CASE t = u
  BY <1>7, <1>8
<1>9. CASE p = "nec" /\ t = RepeatTimes
  <2>1. t = <<16 * Base, 4 * Base, Base>>
    BY <1>9 DEF RepeatTimes
  <2>2. t \in Seq(Nat) /\ Len(t) = 3 /\ t[1] = 16 * Base /\ t[2] = 4 * Base /\ t[3] = Base
    BY <1>2, <2>1
  <2>3. Sum(t) = t[1] + t[2] + t[3]
    <3>1. Upto(t)[3] = t[1] + t[2] + t[3]
      <4>1. t \in Seq(Nat) /\ Len(t) >= 3
        BY <2>2
      <4> QED
        BY <4>1, FirstSums
    <3> QED
      BY <2>2, <3>1 DEF Sum
  <2>4. u[1] = 16 * Base /\ u[2] = 8 * Base
    <3>1. SyncMark[p] = 16 /\ SyncSpace[p] = 8
      BY <1>1, <1>9, SyncRange
    <3> QED
      BY <1>2, <1>3, <3>1
  <2> QED
    BY <1>1, <1>2, <1>5, <1>7, <2>2, <2>3, <2>4
<1> QED
  BY <1>0, <1>8, <1>9 DEF Known, p

\* The shape of what is transmitted: an odd number of times, of one to sixteen base
\* pulses, the first a sync mark and at most three after the sync space.
Shape(p, m, t) ==
    /\ t \in Seq(Nat) /\ Len(t) >= 3 /\ Len(t) % 2 = 1
    /\ t[1] = Base * SyncMark[p]
    /\ \A i \in 1..Len(t) : \E k \in 1..16 : t[i] = Base * k
    /\ \A i \in 3..Len(t) : \E k \in 1..3 : t[i] = Base * k
    /\ t = RepeatTimes => p = "nec" /\ Len(t) = 3 /\ t[2] = Base * 4
    /\ t # RepeatTimes => /\ t = MessageTimes(p, m[1], m[2])
                          /\ Len(t) = MessageLen(p) /\ t[2] = Base * SyncSpace[p]

\* Messages and repeat codes have that shape.
LEMMA KnownShape ==
    ASSUME NEW p \in Protocols, NEW m \in Messages, NEW t, Known(p, m, t)
    PROVE  Shape(p, m, t)
<1>1. m[1] \in Nat /\ m[2] \in Nat /\ Base \in Nat /\ Base > 0
  BY LinkAssumption, CodecAssumption
<1>2. RepeatTimes \in Seq(Nat) /\ Len(RepeatTimes) = 3 /\ RepeatTimes[1] = Base * 16
      /\ RepeatTimes[2] = Base * 4 /\ RepeatTimes[3] = Base * 1
  BY <1>1 DEF RepeatTimes
<1>3. CASE t = MessageTimes(p, m[1], m[2])
  <2>1. t \in Seq(Nat) /\ Len(t) = MessageLen(p) /\ MessageLen(p) \in Nat /\ MessageLen(p) >= 5
    BY <1>1, <1>3, MessageTyped
  <2>2. /\ t[1] = Base * SyncMark[p] /\ t[2] = Base * SyncSpace[p]
        /\ \A i \in 3..Len(t) : \E k \in 1..3 : t[i] = Base * k
    <3>1. /\ t[1] = Base * SyncMark[p] /\ t[2] = Base * SyncSpace[p]
          /\ \A i \in 3..MessageLen(p) : \E k \in 1..3 : t[i] = Base * k
      <4>1. PICK a \in Nat, c \in Nat : a = m[1] /\ c = m[2]
        BY <1>1
      <4>2. t = MessageTimes(p, a, c)
        BY <1>3, <4>1
      <4> QED
        BY <4>2, TimesShape
    <3> QED
      BY <2>1, <3>1
  <2>3. Len(t) % 2 = 1
    <3>1. AddrSize \in Nat /\ CmdSize \in Nat /\ Bits \in Nat
      BY CodecAssumption
    <3> DEFINE n == AddrSize + CmdSize
               k == 4 * Bits + 1
    <3>2. n \in Nat /\ k \in Nat /\ (MessageLen(p) = n * 2 + 1 \/ MessageLen(p) = 2 * k + 1)
      BY <3>1 DEF MessageLen
    <3> HIDE DEF n, k
    <3> QED
      BY <2>1, <3>2
  <2>4. SyncMark[p] \in 1..16 /\ SyncSpace[p] \in 1..16
    BY SyncRange
  <2>5. ASSUME NEW i \in 1..Len(t) PROVE \E k \in 1..16 : t[i] = Base * k
    <3>1. CASE i = 1
      BY <2>2, <2>4, <3>1
    <3>2. CASE i = 2
      BY <2>2, <2>4, <3>2
    <3>3. CASE i \in 3..Len(t)
      <4>1. PICK k \in 1..3 : t[i] = Base * k
        BY <2>2, <3>3
      <4> QED
        BY <4>1
    <3> QED
      BY <2>1, <3>1, <3>2, <3>3
  <2>6. t # RepeatTimes
    <3>1. Len(t) # Len(RepeatTimes)
      BY <1>2, <2>1
    <3> QED
      BY <3>1
  <2> QED
    BY <1>3, <2>1, <2>2, <2>3, <2>5, <2>6 DEF Shape
<1>4. CASE p = "nec" /\ t = RepeatTimes
  <2>1. SyncMark[p] = 16
    BY <1>4, SyncRange
  <2>2. /\ t \in Seq(Nat) /\ Len(t) = 3 /\ Len(t) % 2 = 1
        /\ t[1] = Base * 16 /\ t[2] = Base * 4 /\ t[3] = Base * 1
    <3>1. 3 % 2 = 1
      OBVIOUS
    <3>2. /\ t \in Seq(Nat) /\ Len(t) = 3
          /\ t[1] = Base * 16 /\ t[2] = Base * 4 /\ t[3] = Base * 1
      BY <1>2, <1>4, Zenon
    <3> QED
      BY <3>1, <3>2
  <2>3. ASSUME NEW i \in 1..Len(t) PROVE \E k \in 1..16 : t[i] = Base * k
    <3>1. i \in {1, 2, 3}
      BY <2>2
    <3> QED
      BY <2>2, <3>1
  <2>4. ASSUME NEW i \in 3..Len(t) PROVE \E k \in 1..3 : t[i] = Base * k
    <3>1. i = 3
      BY <2>2
    <3> QED
      BY <2>2, <3>1
  <2> QED
    BY <1>4, <2>1, <2>2, <2>3, <2>4 DEF Shape
<1> QED
  BY <1>3, <1>4 DEF Known

-----------------------------------------------------------------------------
(* A receiver that follows a transmission                                   *)

\* No message is being received, and none is timed.
Deaf(r) == r.sync = 0 /\ r.msgLeft = None

\* The message timer, if it runs, fires after the end of the transmission t, of
\* which the jth time has left to go.
Patient(t, j, left, r) == r.msgLeft # None => r.msgLeft + Upto(t)[j] > Sum(t) + left

\* Receiver r of protocol q, time g after the last edge, has made of the first
\* j - 1 times of the transmission t of protocol p what it is to make of them.
Follows(p, q, t, j, left, r, g) ==
    /\ left \in Nat /\ g \in Nat /\ g + left = t[j]
    /\ p # q \/ j = 1 => Deaf(r) /\ r.heard = NoEvent
    /\ p = q /\ j = 2 => r.sync = 1 /\ r.pulses[1] = t[1] /\ Patient(t, j, left, r)
    /\ p = q /\ j >= 3 /\ t = RepeatTimes => Deaf(r) /\ r.heard.kind = "repeat"
    /\ p = q /\ j >= 3 /\ t # RepeatTimes =>
         /\ r.sync = 2 /\ Patient(t, j, left, r)
         /\ Len(r.pulses) = j - 1 /\ \A i \in 1..(j - 1) : r.pulses[i] = t[i]
         /\ (BitTimeout > 0 /\ r.prev = Len(r.pulses)) => g + r.bitLeft >= BitTimeout

\* Receiver r is the receiver time dt later.
Passed(r, dt) == /\ SamePlace(rx, r)
                 /\ r.msgLeft = Later(rx.msgLeft, dt) /\ r.bitLeft = Later(rx.bitLeft, dt)

\* No time of a transmission is too long to be told apart.
LEMMA ShortTimes ==
    ASSUME NEW p \in Protocols, NEW m, NEW t, Shape(p, m, t), NEW j \in 1..Len(t)
    PROVE  t[j] \in Nat /\ t[j] <= MaxGap /\ (j >= 3 => t[j] <= 3 * Base)
<1>1. Base \in Nat /\ Base > 0 /\ MaxGap \in Nat /\ MaxGap > 16 * Base + Base \div 2
  BY CodecAssumption, LinkAssumption
<1>2. PICK k \in 1..16 : t[j] = Base * k
  BY DEF Shape
<1>3. Base * k \in Nat /\ Base * k <= 16 * Base /\ Base \div 2 >= 0
  BY <1>1
<1>4. j >= 3 => t[j] <= 3 * Base
  <2> SUFFICES ASSUME j >= 3 PROVE t[j] <= 3 * Base
    OBVIOUS
  <2>1. j \in 3..Len(t)
    BY DEF Shape
  <2>2. PICK i \in 1..3 : t[j] = Base * i
    BY <2>1 DEF Shape
  <2>3. Base * i <= 3 * Base
    BY <1>1
  <2> QED
    BY <2>2, <2>3
<1> QED
  BY <1>1, <1>2, <1>3, <1>4

\* Time passes.
LEMMA FollowsLater ==
    ASSUME NEW p \in Protocols, NEW q \in Protocols, NEW m, NEW t, Shape(p, m, t),
           NEW j \in 1..Len(t), RxOK(q, rx), gap \in 0..MaxGap, NEW dt \in Nat, CanPass(dt),
           NEW tmo, BitTimed(rx, gap, tmo), Follows(p, q, t, j, led.left, rx, gap),
           NEW r, Passed(r, dt)
    PROVE  Follows(p, q, t, j, led.left - dt, r, GapLater(dt))
<1>1. /\ led.left \in Nat /\ gap \in Nat /\ gap + led.left = t[j] /\ None \notin Nat
      /\ t[j] \in Nat /\ t[j] <= MaxGap /\ MaxGap \in Nat /\ BitTimeout \in Nat
  BY ShortTimes, CodecAssumption, LinkAssumption, TimeoutAssumption DEF Follows
<1>2. dt <= led.left
  BY <1>1 DEF CanPass, Alarms
<1>3. GapLater(dt) = gap + dt
  <2>1. gap + dt <= MaxGap
    BY <1>1, <1>2
  <2> QED
    BY <2>1, GapGrows
<1> DEFINE left == led.left - dt
           g == gap + dt
<1>4. left \in Nat /\ g \in Nat /\ g + left = t[j] /\ left = led.left - dt /\ g = gap + dt
  BY <1>1, <1>2
<1>5. /\ r.sync = rx.sync /\ r.pulses = rx.pulses /\ r.heard = rx.heard /\ r.prev = rx.prev
      /\ r.msgLeft = Later(rx.msgLeft, dt) /\ r.bitLeft = Later(rx.bitLeft, dt)
      /\ rx.msgLeft \in Time /\ rx.bitLeft \in Time
  BY DEF Passed, SamePlace, RxOK
<1> HIDE DEF left, g
<1>6. Deaf(rx) => Deaf(r)
  BY <1>5 DEF Deaf, Later
<1>7. Patient(t, j, led.left, rx) => Patient(t, j, left, r)
  <2> SUFFICES ASSUME Patient(t, j, led.left, rx), r.msgLeft # None
               PROVE  r.msgLeft + Upto(t)[j] > Sum(t) + left
    BY DEF Patient
  <2>1. rx.msgLeft # None /\ rx.msgLeft \in Nat
    BY <1>5 DEF Later, Time
  <2>2. r.msgLeft = rx.msgLeft - dt
    BY <1>5, <2>1 DEF Later
  <2>3. rx.msgLeft + Upto(t)[j] > Sum(t) + led.left
    BY <2>1 DEF Patient
  <2>4. Upto(t)[j] \in Nat /\ Sum(t) \in Nat
    <3>1. t \in Seq(Nat) /\ j \in 0..Len(t)
      BY DEF Shape
    <3> QED
      BY <3>1, Sums
  <2>5. PICK u \in Nat, n \in Nat, a \in Nat : u = Upto(t)[j] /\ n = Sum(t) /\ a = rx.msgLeft
    BY <2>1, <2>4
  <2>6. a + u > n + led.left /\ r.msgLeft = a - dt
    BY <2>2, <2>3, <2>5
  <2>7. (a - dt) + u > n + left
    <3>1. PICK e \in Nat : e = led.left
      BY <1>1
    <3>2. a + u > n + e /\ left = e - dt
      BY <1>4, <2>6, <3>1
    <3>3. (a - dt) + u > n + (e - dt)
      BY <3>2
    <3> QED
      BY <3>2, <3>3
  <2> QED
    BY <2>5, <2>6, <2>7
<1>8. ASSUME BitTimeout > 0, gap + rx.bitLeft >= BitTimeout, rx.bitLeft # None
      PROVE  g + r.bitLeft >= BitTimeout
  <2>1. r.bitLeft = rx.bitLeft - dt /\ rx.bitLeft \in Nat
    BY <1>5, <1>8 DEF Later, Time
  <2> QED
    BY <1>1, <1>4, <1>8, <2>1
<1>9. (p # q \/ j = 1) => Deaf(r) /\ r.heard = NoEvent
  BY <1>5, <1>6 DEF Follows
<1>10. (p = q /\ j = 2) => r.sync = 1 /\ r.pulses[1] = t[1] /\ Patient(t, j, left, r)
  BY <1>5, <1>7 DEF Follows
<1>11. (p = q /\ j >= 3 /\ t = RepeatTimes) => Deaf(r) /\ r.heard.kind = "repeat"
  BY <1>5, <1>6 DEF Follows
<1>12. ASSUME p = q, j >= 3, t # RepeatTimes
       PROVE  /\ r.sync = 2 /\ Patient(t, j, left, r)
              /\ Len(r.pulses) = j - 1 /\ \A i \in 1..(j - 1) : r.pulses[i] = t[i]
              /\ (BitTimeout > 0 /\ r.prev = Len(r.pulses)) => g + r.bitLeft >= BitTimeout
  <2>1. /\ rx.sync = 2 /\ Patient(t, j, led.left, rx)
        /\ Len(rx.pulses) = j - 1 /\ \A i \in 1..(j - 1) : rx.pulses[i] = t[i]
        /\ (BitTimeout > 0 /\ rx.prev = Len(rx.pulses)) => gap + rx.bitLeft >= BitTimeout
    BY <1>12 DEF Follows
  <2>2. BitTimeout > 0 => rx.bitLeft # None
    BY <2>1 DEF BitTimed
  <2> QED
    BY <1>5, <1>7, <1>8, <2>1, <2>2
<1>13. Follows(p, q, t, j, left, r, g)
  BY <1>4, <1>9, <1>10, <1>11, <1>12 DEF Follows
<1> QED
  BY <1>3, <1>13 DEF left, g

\* The message timer stays patient from one time to the next.
LEMMA PatientEdge ==
    ASSUME NEW t \in Seq(Nat), NEW j \in 1..Len(t), j < Len(t), NEW r, r.msgLeft \in Time,
           Patient(t, j, 0, r), NEW s, s.msgLeft = r.msgLeft
    PROVE  Patient(t, j + 1, t[j + 1], s)
<1> SUFFICES ASSUME s.msgLeft # None PROVE s.msgLeft + Upto(t)[j + 1] > Sum(t) + t[j + 1]
  BY DEF Patient
<1>1. r.msgLeft \in Nat /\ r.msgLeft + Upto(t)[j] > Sum(t) + 0
  BY DEF Patient, Time
<1>2. j + 1 \in 1..Len(t) /\ (j + 1) - 1 = j /\ j \in 0..Len(t)
  OBVIOUS
<1>3. Upto(t)[j + 1] = Upto(t)[j] + t[j + 1]
  BY <1>2, Sums
<1>4. PICK u \in Nat, n \in Nat, a \in Nat, e \in Nat :
           u = Upto(t)[j] /\ n = Sum(t) /\ a = r.msgLeft /\ e = t[j + 1]
  <2>1. Upto(t)[j] \in Nat /\ Sum(t) \in Nat
    BY <1>2, Sums
  <2>2. t[j + 1] \in Nat
    BY <1>2
  <2> QED
    BY <1>1, <2>1, <2>2
<1>5. a + u > n + 0
  BY <1>1, <1>4
<1>6. a + (u + e) > n + e
  BY <1>5
<1> QED
  BY <1>3, <1>4, <1>6

\* What the application is to hear of a whole transmission t.
Reached(p, q, m, t, h) ==
    /\ h.kind = IF p # q THEN "none"
                ELSE IF t = RepeatTimes THEN "repeat"
                ELSE IF Address \in {AnyAddr, HeardAddr(p, m[1])} THEN "msg" ELSE "error"
    /\ h.kind = "msg" => h.addr = HeardAddr(p, m[1]) /\ h.func = m[2]

\* A receiver of another protocol hears nothing: no mark is a sync mark of its own.
LEMMA EdgeOther ==
    ASSUME NEW p \in Protocols, NEW q \in Protocols, p # q, NEW m, NEW t, Shape(p, m, t),
           NEW j \in 1..Len(t), NEW r, RxOK(q, r), Follows(p, q, t, j, 0, r, t[j]),
           NEW falling, NEW s, s = StoreTimestamp(q, r, t[j], falling)
    PROVE  (falling => j % 2 = 1) => Deaf(s) /\ s.heard = NoEvent
<1>1. r.sync = 0 /\ r.msgLeft = None /\ r.heard = NoEvent /\ t[j] \in Nat
  BY ShortTimes DEF Follows, Deaf
<1>2. j % 2 = 1 => ~ComparePulse(t[j], SyncMark[q])
  <2> SUFFICES ASSUME j % 2 = 1 PROVE ~ComparePulse(t[j], SyncMark[q])
    OBVIOUS
  <2>1. PICK n \in 4..16 : n = SyncMark[q] /\ n # SyncMark[p]
    BY SyncRange
  <2>2. PICK k \in 1..16 : t[j] = Base * k /\ k # n
    <3>1. CASE j = 1
      <4>1. PICK k \in 4..16 : k = SyncMark[p]
        BY SyncRange
      <4>2. k \in 1..16 /\ t[j] = Base * k /\ k # n
        BY <2>1, <3>1, <4>1 DEF Shape
      <4> QED
        BY <4>2
    <3>2. CASE j # 1
      <4>1. j \in 3..Len(t)
        BY <3>2 DEF Shape
      <4>2. PICK k \in 1..3 : t[j] = Base * k
        BY <4>1 DEF Shape
      <4>3. k \in 1..16 /\ k # n
        OBVIOUS
      <4> QED
        BY <4>2, <4>3
    <3> QED
      BY <3>1, <3>2
  <2>3. ~ComparePulse(Base * k, n)
    <3>1. n \in 1..16
      OBVIOUS
    <3> QED
      BY <2>2, <3>1, Compare
  <2> QED
    BY <2>1, <2>2, <2>3
<1>c. SUFFICES ASSUME falling => j % 2 = 1 PROVE Deaf(s) /\ s.heard = NoEvent
  OBVIOUS
<1>3. ~(falling /\ ComparePulse(t[j], SyncMark[q]))
  BY <1>c, <1>2
<1>4. s.sync = 0 /\ s.heard = r.heard /\ s.msgLeft = r.msgLeft
  BY <1>1, <1>3, MarkIgnored
<1> QED
  BY <1>1, <1>4 DEF Deaf

\* The message timer is longer than what follows the sync mark.
Punctual(t) == MsgTimeout > 0 => MsgTimeout + t[1] > Sum(t)

\* The end of the sync mark.
LEMMA EdgeMark ==
    ASSUME NEW p \in Protocols, NEW m, NEW t, Shape(p, m, t),
           Punctual(t), NEW r, RxOK(p, r), Follows(p, p, t, 1, 0, r, t[1]),
           NEW falling, NEW s, s = StoreTimestamp(p, r, t[1], falling)
    PROVE  falling => Follows(p, p, t, 2, t[2], s, 0)
<1>1. t \in Seq(Nat) /\ Len(t) >= 3 /\ 1 \in 1..Len(t) /\ 2 \in 1..Len(t)
  BY DEF Shape
<1>2. r.sync = 0 /\ r.msgLeft = None /\ t[1] \in Nat /\ t[2] \in Nat
  BY <1>1 DEF Follows, Deaf
<1>3. ComparePulse(t[1], SyncMark[p])
  <2>1. PICK n \in 1..16 : n = SyncMark[p]
    BY SyncRange
  <2>2. ComparePulse(Base * n, n)
    BY Compare
  <2> QED
    BY <2>1, <2>2 DEF Shape
<1>c. SUFFICES ASSUME falling PROVE Follows(p, p, t, 2, t[2], s, 0)
  OBVIOUS
<1>4. Begun(r, t[1], s)
  BY <1>c, <1>2, <1>3, MarkTaken
<1>5. Patient(t, 2, t[2], s)
  <2> SUFFICES ASSUME s.msgLeft # None PROVE s.msgLeft + Upto(t)[2] > Sum(t) + t[2]
    BY DEF Patient
  <2>1. MsgTimeout > 0 /\ s.msgLeft = MsgTimeout
    BY <1>2, <1>4 DEF Begun
  <2>2. Upto(t)[2] = t[1] + t[2] /\ Sum(t) \in Nat
    BY <1>1, FirstSums
  <2>3. MsgTimeout + t[1] > Sum(t) /\ MsgTimeout \in Nat
    BY <2>1, TimeoutAssumption DEF Punctual
  <2> QED
    BY <1>2, <2>1, <2>2, <2>3
<1>6. s.sync = 1 /\ s.pulses[1] = t[1]
  BY <1>4 DEF Begun
<1> QED
  BY <1>2, <1>5, <1>6 DEF Follows

\* The pulses of a buffer with one more.
LEMMA AppendedAt ==
    ASSUME NEW q \in Seq(Nat), NEW d \in Nat
    PROVE  /\ Len(Append(q, d)) = Len(q) + 1 /\ Append(q, d)[Len(q) + 1] = d
           /\ \A i \in 1..Len(q) : Append(q, d)[i] = q[i]
  OBVIOUS

\* Buffers are equal when their pulses are.
LEMMA SameSeq ==
    ASSUME NEW u \in Seq(Nat), NEW v \in Seq(Nat), Len(u) = Len(v),
           \A i \in 1..Len(v) : u[i] = v[i]
    PROVE  u = v
  OBVIOUS

\* The end of the sync space, or of the short one of a repeat code.
LEMMA EdgeSpace ==
    ASSUME NEW p \in Protocols, NEW m, NEW t, Shape(p, m, t),
           NEW r, RxOK(p, r), NEW tmo, BitTimed(r, t[2], tmo), Follows(p, p, t, 2, 0, r, t[2]),
           NEW falling, NEW s, s = StoreTimestamp(p, r, t[2], falling)
    PROVE  ~falling => Follows(p, p, t, 3, t[3], s, 0)
<1>1. /\ t \in Seq(Nat) /\ Len(t) >= 3 /\ 2 \in 1..Len(t) /\ 3 \in 1..Len(t)
      /\ t[2] \in Nat /\ t[3] \in Nat /\ 2 + 1 = 3
  BY DEF Shape
<1>2. /\ r.sync = 1 /\ r.pulses[1] = t[1] /\ Patient(t, 2, 0, r)
      /\ r.pulses \in Seq(Nat) /\ Len(r.pulses) = 1 /\ r.msgLeft \in Time
  BY DEF Follows, RxOK
<1>c. SUFFICES ASSUME ~falling PROVE Follows(p, p, t, 3, t[3], s, 0)
  OBVIOUS
<1>3. PICK n \in 1..16 : n = SyncSpace[p]
  BY SyncRange
<1>4. CASE t # RepeatTimes
  <2>1. ComparePulse(t[2], SyncSpace[p])
    <3>1. ComparePulse(Base * n, n)
      BY Compare
    <3> QED
      BY <1>3, <1>4, <3>1 DEF Shape
  <2>2. /\ s.sync = 2 /\ s.pulses = Append(r.pulses, t[2])
        /\ s.msgLeft = r.msgLeft /\ s.prev = r.prev
    <3>1. Stored(r, t[2], s)
      BY <1>c, <1>1, <1>2, <2>1, SpaceFields
    <3> QED
      BY <3>1 DEF Stored
  <2>3. Patient(t, 3, t[3], s)
    <3>1. 2 < Len(t)
      BY <1>1
    <3> QED
      BY <1>1, <1>2, <2>2, <3>1, PatientEdge
  <2>4. Len(s.pulses) = 2 /\ s.pulses[1] = t[1] /\ s.pulses[2] = t[2]
    <3>1. 1 \in 1..Len(r.pulses) /\ Len(r.pulses) + 1 = 2
      BY <1>2
    <3> QED
      <4>1. PICK u \in Seq(Nat), d \in Nat : u = r.pulses /\ d = t[2]
        BY <1>1, <1>2
      <4>2. Len(Append(u, d)) = 2 /\ Append(u, d)[2] = d /\ Append(u, d)[1] = u[1]
        BY <3>1, <4>1, AppendedAt
      <4> QED
        BY <1>2, <2>2, <4>1, <4>2
  <2>5. \A i \in 1..(3 - 1) : s.pulses[i] = t[i]
    <3>1. ASSUME NEW i \in 1..(3 - 1) PROVE i = 1 \/ i = 2
      OBVIOUS
    <3> QED
      BY <2>4, <3>1
  <2>6. BitTimeout > 0 => s.prev # Len(s.pulses)
    <3>1. BitTimeout > 0 => r.prev \in Nat /\ r.prev <= Len(r.pulses)
      BY <1>2 DEF BitTimed
    <3> QED
      BY <1>2, <2>2, <2>4, <3>1
  <2> QED
    BY <1>1, <1>4, <2>2, <2>3, <2>4, <2>5, <2>6 DEF Follows
<1>5. CASE t = RepeatTimes
  <2>1. p = "nec" /\ t[2] = Base * 4
    BY <1>5 DEF Shape
  <2>2. ~ComparePulse(t[2], SyncSpace[p]) /\ ComparePulse(t[2], 4)
    <3>1. n = 8
      BY <1>3, <2>1, SyncRange
    <3>2. ~ComparePulse(Base * 4, n) /\ ComparePulse(Base * 4, 4)
      BY <3>1, Compare
    <3> QED
      BY <1>3, <2>1, <3>2
  <2>3. Waiting(s) /\ s.heard.kind = "repeat"
    BY <1>c, <1>1, <1>2, <2>1, <2>2, SpaceFields
  <2> QED
    BY <1>1, <1>5, <2>3 DEF Follows, Waiting, Deaf
<1> QED
  BY <1>4, <1>5

\* The last mark of a repeat code is no sync mark.
LEMMA EdgeRepeat ==
    ASSUME NEW p \in Protocols, NEW m, NEW t, Shape(p, m, t), t = RepeatTimes,
           NEW j \in 1..Len(t), j >= 3, NEW r, RxOK(p, r), Follows(p, p, t, j, 0, r, t[j]),
           NEW falling, NEW s, s = StoreTimestamp(p, r, t[j], falling)
    PROVE  j = Len(t) /\ s.heard.kind = "repeat"
<1>1. r.sync = 0 /\ r.heard.kind = "repeat" /\ j = Len(t) /\ t[j] \in Nat
  <2>1. Len(t) = 3
    BY DEF Shape
  <2>2. j = Len(t)
    BY <2>1
  <2>3. t[j] \in Nat
    BY ShortTimes
  <2> QED
    BY <2>2, <2>3 DEF Follows, Deaf
<1>2. ~ComparePulse(t[j], SyncMark[p])
  <2>1. PICK n \in 4..16 : n = SyncMark[p]
    BY SyncRange
  <2>2. j \in 3..Len(t)
    BY DEF Shape
  <2>3. PICK k \in 1..3 : t[j] = Base * k
    BY <2>2 DEF Shape
  <2>4. n \in 1..16 /\ k \in 1..16 /\ k # n
    OBVIOUS
  <2>5. ~ComparePulse(Base * k, n)
    BY <2>4, Compare
  <2> QED
    BY <2>1, <2>3, <2>5
<1>3. s.heard = r.heard
  BY <1>1, <1>2, MarkIgnored
<1> QED
  BY <1>1, <1>3

\* A pulse of the message, and the last one, with which the message is heard.
LEMMA EdgePulse ==
    ASSUME NEW p \in Protocols, NEW m \in Messages, Fits(p, m[1], m[2]),
           NEW t, Shape(p, m, t), t # RepeatTimes,
           NEW j \in 1..Len(t), j >= 3, NEW r, RxOK(p, r), NEW tmo, BitTimed(r, t[j], tmo),
           Follows(p, p, t, j, 0, r, t[j]),
           NEW falling, NEW s, s = StoreTimestamp(p, r, t[j], falling)
    PROVE  /\ j < Len(t) => Follows(p, p, t, j + 1, t[j + 1], s, 0)
           /\ j = Len(t) => Reached(p, p, m, t, s.heard)
<1>1. /\ t \in Seq(Nat) /\ Len(t) \in Nat /\ Len(t) = MessageLen(p) /\ t[j] \in Nat
      /\ t = MessageTimes(p, m[1], m[2])
  BY DEF Shape
<1>2. /\ r.sync = 2 /\ Patient(t, j, 0, r) /\ r.pulses \in Seq(Nat) /\ Len(r.pulses) \in Nat
      /\ Len(r.pulses) = j - 1 /\ \A i \in 1..(j - 1) : r.pulses[i] = t[i]
      /\ r.msgLeft \in Time
  BY DEF Follows, RxOK
<1>3. /\ Append(r.pulses, t[j]) \in Seq(Nat) /\ Len(Append(r.pulses, t[j])) = j
      /\ \A i \in 1..j : Append(r.pulses, t[j])[i] = t[i]
  <2>1. Append(r.pulses, t[j]) \in Seq(Nat) /\ Len(Append(r.pulses, t[j])) = j
    BY <1>1, <1>2
  <2>2. ASSUME NEW i \in 1..j PROVE Append(r.pulses, t[j])[i] = t[i]
    <3>1. CASE i = j
      BY <1>1, <1>2, <3>1
    <3>2. CASE i # j
      <4>1. i \in 1..(j - 1)
        BY <3>2
      <4>2. Append(r.pulses, t[j])[i] = r.pulses[i]
        BY <1>1, <1>2, <4>1
      <4> QED
        BY <1>2, <4>1, <4>2
    <3> QED
      BY <3>1, <3>2
  <2> QED
    BY <2>1, <2>2
<1>4. CASE j < Len(t)
  <2>1. /\ s.sync = 2 /\ s.pulses = Append(r.pulses, t[j])
        /\ s.msgLeft = r.msgLeft /\ s.prev = r.prev
    <3>1. Len(r.pulses) + 1 # MessageLen(p)
      BY <1>1, <1>2, <1>4
    <3>2. Stored(r, t[j], s)
      BY <1>1, <1>2, <3>1, PulseFields
    <3> QED
      BY <3>2 DEF Stored
  <2>2. Patient(t, j + 1, t[j + 1], s)
    BY <1>1, <1>2, <1>4, <2>1, PatientEdge
  <2>3. Len(s.pulses) = j /\ \A i \in 1..j : s.pulses[i] = t[i]
    BY <1>3, <2>1
  <2>4. BitTimeout > 0 => s.prev # Len(s.pulses)
    <3>1. BitTimeout > 0 => r.prev \in Nat /\ r.prev <= Len(r.pulses)
      BY <1>2 DEF BitTimed
    <3> QED
      BY <1>2, <2>1, <2>3, <3>1
  <2>5. t[j + 1] \in Nat /\ (j + 1) - 1 = j /\ j + 1 >= 3 /\ 0 + t[j + 1] = t[j + 1]
    BY <1>1, <1>4
  <2>6. Follows(p, p, t, j + 1, t[j + 1], s, 0)
    BY <2>1, <2>2, <2>3, <2>4, <2>5 DEF Follows
  <2> QED
    BY <1>4, <2>6
<1>5. CASE j = Len(t)
  <2>1. Append(r.pulses, t[j]) = t
    <3>1. PICK u \in Seq(Nat) : u = Append(r.pulses, t[j])
      BY <1>3
    <3>2. Len(u) = Len(t) /\ \A i \in 1..Len(t) : u[i] = t[i]
      BY <1>3, <1>5, <3>1
    <3>3. u = t
      BY <1>1, <3>2, SameSeq
    <3> QED
      BY <3>1, <3>3
  <2>2. s.heard = Result(Decode(p, t, Address))
    <3>1. Len(r.pulses) + 1 = MessageLen(p)
      BY <1>1, <1>2, <1>5
    <3>2. s.heard = Result(Decode(p, Append(r.pulses, t[j]), Address))
      BY <1>1, <1>2, <3>1, PulseFields
    <3> QED
      BY <2>1, <3>2
  <2>3. Decode(p, t, Address) = Accept(HeardAddr(p, m[1]), m[2], TRUE, Address)
    <3>1. PICK a \in Nat, c \in Nat : a = m[1] /\ c = m[2]
      BY LinkAssumption
    <3>2. Fits(p, a, c) /\ t = MessageTimes(p, a, c)
      BY <1>1, <3>1
    <3>3. Decode(p, MessageTimes(p, a, c), Address) = Accept(HeardAddr(p, a), c, TRUE, Address)
      BY <3>2, DecodeUndoesEncode
    <3> QED
      BY <3>1, <3>2, <3>3
  <2>4. PICK h, w : h = s.heard /\ w = HeardAddr(p, m[1])
    OBVIOUS
  <2>5. h = Result([ok |-> TRUE /\ Address \in {w, AnyAddr}, addr |-> w, func |-> m[2]])
    BY <2>2, <2>3, <2>4 DEF Accept
  <2>6. Reached(p, p, m, t, h)
    <3>1. CASE Address \in {w, AnyAddr}
      <4>1. h = [kind |-> "msg", addr |-> w, func |-> m[2]]
        BY <2>5, <3>1 DEF Result
      <4>2. h.kind = "msg" /\ h.addr = w /\ h.func = m[2]
        BY <4>1
      <4> QED
        BY <2>4, <3>1, <4>2 DEF Reached
    <3>2. CASE Address \notin {w, AnyAddr}
      <4>1. h.kind = "error"
        BY <2>5, <3>2 DEF Result, ErrorEvent, NoEvent
      <4> QED
        BY <2>4, <3>2, <4>1 DEF Reached
    <3> QED
      BY <3>1, <3>2
  <2> QED
    BY <1>5, <2>4, <2>6
<1> QED
  BY <1>4, <1>5

\* Receiver s follows the transmission past its jth edge, and after the last one it
\* has heard what it is to hear.
Past(p, q, m, t, j, s) == /\ j < Len(t) => Follows(p, q, t, j + 1, t[j + 1], s, 0)
                          /\ j = Len(t) => Reached(p, q, m, t, s.heard)

\* The edge that ends the jth time is falling when that time is a mark.
Agrees(falling, j) == falling <=> j % 2 = 1

\* A receiver that follows a transmission follows it past the next edge.
LEMMA FollowsEdge ==
    ASSUME NEW p \in Protocols, NEW q \in Protocols, NEW m \in Messages, Fits(p, m[1], m[2]),
           NEW t, Shape(p, m, t), Punctual(t),
           NEW j \in 1..Len(t), NEW r, RxOK(q, r), NEW tmo, BitTimed(r, t[j], tmo),
           Follows(p, q, t, j, 0, r, t[j]),
           NEW falling, NEW s, s = StoreTimestamp(q, r, t[j], falling)
    PROVE  Agrees(falling, j) => Past(p, q, m, t, j, s)
<1>a. SUFFICES ASSUME Agrees(falling, j)
               PROVE  /\ j < Len(t) => Follows(p, q, t, j + 1, t[j + 1], s, 0)
                      /\ j = Len(t) => Reached(p, q, m, t, s.heard)
  BY DEF Past
<1>c. falling <=> j % 2 = 1
  BY <1>a DEF Agrees
<1>1. t \in Seq(Nat) /\ Len(t) \in Nat /\ Len(t) >= 3
  <2>1. t \in Seq(Nat) /\ Len(t) >= 3
    BY DEF Shape
  <2> QED
    BY <2>1
<1>2. CASE p # q
  <2>1. Deaf(s) /\ s.heard = NoEvent
    BY <1>c, <1>2, EdgeOther
  <2>2. j < Len(t) => t[j + 1] \in Nat /\ 0 + t[j + 1] = t[j + 1]
    BY <1>1
  <2>3. NoEvent.kind = "none"
    BY DEF NoEvent
  <2> QED
    BY <1>2, <2>1, <2>2, <2>3 DEF Follows, Reached
<1>3. CASE p = q /\ j = 1
  <2>1. falling
    BY <1>c, <1>3
  <2>2. Follows(p, q, t, 2, t[2], s, 0)
    BY <1>3, <2>1, EdgeMark
  <2>3. j + 1 = 2 /\ j # Len(t)
    <3>1. ASSUME NEW n \in Nat, n >= 3, NEW i \in Nat, i = 1 PROVE i + 1 = 2 /\ i # n
      BY <3>1
    <3> QED
      BY <1>1, <1>3, <3>1
  <2> QED
    BY <2>2, <2>3
<1>4. CASE p = q /\ j = 2
  <2>1. ~falling
    BY <1>c, <1>4
  <2>2. Follows(p, q, t, 3, t[3], s, 0)
    <3>1. /\ p = q /\ RxOK(p, r) /\ BitTimed(r, t[2], tmo) /\ Follows(p, p, t, 2, 0, r, t[2])
          /\ s = StoreTimestamp(p, r, t[2], falling)
          /\ p \in Protocols /\ Shape(p, m, t)
      BY <1>4
    <3>2. ~falling => Follows(p, p, t, 3, t[3], s, 0)
      BY ONLY <3>1, EdgeSpace
    <3> QED
      BY <2>1, <3>1, <3>2
  <2>3. j + 1 = 3 /\ j # Len(t)
    <3>1. ASSUME NEW n \in Nat, n >= 3, NEW i \in Nat, i = 2 PROVE i + 1 = 3 /\ i # n
      BY <3>1
    <3> QED
      BY <1>1, <1>4, <3>1
  <2> QED
    BY <2>2, <2>3
<1>5. CASE p = q /\ j >= 3 /\ t = RepeatTimes
  <2>1. j = Len(t) /\ s.heard.kind = "repeat"
    BY <1>5, EdgeRepeat
  <2> QED
    BY <1>1, <1>5, <2>1 DEF Reached
<1>6. CASE p = q /\ j >= 3 /\ t # RepeatTimes
  BY <1>6, EdgePulse
<1> QED
  BY <1>1, <1>2, <1>3, <1>4, <1>5, <1>6

\* The message timer does not fire while the receiver follows a transmission.
LEMMA FollowsUntimed ==
    ASSUME NEW p \in Protocols, NEW q \in Protocols, NEW m, NEW t, Shape(p, m, t),
           NEW j \in 1..Len(t), NEW left, NEW r, RxOK(q, r), NEW g, Follows(p, q, t, j, left, r, g),
           r.msgLeft # None
    PROVE  r.msgLeft > left
<1>1. Patient(t, j, left, r)
  BY DEF Follows, Deaf
<1>2. t \in Seq(Nat) /\ j \in 0..Len(t) /\ left \in Nat /\ r.msgLeft \in Nat
  BY DEF Shape, Follows, RxOK, Time
<1>3. Upto(t)[j] \in Nat /\ Upto(t)[j] <= Sum(t) /\ Sum(t) \in Nat
  BY <1>2, Sums
<1>4. PICK u \in Nat, n \in Nat, a \in Nat : u = Upto(t)[j] /\ n = Sum(t) /\ a = r.msgLeft
  BY <1>2, <1>3
<1>5. a + u > n + left /\ u <= n
  BY <1>1, <1>3, <1>4 DEF Patient
<1>6. a > left
  BY <1>2, <1>5
<1> QED
  BY <1>4, <1>6

\* The bit timer, when it fires, finds another pulse since it last looked.
LEMMA FollowsBit ==
    ASSUME NEW p \in Protocols, NEW q \in Protocols, NEW m, NEW t, Shape(p, m, t),
           NEW j \in 1..Len(t), NEW left, NEW r, RxOK(q, r), r.bitLeft = 0, NEW g,
           NEW tmo \in {"error", "fail", "keep"}, BitTimed(r, g, tmo),
           Follows(p, q, t, j, left, r, g), NEW s, s = TimeoutBit(r, tmo)
    PROVE  Follows(p, q, t, j, left, s, g)
<1>1. r.sync # 0 /\ BitTimeout \in Nat /\ BitTimeout > 0 /\ left \in Nat /\ g \in Nat
      /\ g + left = t[j]
  BY CodecAssumption, TimeoutAssumption DEF RxOK, BitTimed, Follows
<1>2. p = q /\ j >= 2 /\ (j >= 3 => t # RepeatTimes)
  BY <1>1 DEF Follows, Deaf
<1>3. ~Silent(r)
  <2>1. CASE j = 2
    BY <1>2, <2>1 DEF Follows, Silent
  <2>2. CASE j >= 3
    <3>1. (r.prev = Len(r.pulses)) => g + r.bitLeft >= BitTimeout
      BY <1>1, <1>2, <2>2 DEF Follows
    <3>2. t[j] <= 3 * Base /\ BitTimeout > 3 * Base /\ Base \in Nat
      BY <1>1, <2>2, ShortTimes, PatienceAssumption, CodecAssumption
    <3>3. g + 0 < BitTimeout
      BY <1>1, <3>2
    <3> QED
      BY <1>1, <3>1, <3>3 DEF Silent
  <2> QED
    BY <1>2, <2>1, <2>2
<1>4. /\ s.sync = r.sync /\ s.pulses = r.pulses /\ s.heard = r.heard
      /\ s.msgLeft = r.msgLeft /\ s.bitLeft = BitTimeout /\ s.prev = Len(r.pulses)
  BY <1>1, <1>3, BitFields
<1>5. Patient(t, j, left, r) => Patient(t, j, left, s)
  BY <1>4 DEF Patient
<1>6. g + s.bitLeft >= BitTimeout
  BY <1>1, <1>4
<1> QED
  BY <1>1, <1>2, <1>4, <1>5, <1>6 DEF Follows

-----------------------------------------------------------------------------
(* A transmission begins after a quiet time                                 *)

\* After a quiet time no message is being received past its sync space: two bit
\* timeouts have ended it.
LEMMA QuietReceiver ==
    ASSUME RxP \in Protocols, RxOK(RxP, rx), gap \in 0..MaxGap, NEW dt \in Nat, CanPass(dt),
           BitTimed(rx, gap, link.tmo), Fresh(dt)
    PROVE  /\ rx.sync \in {0, 1} /\ (rx.sync = 0 => rx.msgLeft = None)
           /\ GapLater(dt) \in Nat /\ GapLater(dt) > SyncSpace[RxP] * Base + Base \div 2
<1>1. Base \in Nat /\ BitTimeout \in Nat /\ None \notin Nat /\ SyncSpace[RxP] \in Nat
  <2>1. SyncSpace[RxP] \in 1..16
    BY SyncRange
  <2> QED
    BY <2>1, CodecAssumption, TimeoutAssumption
<1> DEFINE a == 2 * BitTimeout
           c == SyncSpace[RxP] * Base + Base \div 2
<1>2. a \in Int /\ c \in Int
  BY <1>1
<1>3. Quiet >= a /\ Quiet >= c /\ Quiet \in Int
  <2> HIDE DEF a, c
  <2>1. Max({a, c}) = IF a >= c THEN a ELSE c
    BY <1>2, MinMax
  <2>2. Quiet = Max({a, c})
    BY DEF Quiet, a, c
  <2> QED
    BY <1>2, <2>1, <2>2
<1>4. GapLater(dt) \in Nat /\ GapLater(dt) <= gap + dt /\ gap \in Nat
  BY GapGrows
<1>5. GapLater(dt) > Quiet /\ (rx.sync = 0 => rx.msgLeft = None)
  BY DEF Fresh
<1>6. rx.sync # 2
  <2> SUFFICES ASSUME rx.sync = 2, link.tmo # "keep", BitTimeout # 0 PROVE FALSE
    BY DEF Fresh
  <2>1. BitTimeout > 0
    BY <1>1
  <2>2. rx.bitLeft # None /\ gap + rx.bitLeft <= a
    BY <2>1 DEF BitTimed
  <2>3. rx.bitLeft \in Nat /\ dt <= rx.bitLeft
    BY <2>2 DEF RxOK, Time, CanPass, Alarms
  <2> HIDE DEF a, c
  <2> QED
    BY <1>2, <1>3, <1>4, <1>5, <2>2, <2>3
<1>7. rx.sync \in {0, 1}
  BY <1>6 DEF RxOK
<1> HIDE DEF a, c
<1> QED
  BY <1>2, <1>3, <1>4, <1>5, <1>7 DEF c

\* The first mark of a transmission after a quiet time finds a receiver that waits
\* for one, or makes it wait: so long a space ends what a sync mark began.
LEMMA QuietBegins ==
    ASSUME NEW q \in Protocols, NEW r, RxOK(q, r), r.sync \in {0, 1},
           r.sync = 0 => r.msgLeft = None, NEW d \in Nat,
           d > SyncSpace[q] * Base + Base \div 2, NEW falling,
           NEW s, s = StoreTimestamp(q, r, d, falling)
    PROVE  ~falling => Deaf(s) /\ s.heard = r.heard
<1>c. SUFFICES ASSUME ~falling PROVE Deaf(s) /\ s.heard = r.heard
  OBVIOUS
<1>1. CASE r.sync = 0
  <2>1. s.sync = 0 /\ s.heard = r.heard /\ s.msgLeft = r.msgLeft
    BY <1>c, <1>1, MarkIgnored
  <2> QED
    BY <1>1, <2>1 DEF Deaf
<1>2. CASE r.sync = 1
  <2>1. ~ComparePulse(d, SyncSpace[q])
    <3>1. PICK n \in 1..16 : n = SyncSpace[q]
      BY SyncRange
    <3>2. Base \in Nat /\ n * Base \in Nat /\ Base \div 2 \in Nat /\ d > n * Base + Base \div 2
      BY <3>1, CodecAssumption
    <3>3. ~ComparePulse(d, n)
      BY <3>2 DEF ComparePulse
    <3> QED
      BY <3>1, <3>3
  <2>2. q = "nec" => ~ComparePulse(d, 4)
    <3> SUFFICES ASSUME q = "nec" PROVE ~ComparePulse(d, 4)
      OBVIOUS
    <3>1. SyncSpace[q] = 8 /\ Base \in Nat
      BY SyncRange, CodecAssumption
    <3>2. d > 8 * Base + Base \div 2 /\ Base \div 2 \in Nat
      BY <3>1
    <3> QED
      BY <3>1, <3>2 DEF ComparePulse
  <2>3. Waiting(s) /\ s.heard = r.heard
    BY <1>2, <2>1, <2>2, SpaceFields
  <2> QED
    BY <2>3 DEF Waiting, Deaf
<1> QED
  BY <1>1, <1>2

-----------------------------------------------------------------------------
(* Transmissions are heard                                                  *)

\* What the transmitter sends is a message or a repeat code of the link, and it is
\* lit at the odd times.
KnownPart ==
    /\ \E l \in Links : TxP = l[1] /\ RxP = l[2]
    /\ msg \in Messages
    /\ led.times = <<>> \/ Known(TxP, msg, led.times)
    /\ led.out \in 1..Len(led.times) => (led.lit <=> led.out % 2 = 1)

\* The receiver follows a fresh transmission.
FollowsPart ==
    (fresh /\ led.out \in 1..Len(led.times))
      => Follows(TxP, RxP, led.times, led.out, led.left, rx, gap)

\* The inductive invariant of FreshHeard, on top of LinkInv.
FreshInv == KnownPart /\ BitTimed(rx, gap, link.tmo) /\ FollowsPart /\ FreshHeard

\* What is known of the transmission under way.
LEMMA KnownNow ==
    ASSUME LinkInv, KnownPart, led.times # <<>>
    PROVE  Shape(TxP, msg, led.times) /\ Fits(TxP, msg[1], msg[2]) /\ Punctual(led.times)
<1>1. PICK l \in Links : TxP = l[1] /\ RxP = l[2]
  BY DEF KnownPart
<1>2. TxP \in Protocols /\ msg \in Messages /\ Known(TxP, msg, led.times)
  BY DEF LinkInv, KnownPart, TxP
<1>3. Shape(TxP, msg, led.times)
  BY <1>2, KnownShape
<1>4. Fits(TxP, msg[1], msg[2])
  BY <1>1, <1>2, MessageAssumption
<1>5. Punctual(led.times)
  BY <1>1, <1>2, InTime DEF Punctual
<1> QED
  BY <1>3, <1>4, <1>5

\* The receiver r before an edge, time dt after the last step.
Hearing(r, dt) == /\ RxOK(RxP, r) /\ r.sync = rx.sync /\ r.pulses = rx.pulses /\ r.prev = rx.prev
                  /\ r.msgLeft = Later(rx.msgLeft, dt) /\ r.bitLeft = Later(rx.bitLeft, dt)

\* What the receiver sees of the light.
LEMMA SeesParts ==
    ASSUME RxP \in Protocols, RxOK(RxP, rx), NEW dt \in Nat, CanPass(dt),
           NEW lit, NEW seen, Sees(lit, dt, seen)
    PROVE  \E r, falling :
              /\ Hearing(r, dt) /\ (falling <=> ~lit)
              /\ Begins => r.heard = NoEvent
              /\ ~Begins => r.heard = rx.heard
              /\ IF lit # led.lit /\ seen
                 THEN rx' = StoreTimestamp(RxP, r, GapLater(dt), falling) /\ gap' = 0
                 ELSE rx' = r /\ gap' = GapLater(dt)
<1>1. RxOK(RxP, RxLater(dt)) /\ SamePlace(rx, RxLater(dt))
      /\ RxLater(dt).msgLeft = Later(rx.msgLeft, dt)
      /\ RxLater(dt).bitLeft = Later(rx.bitLeft, dt)
  BY RxLaterOK, LaterFields
<1>2. PICK q : q = RxLater(dt)
  OBVIOUS
<1>3. PICK h : h = IF Begins THEN NoEvent ELSE q.heard
  OBVIOUS
<1>4. PICK r : r = [q EXCEPT !.heard = h]
  OBVIOUS
<1>5. r = [sync |-> q.sync, pulses |-> q.pulses, rptAddr |-> q.rptAddr, rptFunc |-> q.rptFunc,
           msgLeft |-> q.msgLeft, bitLeft |-> q.bitLeft, prev |-> q.prev,
           permits |-> q.permits, heard |-> h]
  BY <1>1, <1>2, <1>4 DEF RxOK, RxRecord
<1>6. RxOK(RxP, r)
  <2>1. RxRecord(r)
    BY <1>5 DEF RxRecord
  <2> QED
    BY <1>1, <1>2, <1>5, <2>1 DEF RxOK
<1>7. Hearing(r, dt) /\ r.heard = h
  BY <1>1, <1>2, <1>5, <1>6 DEF Hearing, SamePlace
<1>8. PICK falling : falling = ~lit
  OBVIOUS
<1>9. IF lit # led.lit /\ seen
      THEN rx' = StoreTimestamp(RxP, r, GapLater(dt), falling) /\ gap' = 0
      ELSE rx' = r /\ gap' = GapLater(dt)
  BY <1>2, <1>3, <1>4, <1>8 DEF Sees
<1>10. (Begins => r.heard = NoEvent) /\ (~Begins => r.heard = rx.heard)
  BY <1>1, <1>2, <1>3, <1>7 DEF SamePlace
<1> QED
  BY <1>7, <1>8, <1>9, <1>10

\* The bit timer before an edge.
LEMMA HearingBit ==
    ASSUME RxP \in Protocols, RxOK(RxP, rx), gap \in 0..MaxGap, NEW dt \in Nat, CanPass(dt),
           NEW tmo, BitTimed(rx, gap, tmo), NEW r, Hearing(r, dt)
    PROVE  BitTimed(r, GapLater(dt), tmo)
<1>1. BitTimed(RxLater(dt), GapLater(dt), tmo)
  BY BitTimedLater
<1>2. /\ r.sync = RxLater(dt).sync /\ r.pulses = RxLater(dt).pulses
      /\ r.prev = RxLater(dt).prev /\ r.bitLeft = RxLater(dt).bitLeft
  BY LaterFields DEF Hearing, SamePlace
<1> QED
  BY <1>1, <1>2, BitTimedSame

\* The bit timer whatever the receiver sees.
LEMMA BitSees ==
    ASSUME RxP \in Protocols, RxOK(RxP, rx), gap \in 0..MaxGap, NEW dt \in Nat, CanPass(dt),
           NEW tmo, BitTimed(rx, gap, tmo), NEW lit, NEW seen, Sees(lit, dt, seen)
    PROVE  BitTimed(rx', gap', tmo)
<1>1. PICK r, falling :
              /\ Hearing(r, dt)
              /\ IF lit # led.lit /\ seen
                 THEN rx' = StoreTimestamp(RxP, r, GapLater(dt), falling) /\ gap' = 0
                 ELSE rx' = r /\ gap' = GapLater(dt)
  BY SeesParts
<1>2. BitTimed(r, GapLater(dt), tmo) /\ GapLater(dt) \in Nat /\ RxOK(RxP, r)
  BY <1>1, HearingBit, GapGrows DEF Hearing
<1>3. CASE rx' = StoreTimestamp(RxP, r, GapLater(dt), falling) /\ gap' = 0
  BY <1>2, <1>3, BitTimedStore
<1>4. CASE rx' = r /\ gap' = GapLater(dt)
  BY <1>2, <1>4
<1> QED
  BY <1>1, <1>3, <1>4

\* A transmission that begins after a quiet time finds a receiver that waits for it.
LEMMA FreshBegins ==
    ASSUME RxP \in Protocols, RxOK(RxP, rx), gap \in 0..MaxGap, NEW dt \in Nat, CanPass(dt),
           BitTimed(rx, gap, link.tmo), Fresh(dt), Begins,
           NEW lit, NEW seen, Sees(lit, dt, seen)
    PROVE  (lit /\ ~led.lit /\ seen) => Deaf(rx') /\ rx'.heard = NoEvent /\ gap' = 0
<1>c. SUFFICES ASSUME lit /\ ~led.lit /\ seen PROVE Deaf(rx') /\ rx'.heard = NoEvent /\ gap' = 0
  OBVIOUS
<1>1. /\ rx.sync \in {0, 1} /\ (rx.sync = 0 => rx.msgLeft = None)
      /\ GapLater(dt) \in Nat /\ GapLater(dt) > SyncSpace[RxP] * Base + Base \div 2
  BY QuietReceiver
<1>2. PICK r, falling :
              /\ Hearing(r, dt) /\ (falling <=> ~lit) /\ r.heard = NoEvent
              /\ IF lit # led.lit /\ seen
                 THEN rx' = StoreTimestamp(RxP, r, GapLater(dt), falling) /\ gap' = 0
                 ELSE rx' = r /\ gap' = GapLater(dt)
  BY SeesParts
<1>3. rx' = StoreTimestamp(RxP, r, GapLater(dt), falling) /\ gap' = 0
  BY <1>c, <1>2
<1>4. ~falling
  BY <1>c, <1>2
<1>5. RxOK(RxP, r) /\ r.sync \in {0, 1} /\ (r.sync = 0 => r.msgLeft = None)
  BY <1>1, <1>2 DEF Hearing, Later
<1>6. ~falling => Deaf(rx') /\ rx'.heard = r.heard
  BY <1>1, <1>3, <1>5, QuietBegins
<1> QED
  BY <1>2, <1>3, <1>4, <1>6

\* It then follows the transmission.
LEMMA FollowsFirst ==
    ASSUME NEW p \in Protocols, NEW q \in Protocols, NEW m, NEW t, Shape(p, m, t),
           NEW r, Deaf(r), r.heard = NoEvent
    PROVE  Follows(p, q, t, 1, t[1], r, 0)
<1>1. t[1] \in Nat /\ 0 + t[1] = t[1]
  BY DEF Shape
<1> QED
  BY <1>1 DEF Follows

\* The transmitter's alarm lights it at the odd times.
LEMMA KnownAlarm ==
    ASSUME LinkInv, KnownPart, NEW seen \in BOOLEAN, LedAlarm(seen)
    PROVE  /\ KnownPart' /\ led.times # <<>> /\ led'.times = led.times /\ led.left \in Nat
           /\ led.out < Len(led.times) =>
                led'.out = led.out + 1 /\ led'.left = led.times[led.out + 1]
           /\ led.out < Len(led.times) => (led'.lit <=> led.out % 2 = 0)
           /\ led.out = Len(led.times) => led'.out = led.out + 1 /\ ~led'.lit
           /\ led.out > Len(led.times) => led'.out \in {0, led.out} /\ ~led'.lit
<1>1. /\ TxP \in Protocols /\ LedOK(TxP, led) /\ led' = SetNext(TxP, led) /\ led.times # <<>>
      /\ led.out \in Nat /\ Len(led.times) \in Nat /\ led.left \in Nat /\ led.repeat \in Nat
      /\ UNCHANGED <<link, msg>>
  BY DEF LinkInv, TxPart, LedOK, LedRecord, LedAlarm, Time, TxP
<1>2. CASE led.out < Len(led.times)
  <2>1. led' = [times |-> led.times, out |-> led.out + 1, left |-> led.times[led.out + 1],
                repeat |-> led.repeat, lit |-> (led.out % 2 = 0)]
    BY <1>1, <1>2, SetNextOK
  <2>2. /\ led'.times = led.times /\ led'.out = led.out + 1
        /\ led'.left = led.times[led.out + 1]
    BY <2>1
  <2>3. led'.lit <=> led.out % 2 = 0
    BY <2>1
  <2>4. led.out % 2 = 0 <=> (led.out + 1) % 2 = 1
    BY <1>1
  <2>5. KnownPart'
    BY <1>1, <2>2, <2>3, <2>4 DEF KnownPart, TxP, RxP
  <2> QED
    BY <1>1, <1>2, <2>2, <2>3, <2>5
<1>3. CASE led.out >= Len(led.times)
  <2>1. /\ led'.times = led.times /\ ~led'.lit
        /\ led.out = Len(led.times) => led'.out = led.out + 1
        /\ led.out > Len(led.times) => led'.out \in {0, led.out}
    <3>1. CASE led.out = Len(led.times)
      BY <1>1, <3>1, SetNextOK
    <3>2. CASE led.out > Len(led.times)
      BY <1>1, <3>2, SetNextOK
    <3> QED
      BY <1>1, <1>3, <3>1, <3>2
  <2>2. led'.out \notin 1..Len(led'.times)
    BY <1>1, <1>3, <2>1
  <2>3. KnownPart'
    BY <1>1, <2>1, <2>2 DEF KnownPart, TxP, RxP
  <2> QED
    BY <1>1, <1>3, <2>1, <2>3
<1> QED
  BY <1>1, <1>2, <1>3

\* The edge that the transmitter's alarm makes: the receiver follows it, and after
\* the last one it has heard the message.
LEMMA FreshAlarm ==
    ASSUME LinkInv, FreshInv, NEW seen \in BOOLEAN, LedAlarm(seen)
    PROVE  FreshInv'
<1> DEFINE n == Len(led.times)
           j == led.out
<1>1. /\ TxP \in Protocols /\ RxP \in Protocols /\ RxOK(RxP, rx) /\ LedOK(TxP, led)
      /\ gap \in 0..MaxGap /\ KnownPart /\ BitTimed(rx, gap, link.tmo) /\ FollowsPart
  BY DEF LinkInv, RxPart, TxPart, FreshInv, TxP, RxP
<1>2. /\ KnownPart' /\ led.times # <<>> /\ led'.times = led.times /\ led.left \in Nat
      /\ j < n => led'.out = j + 1 /\ led'.left = led.times[j + 1]
      /\ j < n => (led'.lit <=> j % 2 = 0)
      /\ j = n => led'.out = j + 1 /\ ~led'.lit
      /\ j > n => led'.out \in {0, j} /\ ~led'.lit
  BY <1>1, KnownAlarm
<1>3. /\ Shape(TxP, msg, led.times) /\ Fits(TxP, msg[1], msg[2]) /\ msg \in Messages
      /\ Punctual(led.times)
  BY <1>1, <1>2, KnownNow DEF KnownPart
<1>4. j \in Nat /\ n \in Nat /\ n >= 3 /\ n % 2 = 1 /\ j <= n + 1
  BY <1>1, <1>3 DEF Shape, LedOK, LedRecord
<1>5. /\ Sees(led'.lit, led.left, seen) /\ CanPass(led.left) /\ UNCHANGED <<link, msg>>
      /\ fresh' = (seen /\ IF Begins THEN Fresh(led.left) ELSE fresh /\ j <= n)
  BY DEF LedAlarm
<1>6. BitTimed(rx', gap', link'.tmo)
  BY <1>1, <1>2, <1>5, BitSees
<1>7. TxP' = TxP /\ RxP' = RxP /\ msg' = msg
  BY <1>5 DEF TxP, RxP
<1> HIDE DEF n, j
<1>8. CASE Begins
  <2>1. led'.out = 1 /\ led'.lit /\ ~led.lit
    BY <1>8 DEF Begins
  <2>2. j < n /\ led'.left = led.times[1]
    <3>1. j < n
      BY <1>2, <1>4, <2>1
    <3>2. j + 1 = 1
      BY <1>2, <2>1, <3>1
    <3> QED
      BY <1>2, <3>1, <3>2
  <2>3. fresh' => Follows(TxP, RxP, led.times, 1, led.times[1], rx', gap')
    <3> SUFFICES ASSUME fresh' PROVE Follows(TxP, RxP, led.times, 1, led.times[1], rx', gap')
      OBVIOUS
    <3>1. seen /\ Fresh(led.left)
      BY <1>5, <1>8
    <3>2. Deaf(rx') /\ rx'.heard = NoEvent /\ gap' = 0
      BY <1>1, <1>2, <1>5, <1>8, <2>1, <3>1, FreshBegins
    <3> QED
      BY <1>1, <1>3, <3>2, FollowsFirst
  <2>4. FollowsPart'
    BY <1>2, <1>7, <2>1, <2>2, <2>3 DEF FollowsPart
  <2>5. led'.out # Len(led'.times) + 1
    BY <1>2, <1>4, <2>1 DEF n
  <2>6. FreshHeard'
    BY <2>5 DEF FreshHeard
  <2> QED
    BY <1>2, <1>6, <2>4, <2>6 DEF FreshInv
<1>9. CASE ~Begins
  <2>1. CASE ~fresh'
    BY <1>2, <1>6, <2>1 DEF FreshInv, FollowsPart, FreshHeard
  <2>2. CASE fresh'
    <3>1. seen /\ fresh /\ j <= n
      BY <1>5, <1>9, <2>2
    <3>2. j # 0
      <4> SUFFICES ASSUME j = 0 PROVE Begins
        BY <1>9
      <4>1. j < n /\ j % 2 = 0 /\ j + 1 = 1
        BY <1>4
      <4>2. led'.out = 1 /\ led'.lit
        BY <1>2, <4>1
      <4>3. ~led.lit
        BY <1>1 DEF LedOK, j
      <4> QED
        BY <4>2, <4>3 DEF Begins
    <3>3. j \in 1..n
      BY <1>4, <3>1, <3>2
    <3>4. /\ Follows(TxP, RxP, led.times, j, led.left, rx, gap)
          /\ led.lit <=> j % 2 = 1
      BY <1>1, <3>1, <3>3 DEF FollowsPart, KnownPart, j, n
    <3>5. led'.lit <=> j % 2 = 0
      BY <1>2, <1>4, <3>3
    <3>a. PICK lit : lit = led'.lit
      OBVIOUS
    <3>b. Sees(lit, led.left, seen)
      BY <1>5, <3>a
    <3>6. PICK r, falling :
              /\ Hearing(r, led.left) /\ (falling <=> ~lit)
              /\ Begins => r.heard = NoEvent
              /\ ~Begins => r.heard = rx.heard
              /\ IF lit # led.lit /\ seen
                 THEN rx' = StoreTimestamp(RxP, r, GapLater(led.left), falling) /\ gap' = 0
                 ELSE rx' = r /\ gap' = GapLater(led.left)
      BY <1>1, <1>2, <1>5, <3>b, SeesParts
    <3>7. j % 2 = 0 <=> ~(j % 2 = 1)
      BY <3>3
    <3>8. rx' = StoreTimestamp(RxP, r, GapLater(led.left), falling) /\ gap' = 0
      <4>1. led'.lit # led.lit
        BY <3>4, <3>5, <3>7
      <4> QED
        BY <3>1, <3>6, <3>a, <4>1
    <3>9. falling <=> j % 2 = 1
      BY <3>5, <3>6, <3>7, <3>a
    <3>10. Follows(TxP, RxP, led.times, j, 0, r, GapLater(led.left))
      <4>1. Passed(r, led.left)
        BY <1>9, <3>6 DEF Hearing, Passed, SamePlace
      <4>2. Follows(TxP, RxP, led.times, j, led.left - led.left, r, GapLater(led.left))
        BY <1>1, <1>2, <1>3, <1>5, <3>3, <3>4, <4>1, FollowsLater DEF n
      <4>3. led.left - led.left = 0
        BY <1>2
      <4> QED
        BY <4>2, <4>3
    <3>11. GapLater(led.left) = led.times[j]
      <4>1. GapLater(led.left) + 0 = led.times[j] /\ GapLater(led.left) \in Nat
        BY <3>10 DEF Follows
      <4> QED
        BY <4>1
    <3>12. BitTimed(r, led.times[j], link.tmo) /\ RxOK(RxP, r)
      BY <1>1, <1>2, <1>5, <3>6, <3>11, HearingBit DEF Hearing
    <3>13. /\ j < n => Follows(TxP, RxP, led.times, j + 1, led.times[j + 1], rx', 0)
           /\ j = n => Reached(TxP, RxP, msg, led.times, rx'.heard)
      <4>1. Agrees(falling, j) =>
              /\ j < n => Follows(TxP, RxP, led.times, j + 1, led.times[j + 1], rx', 0)
              /\ j = n => Reached(TxP, RxP, msg, led.times, rx'.heard)
        <5>1. PICK u, s, p, q : u = led.times /\ s = rx' /\ p = TxP /\ q = RxP
          OBVIOUS
        <5>2. /\ p \in Protocols /\ q \in Protocols /\ Fits(p, msg[1], msg[2]) /\ Shape(p, msg, u)
              /\ Punctual(u) /\ j \in 1..Len(u) /\ RxOK(q, r) /\ BitTimed(r, u[j], link.tmo)
              /\ Follows(p, q, u, j, 0, r, u[j]) /\ s = StoreTimestamp(q, r, u[j], falling)
          BY <1>1, <1>3, <3>3, <3>8, <3>10, <3>11, <3>12, <5>1 DEF n
        <5>3. Agrees(falling, j) => Past(p, q, msg, u, j, s)
          BY <1>3, <5>2, FollowsEdge
        <5> QED
          BY <5>1, <5>3 DEF n, Past
      <4> QED
        BY <3>9, <4>1 DEF Agrees
    <3>14. FollowsPart'
      BY <1>2, <1>4, <1>7, <3>3, <3>8, <3>13 DEF FollowsPart, n
    <3>15. FreshHeard'
      <4> SUFFICES ASSUME led'.out = Len(led'.times) + 1
                   PROVE  /\ rx'.heard.kind = Expected'
                          /\ rx'.heard.kind = "msg" => /\ rx'.heard.addr = HeardAddr(TxP', msg'[1])
                                                       /\ rx'.heard.func = msg'[2]
        BY DEF FreshHeard
      <4>1. j = n
        BY <1>2, <1>4, <3>3 DEF n
      <4>2. Reached(TxP, RxP, msg, led.times, rx'.heard)
        BY <3>13, <4>1
      <4> QED
        BY <1>2, <1>7, <4>2 DEF Reached, Expected
    <3> QED
      BY <1>2, <1>6, <3>14, <3>15 DEF FreshInv
  <2> QED
    BY <2>1, <2>2
<1> QED
  BY <1>8, <1>9

\* transmit or repeat begins a transmission of the times t of message m.
LEMMA FreshStart ==
    ASSUME LinkInv, FreshInv, NEW dt \in Nat, NEW l, NEW n, Controls(l, n, dt),
           NEW m \in Messages, NEW t, Known(TxP, m, t), msg' = m, NEW k,
           l = [times |-> t, out |-> 1, left |-> t[1], repeat |-> k, lit |-> TRUE]
    PROVE  FreshInv'
<1>1. /\ TxP \in Protocols /\ RxP \in Protocols /\ RxOK(RxP, rx) /\ gap \in 0..MaxGap
      /\ KnownPart /\ BitTimed(rx, gap, link.tmo)
  BY DEF LinkInv, RxPart, FreshInv, TxP, RxP
<1>2. /\ CanPass(dt) /\ led' = l /\ Sees(l.lit, dt, TRUE) /\ link' = link
      /\ fresh' = (l.lit /\ ~led.lit /\ Fresh(dt))
  BY DEF Controls
<1>3. Shape(TxP, m, t)
  BY <1>1, KnownShape
<1>4. TxP' = TxP /\ RxP' = RxP
  BY <1>2 DEF TxP, RxP
<1>5. led'.times = t /\ led'.out = 1 /\ led'.left = t[1] /\ led'.lit /\ l.lit = TRUE
  BY <1>2
<1>6. KnownPart'
  <2>1. 1 % 2 = 1
    OBVIOUS
  <2> QED
    BY <1>1, <1>4, <1>5, <2>1 DEF KnownPart
<1>7. BitTimed(rx', gap', link'.tmo)
  BY <1>1, <1>2, BitSees
<1>8. fresh' => Follows(TxP, RxP, t, 1, t[1], rx', gap')
  <2> SUFFICES ASSUME fresh' PROVE Follows(TxP, RxP, t, 1, t[1], rx', gap')
    OBVIOUS
  <2>1. l.lit /\ ~led.lit /\ Fresh(dt)
    BY <1>2
  <2>2. Begins
    BY <1>5, <2>1 DEF Begins
  <2>3. (l.lit /\ ~led.lit /\ TRUE) => Deaf(rx') /\ rx'.heard = NoEvent /\ gap' = 0
    BY <1>1, <1>2, <2>1, <2>2, FreshBegins
  <2> QED
    BY <1>1, <1>3, <2>1, <2>3, FollowsFirst
<1>9. FollowsPart'
  BY <1>4, <1>5, <1>8 DEF FollowsPart
<1>10. FreshHeard'
  <2>1. Len(t) >= 3 /\ Len(t) \in Nat
    BY <1>3 DEF Shape
  <2>2. led'.out # Len(led'.times) + 1
    BY <1>5, <2>1
  <2> QED
    BY <2>2 DEF FreshHeard
<1> QED
  BY <1>6, <1>7, <1>9, <1>10 DEF FreshInv

\* transmit, repeat and stop.
LEMMA FreshControl ==
    ASSUME LinkInv, FreshInv, NEW dt \in Delays,
           AppRepeat(dt) \/ AppStop(dt) \/ \E m \in Messages : AppTransmit(m, dt)
    PROVE  FreshInv'
<1>1. /\ TxP \in Protocols /\ RxP \in Protocols /\ RxOK(RxP, rx) /\ gap \in 0..MaxGap
      /\ KnownPart /\ BitTimed(rx, gap, link.tmo) /\ LedOK(TxP, led) /\ dt \in Nat
      /\ MinRepeats[TxP] \in Nat /\ msg \in Messages
  BY LinkAssumption, RepeatAssumption DEF LinkInv, RxPart, TxPart, FreshInv, KnownPart, TxP, RxP
<1>2. ASSUME NEW m \in Messages, AppTransmit(m, dt) PROVE FreshInv'
  <2>1. PICK t : t = MessageTimes(TxP, m[1], m[2])
    OBVIOUS
  <2>2. m[1] \in Nat /\ m[2] \in Nat
    BY LinkAssumption
  <2>3. t \in Seq(Nat) /\ Len(t) >= 5
    BY <1>1, <2>1, <2>2, MessageTyped
  <2>4. LedOK(TxP, SetOutputTimes(led, t)) /\ SetOutputTimes(led, t).times = t /\ t # <<>>
    BY <1>1, <2>3, OutputOK
  <2>5. PICK l : l = StartLed(TxP, SetOutputTimes(led, t), MinRepeats[TxP])
    OBVIOUS
  <2>6. l = [times |-> t, out |-> 1, left |-> t[1], repeat |-> MinRepeats[TxP], lit |-> TRUE]
    <3>1. PICK o, k : o = SetOutputTimes(led, t) /\ k = MinRepeats[TxP]
      OBVIOUS
    <3>2. k \in 0..MinRepeats[TxP] /\ LedOK(TxP, o) /\ o.times = t
      BY <1>1, <2>4, <3>1
    <3>3. StartLed(TxP, o, k) = [times |-> t, out |-> 1, left |-> t[1], repeat |-> k, lit |-> TRUE]
      BY <1>1, <2>4, <3>2, StartOK
    <3> QED
      BY <2>5, <3>1, <3>3
  <2>7. Controls(l, MinRepeats[TxP] + 1, dt) /\ msg' = m
    BY <1>2, <2>1, <2>5 DEF AppTransmit, Transmit
  <2>8. Known(TxP, m, t)
    BY <2>1 DEF Known
  <2> QED
    BY <1>1, <2>6, <2>7, <2>8, FreshStart
<1>3. CASE AppRepeat(dt)
  <2>1. PICK o : o = IF TxP = "nec" THEN SetOutputTimes(led, RepeatTimes) ELSE led
    OBVIOUS
  <2>2. RepeatTimes \in Seq(Nat) /\ RepeatTimes # <<>>
    BY CodecAssumption DEF RepeatTimes
  <2>3. LedOK(TxP, o) /\ o.times # <<>> /\ Known(TxP, msg, o.times)
    <3>1. CASE TxP = "nec"
      <4>1. o = SetOutputTimes(led, RepeatTimes)
        BY <2>1, <3>1
      <4>2. LedOK(TxP, o) /\ o.times = RepeatTimes
        BY <1>1, <2>2, <4>1, OutputOK
      <4> QED
        BY <2>2, <3>1, <4>2 DEF Known
    <3>2. CASE TxP # "nec"
      BY <1>1, <1>3, <2>1, <3>2 DEF AppRepeat, KnownPart
    <3> QED
      BY <3>1, <3>2
  <2>4. PICK l, u : l = StartLed(TxP, o, 0) /\ u = o.times
    OBVIOUS
  <2>5. l = [times |-> u, out |-> 1, left |-> u[1], repeat |-> 0, lit |-> TRUE]
    <3>1. 0 \in 0..MinRepeats[TxP]
      BY <1>1
    <3> QED
      BY <1>1, <2>3, <2>4, <3>1, StartOK
  <2>6. Controls(l, 1, dt) /\ msg' = msg
    BY <1>3, <2>1, <2>4 DEF AppRepeat, Repeat
  <2>7. PICK m \in Messages : m = msg
    BY <1>1
  <2>8. Known(TxP, m, u) /\ msg' = m
    BY <2>3, <2>4, <2>6, <2>7
  <2> QED
    BY <1>1, <2>5, <2>6, <2>8, FreshStart
<1>4. CASE AppStop(dt)
  <2>1. PICK l : l = StopLed(led)
    OBVIOUS
  <2>2. l = [times |-> led.times, out |-> 0, left |-> None, repeat |-> 0, lit |-> FALSE]
    BY <1>1, <2>1, StopOK
  <2>3. Controls(l, 0, dt) /\ msg' = msg
    BY <1>4, <2>1 DEF AppStop
  <2>4. /\ CanPass(dt) /\ led' = l /\ Sees(l.lit, dt, TRUE) /\ link' = link
        /\ fresh' = (l.lit /\ ~led.lit /\ Fresh(dt))
    BY <2>3 DEF Controls
  <2>5. led'.times = led.times /\ led'.out = 0 /\ ~l.lit
    BY <2>2, <2>4
  <2>6. ~fresh'
    BY <2>4, <2>5
  <2>7. BitTimed(rx', gap', link'.tmo)
    BY <1>1, <2>4, BitSees
  <2>8. KnownPart'
    BY <1>1, <2>3, <2>4, <2>5 DEF KnownPart, TxP, RxP
  <2> QED
    BY <2>6, <2>7, <2>8 DEF FreshInv, FollowsPart, FreshHeard
<1> QED
  BY <1>2, <1>3, <1>4

\* Time passes without an edge of the transmitter.
LEMMA KnownLater ==
    ASSUME LinkInv, KnownPart, NEW dt \in Nat, CanPass(dt), led' = LedLater(dt),
           UNCHANGED <<link, msg>>
    PROVE  /\ KnownPart' /\ led'.times = led.times /\ led'.out = led.out
           /\ led.left # None => led'.left = led.left - dt
<1>1. LedOK(TxP, led) /\ TxP \in Protocols
  BY DEF LinkInv, TxPart, TxP
<1>2. /\ led' = [led EXCEPT !.left = Later(led.left, dt)]
      /\ led.left # None => Later(led.left, dt) = led.left - dt
  BY <1>1, LedLaterOK
<1>3. /\ led'.times = led.times /\ led'.out = led.out /\ (led'.lit <=> led.lit)
      /\ led'.left = Later(led.left, dt)
  BY <1>1, <1>2 DEF LedOK, LedRecord
<1>4. KnownPart'
  BY <1>3 DEF KnownPart, TxP, RxP
<1> QED
  BY <1>2, <1>3, <1>4

\* The message timer does not fire in a fresh transmission, and says nothing about
\* another.
LEMMA FreshMsgAlarm ==
    ASSUME LinkInv, FreshInv, MsgAlarm
    PROVE  FreshInv'
<1>1. /\ TxP \in Protocols /\ RxP \in Protocols /\ RxOK(RxP, rx) /\ gap \in 0..MaxGap
      /\ KnownPart /\ BitTimed(rx, gap, link.tmo) /\ FollowsPart /\ None \notin Nat
      /\ link.tmo \in {"error", "fail", "keep"}
  BY CodecAssumption DEF LinkInv, RxPart, FreshInv, TxP, RxP
<1>2. PICK dt : dt = rx.msgLeft
  OBVIOUS
<1>3. /\ dt \in Nat /\ CanPass(dt) /\ rx' = TimeoutMsg(RxLater(dt), link.tmo)
      /\ led' = LedLater(dt) /\ gap' = GapLater(dt) /\ UNCHANGED <<link, msg>>
      /\ fresh' = (fresh /\ led.out <= Len(led.times))
  BY <1>1, <1>2 DEF MsgAlarm, Listens, RxOK, Time
<1>4. KnownPart' /\ led'.times = led.times /\ led'.out = led.out
  BY <1>1, <1>3, KnownLater
<1>5. BitTimed(rx', gap', link'.tmo)
  <2>1. BitTimed(RxLater(dt), GapLater(dt), link.tmo) /\ RxOK(RxP, RxLater(dt))
    BY <1>1, <1>3, BitTimedLater, RxLaterOK
  <2>2. CASE link.tmo # "keep"
    <3>1. rx'.sync = 0 /\ rx'.bitLeft = None
      BY <1>1, <1>3, <2>1, <2>2, MsgFields
    <3> QED
      BY <3>1, BitTimedOutside
  <2>3. CASE link.tmo = "keep"
    <3>1. SamePlace(RxLater(dt), rx') /\ rx'.bitLeft = RxLater(dt).bitLeft
      BY <1>1, <1>3, <2>1, <2>3, MsgFields
    <3> QED
      BY <1>3, <2>1, <3>1, BitTimedSame DEF SamePlace
  <2> QED
    BY <2>2, <2>3
<1>6. ~(fresh /\ led.out \in 1..Len(led.times))
  <2> SUFFICES ASSUME fresh, led.out \in 1..Len(led.times) PROVE FALSE
    OBVIOUS
  <2>1. Follows(TxP, RxP, led.times, led.out, led.left, rx, gap)
    BY <1>1 DEF FollowsPart
  <2>2. led.times # <<>>
    OBVIOUS
  <2>3. Shape(TxP, msg, led.times)
    BY <1>1, <2>2, KnownNow
  <2>4. rx.msgLeft > led.left /\ led.left \in Nat
    <3>1. rx.msgLeft # None
      BY <1>1, <1>2, <1>3
    <3>2. rx.msgLeft > led.left
      BY <1>1, <2>1, <2>3, <3>1, FollowsUntimed
    <3>3. led.left \in Nat
      BY <2>1 DEF Follows
    <3> QED
      BY <3>2, <3>3
  <2>5. dt <= led.left
    BY <1>1, <1>3, <2>4 DEF CanPass, Alarms
  <2> QED
    BY <1>2, <1>3, <2>4, <2>5
<1>7. FollowsPart'
  BY <1>3, <1>4, <1>6 DEF FollowsPart
<1>8. FreshHeard'
  <2>1. Len(led.times) \in Nat /\ led.out \in Nat
    BY DEF LinkInv, TxPart, LedOK, LedRecord
  <2>2. fresh' => led'.out # Len(led'.times) + 1
    <3>1. fresh' => led.out <= Len(led.times)
      BY <1>3
    <3>2. PICK a \in Nat, n \in Nat : a = led.out /\ n = Len(led.times)
      BY <2>1
    <3>3. a <= n => a # n + 1
      OBVIOUS
    <3> QED
      BY <1>4, <3>1, <3>2, <3>3
  <2> QED
    BY <2>2 DEF FreshHeard
<1> QED
  BY <1>4, <1>5, <1>7, <1>8 DEF FreshInv

\* The bit timer looks again in a fresh transmission.
LEMMA FreshBitAlarm ==
    ASSUME LinkInv, FreshInv, BitAlarm
    PROVE  FreshInv'
<1>1. /\ TxP \in Protocols /\ RxP \in Protocols /\ RxOK(RxP, rx) /\ gap \in 0..MaxGap
      /\ KnownPart /\ BitTimed(rx, gap, link.tmo) /\ FollowsPart /\ None \notin Nat
      /\ link.tmo \in {"error", "fail", "keep"}
  BY CodecAssumption DEF LinkInv, RxPart, FreshInv, TxP, RxP
<1>2. PICK dt : dt = rx.bitLeft
  OBVIOUS
<1>3. /\ dt \in Nat /\ CanPass(dt) /\ rx' = TimeoutBit(RxLater(dt), link.tmo)
      /\ led' = LedLater(dt) /\ gap' = GapLater(dt) /\ UNCHANGED <<link, msg>>
      /\ fresh' = (fresh /\ led.out <= Len(led.times))
  BY <1>1, <1>2 DEF BitAlarm, Listens, RxOK, Time
<1>4. /\ KnownPart' /\ led'.times = led.times /\ led'.out = led.out
      /\ led.left # None => led'.left = led.left - dt
  BY <1>1, <1>3, KnownLater
<1>5. PICK r : r = RxLater(dt)
  OBVIOUS
<1>6. /\ RxOK(RxP, r) /\ BitTimed(r, GapLater(dt), link.tmo) /\ r.sync # 0 /\ r.bitLeft = 0
      /\ Passed(r, dt) /\ GapLater(dt) \in Nat
  <2>1. RxOK(RxP, r) /\ BitTimed(r, GapLater(dt), link.tmo) /\ GapLater(dt) \in Nat
    BY <1>1, <1>3, <1>5, RxLaterOK, BitTimedLater, GapGrows
  <2>2. Passed(r, dt)
    BY <1>1, <1>3, <1>5, LaterFields DEF Passed
  <2>3. r.bitLeft = 0
    BY <1>1, <1>2, <1>3, <2>2 DEF Passed, Later
  <2>4. r.sync # 0
    BY <1>1, <2>1, <2>3 DEF RxOK
  <2> QED
    BY <2>1, <2>2, <2>3, <2>4
<1>7. BitTimed(rx', gap', link'.tmo)
  BY <1>1, <1>3, <1>5, <1>6, BitTimedBit
<1>8. FollowsPart'
  <2> SUFFICES ASSUME fresh', led'.out \in 1..Len(led'.times)
               PROVE  Follows(TxP', RxP', led'.times, led'.out, led'.left, rx', gap')
    BY DEF FollowsPart
  <2>1. fresh /\ led.out \in 1..Len(led.times)
    BY <1>3, <1>4
  <2>2. Follows(TxP, RxP, led.times, led.out, led.left, rx, gap)
    BY <1>1, <2>1 DEF FollowsPart
  <2>3. led.times # <<>>
    BY <2>1
  <2>4. Shape(TxP, msg, led.times)
    BY <1>1, <2>3, KnownNow
  <2>5. Follows(TxP, RxP, led.times, led.out, led.left - dt, r, GapLater(dt))
    BY <1>1, <1>3, <1>6, <2>1, <2>2, <2>4, FollowsLater
  <2>6. Follows(TxP, RxP, led.times, led.out, led.left - dt, rx', GapLater(dt))
    BY <1>1, <1>3, <1>5, <1>6, <2>1, <2>4, <2>5, FollowsBit
  <2>7. led'.left = led.left - dt
    BY <1>1, <1>4, <2>2 DEF Follows
  <2> QED
    BY <1>3, <1>4, <2>6, <2>7 DEF TxP, RxP
<1>9. FreshHeard'
  <2>1. Len(led.times) \in Nat /\ led.out \in Nat
    BY DEF LinkInv, TxPart, LedOK, LedRecord
  <2>2. fresh' => led'.out # Len(led'.times) + 1
    <3>1. fresh' => led.out <= Len(led.times)
      BY <1>3
    <3>2. PICK a \in Nat, n \in Nat : a = led.out /\ n = Len(led.times)
      BY <2>1
    <3>3. a <= n => a # n + 1
      OBVIOUS
    <3> QED
      BY <1>4, <3>1, <3>2, <3>3
  <2> QED
    BY <2>2 DEF FreshHeard
<1> QED
  BY <1>4, <1>7, <1>8, <1>9 DEF FreshInv

\* Interference ends the freshness of a transmission.
LEMMA FreshGlitch ==
    ASSUME LinkInv, FreshInv, NEW dt \in Delays, NEW falling \in BOOLEAN, Glitch(dt, falling)
    PROVE  FreshInv'
<1>1. /\ TxP \in Protocols /\ RxP \in Protocols /\ RxOK(RxP, rx) /\ gap \in 0..MaxGap
      /\ KnownPart /\ BitTimed(rx, gap, link.tmo) /\ dt \in Nat
  BY LinkAssumption DEF LinkInv, RxPart, FreshInv, TxP, RxP
<1>2. /\ CanPass(dt) /\ rx' = StoreTimestamp(RxP, RxLater(dt), GapLater(dt), falling)
      /\ gap' = 0 /\ led' = LedLater(dt) /\ UNCHANGED <<link, msg>> /\ ~fresh'
  BY DEF Glitch
<1>3. KnownPart'
  BY <1>1, <1>2, KnownLater
<1>4. /\ RxOK(RxP, RxLater(dt)) /\ BitTimed(RxLater(dt), GapLater(dt), link.tmo)
      /\ GapLater(dt) \in Nat
  BY <1>1, <1>2, RxLaterOK, BitTimedLater, GapGrows
<1>5. BitTimed(rx', gap', link'.tmo)
  BY <1>1, <1>2, <1>4, BitTimedStore
<1> QED
  BY <1>2, <1>3, <1>5 DEF FreshInv, FollowsPart, FreshHeard

\* The application's message timer and the waiting thread leave the message alone.
LEMMA FreshRest ==
    ASSUME LinkInv, FreshInv,
           AppStartTimeout \/ WaitBegins \/ WaitWakes \/ WaitTimesOut \/ UNCHANGED vars
    PROVE  FreshInv'
<1>1. /\ TxP \in Protocols /\ RxP \in Protocols /\ RxOK(RxP, rx) /\ None \notin Nat
      /\ KnownPart /\ BitTimed(rx, gap, link.tmo) /\ FollowsPart /\ FreshHeard
  BY CodecAssumption DEF LinkInv, RxPart, FreshInv, TxP, RxP
<1>2. UNCHANGED <<link, led, msg, gap, fresh>>
  BY DEF AppStartTimeout, WaitBegins, WaitWakes, WaitTimesOut, vars, ghosts
<1>3. /\ SamePlace(rx, rx') /\ rx'.bitLeft = rx.bitLeft
      /\ rx'.msgLeft = rx.msgLeft \/ led.left = None
  <2>1. CASE AppStartTimeout
    <3>1. led.left = None /\ rx' = StartMessageTimeout(rx)
      BY <2>1 DEF AppStartTimeout
    <3>2. CASE MsgTimeout > 0 /\ rx.msgLeft = None
      <4>1. rx' = [rx EXCEPT !.msgLeft = MsgTimeout]
        BY <3>1, <3>2 DEF StartMessageTimeout
      <4>2. rx' = [sync |-> rx.sync, pulses |-> rx.pulses, rptAddr |-> rx.rptAddr,
                   rptFunc |-> rx.rptFunc, msgLeft |-> MsgTimeout, bitLeft |-> rx.bitLeft,
                   prev |-> rx.prev, permits |-> rx.permits, heard |-> rx.heard]
        BY <1>1, <4>1 DEF RxOK, RxRecord
      <4> QED
        BY <3>1, <4>2 DEF SamePlace
    <3>3. CASE ~(MsgTimeout > 0 /\ rx.msgLeft = None)
      <4>1. rx' = rx
        BY <3>1, <3>3 DEF StartMessageTimeout
      <4> QED
        BY <4>1 DEF SamePlace
    <3> QED
      BY <3>2, <3>3
  <2>2. ASSUME NEW n, rx' = [rx EXCEPT !.permits = n]
        PROVE  SamePlace(rx, rx') /\ rx'.bitLeft = rx.bitLeft /\ rx'.msgLeft = rx.msgLeft
    <3>1. rx' = [sync |-> rx.sync, pulses |-> rx.pulses, rptAddr |-> rx.rptAddr,
                 rptFunc |-> rx.rptFunc, msgLeft |-> rx.msgLeft, bitLeft |-> rx.bitLeft,
                 prev |-> rx.prev, permits |-> n, heard |-> rx.heard]
      BY <1>1, <2>2 DEF RxOK, RxRecord
    <3> QED
      BY <3>1 DEF SamePlace
  <2>3. CASE WaitBegins \/ WaitTimesOut
    BY <2>2, <2>3 DEF WaitBegins, WaitTimesOut
  <2>4. CASE WaitWakes \/ UNCHANGED vars
    BY <2>4 DEF WaitWakes, vars, SamePlace
  <2> QED
    BY <2>1, <2>3, <2>4
<1>4. BitTimed(rx', gap', link'.tmo)
  BY <1>1, <1>2, <1>3, BitTimedSame DEF SamePlace
<1>5. KnownPart'
  BY <1>1, <1>2 DEF KnownPart, TxP, RxP
<1>6. FollowsPart'
  <2> SUFFICES ASSUME fresh, led.out \in 1..Len(led.times)
               PROVE  Follows(TxP, RxP, led.times, led.out, led.left, rx', gap)
    BY <1>2 DEF FollowsPart, TxP, RxP
  <2>1. Follows(TxP, RxP, led.times, led.out, led.left, rx, gap)
    BY <1>1 DEF FollowsPart
  <2>2. rx'.msgLeft = rx.msgLeft
    BY <1>1, <1>3, <2>1 DEF Follows
  <2>3. Patient(led.times, led.out, led.left, rx) => Patient(led.times, led.out, led.left, rx')
    BY <2>2 DEF Patient
  <2> QED
    BY <1>3, <2>1, <2>2, <2>3 DEF Follows, Deaf, SamePlace
<1>7. FreshHeard'
  BY <1>1, <1>2, <1>3 DEF FreshHeard, Expected, TxP, RxP, SamePlace
<1> QED
  BY <1>4, <1>5, <1>6, <1>7 DEF FreshInv

\* No transmission is under way at first.
LEMMA FreshInitial == Init => FreshInv
<1> SUFFICES ASSUME Init PROVE FreshInv
  OBVIOUS
<1>1. PICK l \in Links, t \in Tmos : link = [tx |-> l[1], rx |-> l[2], tmo |-> t]
  BY DEF Init
<1>2. TxP = l[1] /\ RxP = l[2] /\ msg \in Messages /\ ~fresh
  BY <1>1 DEF Init, TxP, RxP
<1>3. led.times = <<>> /\ led.out = 0
  BY DEF Init, NewLed
<1>4. KnownPart
  BY <1>2, <1>3 DEF KnownPart
<1>5. rx.sync = 0 /\ rx.bitLeft = None
  BY DEF Init, NewReceiver
<1>6. BitTimed(rx, gap, link.tmo)
  BY <1>5, BitTimedOutside
<1> QED
  BY <1>2, <1>4, <1>6 DEF FreshInv, FollowsPart, FreshHeard

\* Every step keeps what is known of a fresh transmission.
LEMMA FreshStep ==
    ASSUME LinkInv, FreshInv, [Next]_vars
    PROVE  FreshInv'
<1>1. ASSUME NEW seen \in BOOLEAN, LedAlarm(seen) PROVE FreshInv'
  BY <1>1, FreshAlarm
<1>2. CASE MsgAlarm
  BY <1>2, FreshMsgAlarm
<1>3. CASE BitAlarm
  BY <1>3, FreshBitAlarm
<1>4. ASSUME NEW dt \in Delays,
             AppRepeat(dt) \/ AppStop(dt) \/ \E m \in Messages : AppTransmit(m, dt)
      PROVE  FreshInv'
  BY <1>4, FreshControl
<1>5. ASSUME NEW dt \in Delays, NEW falling \in BOOLEAN, Glitch(dt, falling) PROVE FreshInv'
  BY <1>5, FreshGlitch
<1>6. CASE AppStartTimeout \/ WaitBegins \/ WaitWakes \/ WaitTimesOut \/ UNCHANGED vars
  BY <1>6, FreshRest
<1> QED
  BY <1>1, <1>2, <1>3, <1>4, <1>5, <1>6 DEF Next

\* A transmission that begins after a quiet time and is not disturbed is heard, once
\* and as it was sent (or as a repeat), whatever came before it, and a receiver of
\* another protocol hears nothing: check_sync, the timers and decode, for every
\* address and function code the protocol carries, every timeout longer than what it
\* times, every delay and any amount of interference.
THEOREM LinkFreshHeard == Spec => []FreshHeard
<1>1. Init => FreshInv
  BY FreshInitial
<1>2. LinkInv /\ FreshInv /\ [Next]_vars => FreshInv'
  BY FreshStep
<1>3. FreshInv => FreshHeard
  BY DEF FreshInv
<1> QED
  BY <1>1, <1>2, <1>3, LinkInvariance, PTL DEF Spec

=============================================================================
