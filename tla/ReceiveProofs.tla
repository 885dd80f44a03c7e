---------------------------- MODULE ReceiveProofs ----------------------------
(***************************************************************************)
(* Proofs about frames and about Receive: ParsePacket undoes BuildPacket   *)
(* for every payload, key and number of bits, and the server takes what    *)
(* the client sent, for all requests, forms and frames and however the     *)
(* bytes are cut into segments.                                            *)
(***************************************************************************)
EXTENDS Receive, BinaryProofs, SequenceTheorems, FiniteSetTheorems

-----------------------------------------------------------------------------
(* Bytes                                                                    *)

\* The values of a byte, and the numbers of four bytes.
Byte == 0..(Digit - 1)
Four == Digit * Digit * Digit * Digit

\* There are at least two values of a byte.
LEMMA DigitType == Digit \in Nat /\ Digit >= 2
<1>1. PICK n \in Nat : Bits = n + 1
  <2>1. Bits - 1 \in Nat /\ Bits = (Bits - 1) + 1
    BY BitsAssumption
  <2> QED
    BY <2>1
<1>2. Pow2[n + 1] = 2 * Pow2[n] /\ Pow2[n] \in Nat /\ Pow2[n] > 0
  BY Powers
<1> QED
  BY <1>1, <1>2 DEF Digit

\* Unmasking a masked byte gives it back.
LEMMA XorTwice ==
    ASSUME NEW a \in Byte, NEW b \in Byte
    PROVE  Xor(a, b) \in Byte /\ Xor(Xor(a, b), b) = a
<1>1. Bits \in Nat /\ Digit \in Nat /\ Digit = Pow2[Bits] /\ a \in Nat /\ b \in Nat
  BY BitsAssumption, DigitType DEF Digit, Byte
<1> DEFINE D(x, y) == {k \in 0..(Bits - 1) : BitOf(x, k) # BitOf(y, k)}
<1>2. PICK c : c = Xor(a, b)
  OBVIOUS
<1>3. /\ c \in 0..(Digit - 1)
      /\ \A k \in 0..(Bits - 1) : k \in D(a, b) <=> BitOf(c, k) = 1
  <2>1. c = Number(D(a, b), Bits)
    BY <1>2 DEF Xor
  <2> HIDE DEF D
  <2> QED
    BY <1>1, <2>1, BitsOfNumber
<1>4. ASSUME NEW k \in 0..(Bits - 1) PROVE k \in D(c, b) <=> BitOf(a, k) = 1
  <2>1. BitOf(a, k) \in 0..1 /\ BitOf(b, k) \in 0..1 /\ BitOf(c, k) \in 0..1
    BY <1>1, <1>3, BitType
  <2>2. BitOf(a, k) # BitOf(b, k) <=> BitOf(c, k) = 1
    BY <1>3
  <2> QED
    BY <2>1, <2>2
<1>5. a < Pow2[Bits]
  BY <1>1 DEF Byte
<1>6. Number(D(c, b), Bits) = a
  <2> HIDE DEF D
  <2> QED
    BY <1>1, <1>4, <1>5, NumberOfBits
<1>7. Xor(c, b) = a
  BY <1>6 DEF Xor
<1> QED
  BY <1>2, <1>3, <1>7 DEF Byte

\* Dividing twice is dividing by the product.
LEMMA DivTwice ==
    ASSUME NEW n \in Nat, NEW x \in Nat, NEW y \in Nat, x > 0, y > 0
    PROVE  n \div (x * y) = (n \div x) \div y
<1>1. PICK q \in Nat, r \in 0..(x - 1) : n = q * x + r /\ n \div x = q
  BY Division
<1>2. PICK u \in Nat, s \in 0..(y - 1) : q = u * y + s /\ q \div y = u
  BY Division
<1>3. PICK e \in Nat : e = s * x + r
  OBVIOUS
<1>4. PICK d \in Nat : d = x * y
  OBVIOUS
<1>5. e \in 0..(d - 1)
  <2>1. s + 1 <= y /\ (s + 1) * x <= y * x
    OBVIOUS
  <2>2. (s + 1) * x = s * x + x /\ y * x = x * y
    OBVIOUS
  <2>3. r < x
    OBVIOUS
  <2>4. PICK f \in Nat : f = s * x
    OBVIOUS
  <2> QED
    BY <1>3, <1>4, <2>1, <2>2, <2>3, <2>4
<1>6. n = u * d + e
  <2>1. (u * y + s) * x + r = u * (x * y) + (s * x + r)
    OBVIOUS
  <2> QED
    BY <1>1, <1>2, <1>3, <1>4, <2>1
<1>7. n \div d = u
  BY <1>5, <1>6, Quotient
<1> QED
  BY <1>1, <1>2, <1>4, <1>7

\* The masks of whole bytes.
LEMMA ByteMasks ==
    /\ Pow2[Bits * 0] = 1 /\ Pow2[Bits * 1] = Digit /\ Pow2[Bits * 2] = Digit * Digit
    /\ Pow2[Bits * 3] = (Digit * Digit) * Digit /\ Pow2[Bits * 4] = Four
    /\ \A k \in 4..7 : Pow2[Bits * k] \in Nat /\ Pow2[Bits * k] >= Four
<1>1. Bits \in Nat /\ Digit = Pow2[Bits] /\ Digit \in Nat
  BY BitsAssumption, DigitType DEF Digit
<1>2. ASSUME NEW k \in Nat PROVE Pow2[Bits * (k + 1)] = Pow2[Bits * k] * Digit
  <2>1. PICK m \in Nat : m = Bits * k
    BY <1>1
  <2>2. Bits * (k + 1) = m + Bits
    BY <1>1, <2>1
  <2> QED
    BY <1>1, <2>1, <2>2, PowerSum
<1>3. Bits * 0 = 0 /\ Bits * 1 = Bits
  BY <1>1
<1>4. Pow2[Bits * 0] = 1 /\ Pow2[Bits * 1] = Digit
  BY <1>1, <1>3, Powers
<1>5. Pow2[Bits * 2] = Digit * Digit
  BY <1>2, <1>4
<1>6. Pow2[Bits * 3] = (Digit * Digit) * Digit
  BY <1>2, <1>5
<1>7. Pow2[Bits * 4] = Four
  BY <1>2, <1>6 DEF Four
<1>8. ASSUME NEW k \in 4..7 PROVE Pow2[Bits * k] \in Nat /\ Pow2[Bits * k] >= Four
  <2>1. PICK m \in Nat, l \in Nat : m = Bits * 4 /\ l = Bits * (k - 4)
    BY <1>1
  <2>2. Bits * k = m + l
    BY <1>1, <2>1
  <2>3. PICK x \in Nat, y \in Nat : x = Pow2[m] /\ y = Pow2[l] /\ y > 0
    BY Powers
  <2>4. x * y >= x /\ x * y \in Nat
    BY <2>3
  <2> QED
    BY <1>7, <2>1, <2>2, <2>3, <2>4, PowerSum
<1> QED
  BY <1>4, <1>5, <1>6, <1>7, <1>8

\* The digits of a number of four bytes, and what they are together.
LEMMA FourDigits ==
    ASSUME NEW n \in Nat, n < Four
    PROVE  \E a \in Byte, b \in Byte, c \in Byte, d \in Byte :
              /\ Digits(n, 4) = <<a, b, c, d>>
              /\ ((a * Digit + b) * Digit + c) * Digit + d = n
              /\ n < Digit * Digit => Digits(n, 2) = <<c, d>> /\ c * Digit + d = n
              /\ Digits(n, 8) = <<0, 0, 0, 0, a, b, c, d>>
<1>1. PICK D \in Nat : D = Digit /\ D >= 2
  BY DigitType
<1>2. PICK q \in Nat, d \in 0..(D - 1) : n = q * D + d /\ n \div D = q /\ n % D = d
  <2>1. n \div D \in Nat /\ n % D \in 0..(D - 1) /\ n = (n \div D) * D + (n % D)
    BY <1>1, Division
  <2> QED
    BY <2>1
<1>3. PICK u \in Nat, c \in 0..(D - 1) : q = u * D + c /\ q \div D = u /\ q % D = c
  BY <1>1, Division
<1>4. PICK a \in Nat, b \in 0..(D - 1) : u = a * D + b /\ u \div D = a /\ u % D = b
  BY <1>1, Division
<1>5. a < D
  <2>1. n < D * D * D * D
    BY <1>1 DEF Four
  <2>2. n >= ((a * D) * D) * D
    BY <1>2, <1>3, <1>4
  <2>3. ASSUME a >= D PROVE FALSE
    <3>1. a * D >= D * D
      BY <2>3
    <3>2. PICK x \in Nat, y \in Nat : x = a * D /\ y = D * D
      OBVIOUS
    <3>3. x * D >= y * D
      BY <3>1, <3>2
    <3>4. PICK v \in Nat, w \in Nat : v = x * D /\ w = y * D
      OBVIOUS
    <3>5. v * D >= w * D
      BY <3>3, <3>4
    <3> QED
      BY <2>1, <2>2, <3>2, <3>4, <3>5
  <2> QED
    BY <2>3
<1>6. a % D = a /\ a \in 0..(D - 1) /\ 0 % D = 0
  BY <1>1, <1>5, Division
<1>7. /\ n \div Pow2[Bits * 0] = n /\ n \div Pow2[Bits * 1] = q
      /\ n \div Pow2[Bits * 2] = u /\ n \div Pow2[Bits * 3] = a
  <2>1. n \div 1 = n
    OBVIOUS
  <2>2. n \div (D * D) = u
    BY <1>1, <1>2, <1>3, DivTwice
  <2>3. D * D \in Nat /\ D * D > 0
    BY <1>1
  <2>4. n \div ((D * D) * D) = a
    BY <1>1, <1>4, <2>2, <2>3, DivTwice
  <2> QED
    BY <1>1, <1>2, <2>1, <2>2, <2>4, ByteMasks
<1>8. ASSUME NEW k \in 4..7 PROVE n \div Pow2[Bits * k] = 0
  <2>1. PICK x \in Nat : x = Pow2[Bits * k] /\ x >= Four
    BY ByteMasks
  <2>2. n = 0 * x + n /\ n \in 0..(x - 1)
    <3>1. Four \in Nat
      BY <1>1 DEF Four
    <3> QED
      BY <2>1, <3>1
  <2>3. n \div x = 0
    BY <2>2, Quotient
  <2> QED
    BY <2>1, <2>3
<1>9. Digits(n, 4) = <<a, b, c, d>>
  <2>1. /\ Bits * (4 - 1) = Bits * 3 /\ Bits * (4 - 2) = Bits * 2
        /\ Bits * (4 - 3) = Bits * 1 /\ Bits * (4 - 4) = Bits * 0
    OBVIOUS
  <2> QED
    BY <1>1, <1>2, <1>3, <1>4, <1>6, <1>7, <2>1 DEF Digits
<1>10. Digits(n, 8) = <<0, 0, 0, 0, a, b, c, d>>
  <2>1. ASSUME NEW i \in 1..4 PROVE (n \div Pow2[Bits * (8 - i)]) % D = 0
    <3>1. 8 - i \in 4..7
      OBVIOUS
    <3> QED
      BY <1>6, <1>8, <3>1
  <2>2. /\ (n \div Pow2[Bits * (8 - 5)]) % D = a /\ (n \div Pow2[Bits * (8 - 6)]) % D = b
        /\ (n \div Pow2[Bits * (8 - 7)]) % D = c /\ (n \div Pow2[Bits * (8 - 8)]) % D = d
    <3>1. 8 - 5 = 3 /\ 8 - 6 = 2 /\ 8 - 7 = 1 /\ 8 - 8 = 0
      OBVIOUS
    <3> QED
      BY <1>2, <1>3, <1>4, <1>6, <1>7, <3>1
  <2>3. Digits(n, 8) = [i \in 1..8 |-> (n \div Pow2[Bits * (8 - i)]) % D]
    BY <1>1 DEF Digits
  <2>4. \A i \in 1..8 : (n \div Pow2[Bits * (8 - i)]) % D = <<0, 0, 0, 0, a, b, c, d>>[i]
    <3>1. \A i \in 1..8 : i \in 1..4 \/ i \in {5, 6, 7, 8}
      OBVIOUS
    <3> QED
      BY <2>1, <2>2, <3>1
  <2> QED
    BY <2>3, <2>4
<1>11. n < Digit * Digit => Digits(n, 2) = <<c, d>> /\ c * Digit + d = n
  <2> SUFFICES ASSUME n < D * D PROVE Digits(n, 2) = <<c, d>> /\ c * D + d = n
    BY <1>1
  <2>1. q < D
    BY <1>1, <1>2, Division
  <2>2. q = c
    BY <1>1, <1>3, <2>1, Division
  <2>3. Bits * (2 - 1) = Bits * 1 /\ Bits * (2 - 2) = Bits * 0
    OBVIOUS
  <2> QED
    BY <1>1, <1>2, <1>3, <1>7, <2>2, <2>3 DEF Digits
<1>12. ((a * Digit + b) * Digit + c) * Digit + d = n
  BY <1>1, <1>2, <1>3, <1>4
<1> QED
  BY <1>1, <1>6, <1>9, <1>10, <1>11, <1>12 DEF Byte

-----------------------------------------------------------------------------
(* Frames                                                                   *)

\* What the text consists of.
AllOpcodes == {TEXT, BIN, CLOSE, PING, PONG}
CellKinds == HeadKinds \cup {"blank", "text", "eq", "amp", "crlf", "cap", "nul"}
Cells == (CellKinds \X Nat) \cup AllOpcodes \cup Nat

\* A payload that can be sent, and a masking key, or none.
IsPayload(s) == s \in Seq(Byte) /\ Len(s) < Four
IsKey(k) == k = <<>> \/ (k \in Seq(Byte) /\ Len(k) = KeyLen)

\* What precedes the masking key of a frame with a payload of length n.
HeadOf(op, n, key) ==
    <<op, LengthCode(n) + (IF key = <<>> THEN 0 ELSE MaskBit)>>
    \o (IF LengthCode(n) = Len16 THEN Digits(n, 2)
        ELSE IF LengthCode(n) = Len64 THEN Digits(n, 8) ELSE <<>>)

\* A frame: its head, the key, and the payload, masked with the key.
Layout(op, payload, key) ==
    (HeadOf(op, Len(payload), key) \o key)
    \o (IF key = <<>> THEN payload ELSE Masked(payload, key))

\* The length of the head.
HeadLen(n) == IF LengthCode(n) = Len16 THEN 4 ELSE IF LengthCode(n) = Len64 THEN 10 ELSE 2

\* Sequence u is s followed by r.
Chain(u, s, r) ==
    /\ Len(u) = Len(s) + Len(r)
    /\ \A i \in 1..Len(s) : u[i] = s[i]
    /\ \A i \in 1..Len(r) : u[Len(s) + i] = r[i]

\* One sequence behind another.
LEMMA Joining ==
    ASSUME NEW S, NEW s \in Seq(S), NEW r \in Seq(S), NEW u, u = s \o r
    PROVE  u \in Seq(S) /\ Chain(u, s, r)
  BY DEF Chain

\* The three encodings of the length differ.
LEMMA Codes ==
    ASSUME NEW n \in Nat
    PROVE  /\ LengthCode(n) \in 0..Len64 /\ Len16 \in Nat /\ Len64 \in Nat /\ MaskBit \in Nat
           /\ Len16 # Len64 /\ MaskBit = Len64 + 1
           /\ LengthCode(n) = Len16 <=> n >= Len16 /\ n < Digit * Digit
           /\ LengthCode(n) = Len64 <=> n >= Digit * Digit
           /\ n < Len16 => LengthCode(n) = n
<1>1. PICK D \in Nat : D = Digit /\ D >= 2
  BY DigitType
<1>2. PICK E \in Nat : E = D * D
  OBVIOUS
<1>3. E >= D
  BY <1>1, <1>2
<1>4. Len16 \in Nat /\ Len16 >= 1 /\ Len16 <= D /\ Len64 = Len16 + 1
  BY <1>1, CodesAssumption
<1> QED
  BY <1>1, <1>2, <1>3, <1>4 DEF LengthCode, MaskBit

\* The head of a frame: its opcode, length code and mask bit, and the length that
\* ParsePacket reads.
LEMMA HeadFacts ==
    ASSUME NEW op \in AllOpcodes, NEW n \in Nat, n < Four, NEW key, NEW h, h = HeadOf(op, n, key)
    PROVE  /\ h \in Seq(Cells) /\ Len(h) = HeadLen(n) /\ h[1] = op
           /\ h[2] = LengthCode(n) + (IF key = <<>> THEN 0 ELSE MaskBit)
           /\ LengthCode(n) = Len16 => h[3] * Digit + h[4] = n
           /\ LengthCode(n) = Len64 => ((h[7] * Digit + h[8]) * Digit + h[9]) * Digit + h[10] = n
<1>1. PICK a \in Byte, b \in Byte, c \in Byte, d \in Byte :
              /\ Digits(n, 4) = <<a, b, c, d>>
              /\ ((a * Digit + b) * Digit + c) * Digit + d = n
              /\ n < Digit * Digit => Digits(n, 2) = <<c, d>> /\ c * Digit + d = n
              /\ Digits(n, 8) = <<0, 0, 0, 0, a, b, c, d>>
  BY FourDigits
<1>2. /\ LengthCode(n) \in Nat /\ MaskBit \in Nat /\ Len16 # Len64
      /\ LengthCode(n) = Len16 => n < Digit * Digit
  BY Codes
<1>3. PICK x \in Nat : x = LengthCode(n) + (IF key = <<>> THEN 0 ELSE MaskBit)
  BY <1>2
<1>4. a \in Cells /\ b \in Cells /\ c \in Cells /\ d \in Cells /\ 0 \in Cells /\ op \in Cells /\ x \in Cells
  BY DigitType DEF Byte, Cells
<1>5. CASE LengthCode(n) = Len16
  <2>1. h = <<op, x>> \o <<c, d>>
    BY <1>1, <1>2, <1>3, <1>5 DEF HeadOf
  <2>2. PICK s, r : s = <<op, x>> /\ r = <<c, d>>
    OBVIOUS
  <2>3. /\ s \in Seq(Cells) /\ r \in Seq(Cells) /\ Len(s) = 2 /\ Len(r) = 2
        /\ s[1] = op /\ s[2] = x /\ r[1] = c /\ r[2] = d
    BY <1>4, <2>2
  <2>4. /\ h \in Seq(Cells) /\ Len(h) = 2 + 2 /\ \A i \in 1..2 : h[i] = s[i]
        /\ \A i \in 1..2 : h[2 + i] = r[i]
    BY <2>1, <2>2, <2>3, Joining DEF Chain
  <2>5. h[1] = op /\ h[2] = x /\ h[3] = c /\ h[4] = d /\ Len(h) = 4
    BY <2>3, <2>4
  <2> QED
    BY <1>1, <1>2, <1>3, <1>5, <2>4, <2>5 DEF HeadLen
<1>6. CASE LengthCode(n) = Len64
  <2>1. h = <<op, x>> \o <<0, 0, 0, 0, a, b, c, d>>
    BY <1>1, <1>2, <1>3, <1>6 DEF HeadOf
  <2>2. PICK s, r : s = <<op, x>> /\ r = <<0, 0, 0, 0, a, b, c, d>>
    OBVIOUS
  <2>3. /\ s \in Seq(Cells) /\ r \in Seq(Cells) /\ Len(s) = 2 /\ Len(r) = 8
        /\ s[1] = op /\ s[2] = x /\ r[5] = a /\ r[6] = b /\ r[7] = c /\ r[8] = d
    BY <1>4, <2>2
  <2>4. /\ h \in Seq(Cells) /\ Len(h) = 2 + 8 /\ \A i \in 1..2 : h[i] = s[i]
        /\ \A i \in 1..8 : h[2 + i] = r[i]
    BY <2>1, <2>2, <2>3, Joining DEF Chain
  <2>5. h[1] = op /\ h[2] = x /\ h[7] = a /\ h[8] = b /\ h[9] = c /\ h[10] = d /\ Len(h) = 10
    BY <2>3, <2>4
  <2> QED
    BY <1>1, <1>2, <1>3, <1>6, <2>4, <2>5 DEF HeadLen
<1>7. CASE LengthCode(n) \notin {Len16, Len64}
  <2>1. h = <<op, x>> \o << >>
    BY <1>3, <1>7 DEF HeadOf
  <2>2. h = <<op, x>>
    BY <2>1
  <2> QED
    BY <1>3, <1>4, <1>7, <2>2 DEF HeadLen
<1> QED
  BY <1>5, <1>6, <1>7

\* A masked payload has the length of the payload, and is the payload when it is
\* masked again.
LEMMA MaskedTwice ==
    ASSUME NEW s \in Seq(Byte), NEW key \in Seq(Byte), Len(key) = KeyLen
    PROVE  /\ Masked(s, key) \in Seq(Byte) /\ Len(Masked(s, key)) = Len(s)
           /\ \A i \in 1..Len(s) : Xor(Masked(s, key)[i], key[((i - 1) % KeyLen) + 1]) = s[i]
<1>1. ASSUME NEW i \in 1..Len(s)
      PROVE  /\ Xor(s[i], key[((i - 1) % KeyLen) + 1]) \in Byte
             /\ Xor(Xor(s[i], key[((i - 1) % KeyLen) + 1]), key[((i - 1) % KeyLen) + 1]) = s[i]
  <2>1. ((i - 1) % KeyLen) + 1 \in 1..Len(key)
    BY DEF KeyLen
  <2>2. key[((i - 1) % KeyLen) + 1] \in Byte /\ s[i] \in Byte
    BY <2>1
  <2> QED
    BY <2>2, XorTwice
<1>2. Masked(s, key) = [i \in 1..Len(s) |-> Xor(s[i], key[((i - 1) % KeyLen) + 1])]
  BY DEF Masked
<1> QED
  BY <1>1, <1>2

\* Sequence u is what s has behind its first a elements, up to the bth.
Slice(u, s, a, b) == Len(u) = b - a /\ \A i \in 1..(b - a) : u[i] = s[a + i]

\* A part of a sequence, which may be empty.
LEMMA Parting ==
    ASSUME NEW S, NEW s \in Seq(S), NEW a \in Nat, NEW b \in Nat, a <= b, b <= Len(s),
           NEW u, u = SubSeq(s, a + 1, b)
    PROVE  u \in Seq(S) /\ Slice(u, s, a, b)
<1>1. u = [i \in 1..(b - a) |-> s[a + i]]
  <2>1. u = [i \in 1..(b - (a + 1) + 1) |-> s[i + (a + 1) - 1]]
    BY DEF SubSeq
  <2>2. b - (a + 1) + 1 = b - a
    OBVIOUS
  <2>3. \A i \in 1..(b - a) : i + (a + 1) - 1 = a + i
    OBVIOUS
  <2> QED
    BY <2>1, <2>2, <2>3
<1>2. \A i \in 1..(b - a) : s[a + i] \in S
  OBVIOUS
<1>3. b - a \in Nat
  OBVIOUS
<1> QED
  BY <1>1, <1>2, <1>3 DEF Slice

\* A sequence of elements of a set is one of elements of a larger set.
LEMMA Wider ==
    ASSUME NEW S, NEW U, S \subseteq U, NEW s \in Seq(S)
    PROVE  s \in Seq(U)
  OBVIOUS

\* Sequences with the same elements are the same.
LEMMA SameSeq ==
    ASSUME NEW S, NEW U, NEW s \in Seq(S), NEW r \in Seq(U), Len(s) = Len(r),
           \A i \in 1..Len(s) : s[i] = r[i]
    PROVE  s = r
  OBVIOUS

\* Cell by cell, seg is the frame of a payload of length n.
Laid(seg, op, payload, key, n) ==
    /\ seg \in Seq(Cells) /\ n \in Nat /\ Len(key) \in Nat /\ HeadLen(n) \in {2, 4, 10}
    /\ Len(seg) = (HeadLen(n) + Len(key)) + n
    /\ seg[1] = op /\ seg[2] = LengthCode(n) + (IF key = <<>> THEN 0 ELSE MaskBit)
    /\ LengthCode(n) = Len16 => seg[3] * Digit + seg[4] = n
    /\ LengthCode(n) = Len64 => ((seg[7] * Digit + seg[8]) * Digit + seg[9]) * Digit + seg[10] = n
    /\ \A i \in 1..Len(key) : seg[HeadLen(n) + i] = key[i]
    /\ \A i \in 1..n : seg[(HeadLen(n) + Len(key)) + i]
                         = IF key = <<>> THEN payload[i] ELSE Masked(payload, key)[i]

\* A frame, cell by cell.
LEMMA LayoutFacts ==
    ASSUME NEW op \in AllOpcodes, NEW payload, IsPayload(payload), NEW key, IsKey(key),
           NEW seg, seg = Layout(op, payload, key), NEW n, n = Len(payload)
    PROVE  Laid(seg, op, payload, key, n)
<1>1. n \in Nat /\ n < Four /\ payload \in Seq(Byte)
  BY DEF IsPayload
<1>2. Byte \subseteq Cells
  BY DigitType DEF Byte, Cells
<1>3. key \in Seq(Byte) /\ key \in Seq(Cells) /\ payload \in Seq(Cells) /\ Len(key) \in Nat
  <2>1. <<>> \in Seq(Byte)
    OBVIOUS
  <2>2. key \in Seq(Byte)
    BY <2>1 DEF IsKey
  <2> QED
    BY <1>1, <1>2, <2>2, Wider
<1>4. PICK h : h = HeadOf(op, n, key)
  OBVIOUS
<1>5. /\ h \in Seq(Cells) /\ Len(h) = HeadLen(n) /\ h[1] = op
      /\ h[2] = LengthCode(n) + (IF key = <<>> THEN 0 ELSE MaskBit)
      /\ LengthCode(n) = Len16 => h[3] * Digit + h[4] = n
      /\ LengthCode(n) = Len64 => ((h[7] * Digit + h[8]) * Digit + h[9]) * Digit + h[10] = n
  BY <1>1, <1>4, HeadFacts
<1>6. PICK w : w = IF key = <<>> THEN payload ELSE Masked(payload, key)
  OBVIOUS
<1>7. w \in Seq(Cells) /\ Len(w) = n
  <2>1. CASE key = <<>>
    BY <1>3, <1>6, <2>1
  <2>2. CASE key # <<>>
    <3>1. Len(key) = KeyLen
      BY <2>2 DEF IsKey
    <3>2. w \in Seq(Byte) /\ Len(w) = n
      BY <1>1, <1>3, <1>6, <2>2, <3>1, MaskedTwice
    <3> QED
      BY <1>2, <3>2
  <2> QED
    BY <2>1, <2>2
<1>8. PICK u : u = h \o key
  OBVIOUS
<1>9. /\ u \in Seq(Cells) /\ Len(u) = HeadLen(n) + Len(key)
      /\ \A i \in 1..HeadLen(n) : u[i] = h[i]
      /\ \A i \in 1..Len(key) : u[HeadLen(n) + i] = key[i]
  <2>1. u \in Seq(Cells) /\ Chain(u, h, key)
    BY <1>3, <1>5, <1>8, Joining
  <2> QED
    BY <1>5, <2>1 DEF Chain
<1>10. seg = u \o w
  BY <1>4, <1>6, <1>8 DEF Layout
<1>11. /\ seg \in Seq(Cells) /\ Len(seg) = Len(u) + n
       /\ \A i \in 1..Len(u) : seg[i] = u[i]
       /\ \A i \in 1..n : seg[Len(u) + i] = w[i]
  <2>1. seg \in Seq(Cells) /\ Chain(seg, u, w)
    BY <1>7, <1>9, <1>10, Joining
  <2> QED
    BY <1>7, <2>1 DEF Chain
<1>12. HeadLen(n) \in {2, 4, 10} /\ (LengthCode(n) = Len16 => HeadLen(n) = 4)
  BY DEF HeadLen
<1>13. LengthCode(n) = Len64 => HeadLen(n) = 10
  BY <1>1, Codes DEF HeadLen
<1>14. \A i \in 1..HeadLen(n) : seg[i] = h[i]
  <2>1. \A i \in 1..HeadLen(n) : i \in 1..Len(u)
    BY <1>3, <1>9, <1>12 DEF HeadLen
  <2> QED
    BY <1>9, <1>11, <2>1
<1>15. \A i \in 1..Len(key) : seg[HeadLen(n) + i] = key[i]
  <2>1. \A i \in 1..Len(key) : HeadLen(n) + i \in 1..Len(u)
    BY <1>3, <1>9, <1>12 DEF HeadLen
  <2> QED
    BY <1>9, <1>11, <2>1
<1>16. HeadLen(n) \in {2, 4, 10} /\ 1 \in 1..HeadLen(n) /\ 2 \in 1..HeadLen(n)
  BY DEF HeadLen
<1>17. LengthCode(n) = Len16 => seg[3] * Digit + seg[4] = n
  <2> SUFFICES ASSUME LengthCode(n) = Len16 PROVE seg[3] * Digit + seg[4] = n
    OBVIOUS
  <2>1. seg[3] = h[3] /\ seg[4] = h[4]
    BY <1>12, <1>14
  <2> QED
    BY <1>5, <2>1
<1>18. LengthCode(n) = Len64 => ((seg[7] * Digit + seg[8]) * Digit + seg[9]) * Digit + seg[10] = n
  <2> SUFFICES ASSUME LengthCode(n) = Len64
               PROVE  ((seg[7] * Digit + seg[8]) * Digit + seg[9]) * Digit + seg[10] = n
    OBVIOUS
  <2>1. seg[7] = h[7] /\ seg[8] = h[8] /\ seg[9] = h[9] /\ seg[10] = h[10]
    BY <1>13, <1>14
  <2> QED
    BY <1>5, <2>1
<1>19. seg[1] = op /\ seg[2] = LengthCode(n) + (IF key = <<>> THEN 0 ELSE MaskBit)
  BY <1>5, <1>14, <1>16
<1>20. \A i \in 1..n : seg[(HeadLen(n) + Len(key)) + i]
                         = IF key = <<>> THEN payload[i] ELSE Masked(payload, key)[i]
  BY <1>6, <1>9, <1>11
<1>21. Len(seg) = (HeadLen(n) + Len(key)) + n
  BY <1>9, <1>11
<1> QED
  BY <1>1, <1>3, <1>11, <1>15, <1>16, <1>17, <1>18, <1>19, <1>20, <1>21 DEF Laid

\* The digits that follow the length code.
DigitsOf(n) == IF LengthCode(n) = Len16 THEN Digits(n, 2)
               ELSE IF LengthCode(n) = Len64 THEN Digits(n, 8) ELSE <<>>

\* They are cells, and those that BuildPacket writes.
LEMMA DigitsTyped ==
    ASSUME NEW n \in Nat, n < Four
    PROVE  /\ DigitsOf(n) \in Seq(Cells)
           /\ LengthCode(n) = Len64 => DigitsOf(n) = <<0, 0, 0, 0>> \o Digits(n, 4)
           /\ LengthCode(n) = Len16 => DigitsOf(n) = Digits(n, 2)
           /\ LengthCode(n) \notin {Len16, Len64} => DigitsOf(n) = <<>>
           /\ Digits(n, 4) \in Seq(Cells)
<1>1. PICK a \in Byte, b \in Byte, c \in Byte, d \in Byte :
              /\ Digits(n, 4) = <<a, b, c, d>>
              /\ ((a * Digit + b) * Digit + c) * Digit + d = n
              /\ n < Digit * Digit => Digits(n, 2) = <<c, d>> /\ c * Digit + d = n
              /\ Digits(n, 8) = <<0, 0, 0, 0, a, b, c, d>>
  BY FourDigits
<1>2. Len16 # Len64 /\ (LengthCode(n) = Len16 => n < Digit * Digit)
  BY Codes
<1>3. a \in Cells /\ b \in Cells /\ c \in Cells /\ d \in Cells /\ 0 \in Cells
  BY DigitType DEF Byte, Cells
<1>4. PICK z, f, v : z = <<0, 0, 0, 0>> /\ f = <<a, b, c, d>> /\ v = z \o f
  OBVIOUS
<1>5. /\ z \in Seq(Cells) /\ f \in Seq(Cells) /\ Len(z) = 4 /\ Len(f) = 4
      /\ z[1] = 0 /\ z[2] = 0 /\ z[3] = 0 /\ z[4] = 0
      /\ f[1] = a /\ f[2] = b /\ f[3] = c /\ f[4] = d
  BY <1>3, <1>4
<1>6. v \in Seq(Cells) /\ Chain(v, z, f)
  BY <1>4, <1>5, Joining
<1>7. Len(v) = 8 /\ (\A i \in 1..4 : v[i] = z[i]) /\ (\A i \in 1..4 : v[4 + i] = f[i])
  BY <1>5, <1>6 DEF Chain
<1>8. /\ v[1] = 0 /\ v[2] = 0 /\ v[3] = 0 /\ v[4] = 0
      /\ v[5] = a /\ v[6] = b /\ v[7] = c /\ v[8] = d
  BY <1>5, <1>7
<1>9. v = <<0, 0, 0, 0, a, b, c, d>>
  BY <1>6, <1>7, <1>8
<1>10. <<c, d>> \in Seq(Cells) /\ <<>> \in Seq(Cells)
  BY <1>3
<1>11. LengthCode(n) = Len16 => DigitsOf(n) = Digits(n, 2) /\ Digits(n, 2) = <<c, d>>
  BY <1>1, <1>2 DEF DigitsOf
<1>12. LengthCode(n) = Len64 => DigitsOf(n) = Digits(n, 8)
  BY <1>2 DEF DigitsOf
<1>13. LengthCode(n) \notin {Len16, Len64} => DigitsOf(n) = <<>>
  BY DEF DigitsOf
<1>14. Digits(n, 8) = v /\ v = <<0, 0, 0, 0>> \o Digits(n, 4) /\ Digits(n, 4) = f
  BY <1>1, <1>4, <1>9
<1>15. DigitsOf(n) \in Seq(Cells)
  BY <1>6, <1>10, <1>11, <1>12, <1>13, <1>14
<1> QED
  BY <1>5, <1>11, <1>12, <1>13, <1>14, <1>15

\* BuildPacket builds a frame, without a key when the payload is empty.
LEMMA BuildIsLayout ==
    ASSUME NEW op \in AllOpcodes, NEW payload, IsPayload(payload), NEW key, IsKey(key)
    PROVE  BuildPacket(op, payload, key)
             = Layout(op, payload, IF payload = <<>> THEN <<>> ELSE key)
<1>1. PICK k : k = IF payload = <<>> THEN <<>> ELSE key
  OBVIOUS
<1>2. PICK n \in Nat : n = Len(payload) /\ n < Four /\ (n > 0 <=> payload # <<>>)
  BY DEF IsPayload
<1>3. PICK H : H = <<op, LengthCode(n) + (IF k = <<>> THEN 0 ELSE MaskBit)>>
  OBVIOUS
<1>4. PICK X, Y : /\ X = IF LengthCode(n) = Len16 THEN Digits(n, 2) ELSE <<>>
                  /\ Y = IF LengthCode(n) = Len64 THEN <<0, 0, 0, 0>> \o Digits(n, 4) ELSE <<>>
  OBVIOUS
<1>5. PICK Z : Z = IF k # <<>> THEN k \o Masked(payload, k) ELSE payload
  OBVIOUS
<1>6. BuildPacket(op, payload, key) = ((H \o X) \o Y) \o Z
  <2>1. (key # <<>> /\ n > 0) <=> k # <<>>
    BY <1>1, <1>2
  <2>2. (key # <<>> /\ n > 0) => k = key
    BY <1>1, <1>2
  <2>3. H = <<op, LengthCode(n) + (IF key # <<>> /\ n > 0 THEN MaskBit ELSE 0)>>
    BY <1>3, <2>1
  <2>4. Z = IF key # <<>> /\ n > 0 THEN key \o Masked(payload, key) ELSE payload
    BY <1>5, <2>1, <2>2
  <2> QED
    BY <1>2, <1>4, <2>3, <2>4 DEF BuildPacket
<1>7. H \in Seq(Cells) /\ X \in Seq(Cells) /\ Y \in Seq(Cells)
  <2>0. LengthCode(n) \in Nat /\ MaskBit \in Nat
    BY Codes
  <2>1. LengthCode(n) + (IF k = <<>> THEN 0 ELSE MaskBit) \in Nat /\ Len16 # Len64
    <3>1. PICK x \in Nat, y \in Nat : x = LengthCode(n) /\ y = IF k = <<>> THEN 0 ELSE MaskBit
      BY <2>0
    <3>2. x + y \in Nat
      OBVIOUS
    <3> QED
      BY <3>1, <3>2, Codes
  <2>2. PICK x \in Nat : x = LengthCode(n) + (IF k = <<>> THEN 0 ELSE MaskBit)
    BY <2>1
  <2>3. <<op, x>> \in Seq(Cells) /\ <<>> \in Seq(Cells)
    BY DEF Cells
  <2>4. DigitsOf(n) \in Seq(Cells)
    BY <1>2, DigitsTyped
  <2> QED
    BY <1>2, <1>3, <1>4, <2>1, <2>2, <2>3, <2>4, DigitsTyped
<1>8. (H \o X) \o Y = HeadOf(op, n, k)
  <2>1. HeadOf(op, n, k) = H \o DigitsOf(n)
    BY <1>3 DEF HeadOf, DigitsOf
  <2>2. Len16 # Len64
    BY Codes
  <2>3. CASE LengthCode(n) = Len16
    <3>1. X = DigitsOf(n) /\ Y = <<>>
      BY <1>2, <1>4, <2>2, <2>3, DigitsTyped
    <3> QED
      BY <1>7, <2>1, <3>1
  <2>4. CASE LengthCode(n) = Len64
    <3>1. Y = DigitsOf(n) /\ X = <<>>
      BY <1>2, <1>4, <2>2, <2>4, DigitsTyped
    <3> QED
      BY <1>7, <2>1, <3>1
  <2>5. CASE LengthCode(n) \notin {Len16, Len64}
    <3>1. DigitsOf(n) = <<>> /\ X = <<>> /\ Y = <<>>
      BY <1>2, <1>4, <2>5, DigitsTyped
    <3> QED
      BY <1>7, <2>1, <3>1
  <2> QED
    BY <2>3, <2>4, <2>5
<1>9. PICK G : G = HeadOf(op, n, k) /\ G \in Seq(Cells)
  BY <1>2, HeadFacts
<1>10. G \o Z = (G \o k) \o (IF k = <<>> THEN payload ELSE Masked(payload, k))
  <2>1. CASE k = <<>>
    BY <1>5, <1>9, <2>1
  <2>2. CASE k # <<>>
    <3>1. k \in Seq(Byte) /\ Len(k) = KeyLen /\ payload \in Seq(Byte) /\ Byte \subseteq Cells
      BY <1>1, <2>2, DigitType DEF IsKey, IsPayload, Byte, Cells
    <3>2. PICK M : M = Masked(payload, k) /\ M \in Seq(Byte)
      BY <3>1, MaskedTwice
    <3>3. k \in Seq(Cells) /\ M \in Seq(Cells)
      BY <3>1, <3>2, Wider
    <3>4. (G \o k) \o M = G \o (k \o M)
      <4>1. G \in Seq(Cells) /\ k \in Seq(Cells) /\ M \in Seq(Cells)
        BY <1>9, <3>3
      <4> QED
        BY ONLY <4>1, ConcatAssociative
    <3> QED
      BY <1>5, <2>2, <3>2, <3>4
  <2> QED
    BY <2>1, <2>2
<1> QED
  BY <1>1, <1>2, <1>6, <1>8, <1>9, <1>10 DEF Layout

\* The protocol's frame has the layout, too.
LEMMA FrameIsLayout ==
    ASSUME NEW op \in AllOpcodes, NEW payload, IsPayload(payload), NEW key, IsKey(key)
    PROVE  Frame(op, payload, key) = Layout(op, payload, key)
<1>1. PICK n \in Nat : n = Len(payload) /\ n < Four
  BY DEF IsPayload
<1>2. PICK ext : ext = IF n <= Len16 - 1 THEN <<n>>
                       ELSE IF n \div Digit < Digit THEN <<Len16>> \o Digits(n, 2)
                       ELSE <<Len64>> \o Digits(n, 8)
  OBVIOUS
<1>3. PICK c \in Nat : c = LengthCode(n)
  BY Codes
<1>4. ext = <<c>> \o DigitsOf(n)
  <2>1. Len16 \in Nat /\ Len16 # Len64
    BY Codes
  <2>2. n \div Digit < Digit <=> n < Digit * Digit
    <3>1. PICK D \in Nat : D = Digit /\ D >= 2
      BY DigitType
    <3>2. PICK q \in Nat, r \in 0..(D - 1) : n = q * D + r /\ n \div D = q
      <4>1. n \div D \in Nat /\ n % D \in 0..(D - 1) /\ n = (n \div D) * D + (n % D)
        BY <3>1, Division
      <4> QED
        BY <4>1
    <3>3. q >= D => n >= D * D
      <4> SUFFICES ASSUME q >= D PROVE n >= D * D
        OBVIOUS
      <4>1. q * D >= D * D
        OBVIOUS
      <4> QED
        BY <3>2, <4>1
    <3>4. n < D * D => q < D
      BY <3>3
    <3>5. q < D => n < D * D
      <4> SUFFICES ASSUME q < D PROVE n < D * D
        OBVIOUS
      <4>1. (q + 1) * D <= D * D /\ (q + 1) * D = q * D + D
        OBVIOUS
      <4> QED
        BY <3>2, <4>1
    <3> QED
      BY <3>1, <3>2, <3>4, <3>5
  <2>3. CASE n < Len16
    <3>1. c = n /\ c \notin {Len16, Len64}
      BY <1>3, <2>3, Codes, CodesAssumption
    <3>2. ext = <<n>>
      <4>1. n <= Len16 - 1
        BY <2>1, <2>3
      <4> QED
        BY <1>2, <4>1
    <3>4. DigitsOf(n) = <<>>
      BY <1>3, <3>1 DEF DigitsOf
    <3>3. <<n>> \in Seq(Nat)
      OBVIOUS
    <3> QED
      BY <3>1, <3>2, <3>3, <3>4
  <2>4. CASE n >= Len16 /\ n < Digit * Digit
    <3>1. c = Len16
      BY <1>3, <2>4, Codes
    <3> QED
      BY <1>2, <1>3, <2>1, <2>2, <2>4, <3>1 DEF DigitsOf
  <2>5. CASE n >= Len16 /\ ~(n < Digit * Digit)
    <3>1. c = Len64
      BY <1>3, <2>1, <2>5 DEF LengthCode
    <3> QED
      BY <1>2, <1>3, <2>1, <2>2, <2>5, <3>1 DEF DigitsOf
  <2> QED
    BY <2>1, <2>3, <2>4, <2>5
<1>5. PICK E : E = DigitsOf(n) /\ E \in Seq(Cells)
  BY <1>1, DigitsTyped
<1>6. <<c>> \in Seq(Cells) /\ <<op>> \in Seq(Cells) /\ payload \in Seq(Cells)
  <2>1. Byte \subseteq Cells /\ payload \in Seq(Byte)
    BY DigitType DEF IsPayload, Byte, Cells
  <2>2. c \in Cells /\ op \in Cells
    BY DEF Cells
  <2>3. payload \in Seq(Cells)
    BY <2>1, Wider
  <2>4. <<c>> \in Seq(Cells) /\ <<op>> \in Seq(Cells)
    BY <2>2
  <2> QED
    BY <2>3, <2>4
<1>7. CASE key = <<>>
  <2>1. Frame(op, payload, key) = (<<op>> \o (<<c>> \o E)) \o payload
    BY <1>1, <1>2, <1>4, <1>5, <1>7 DEF Frame
  <2>2. <<op>> \o (<<c>> \o E) = (<<op>> \o <<c>>) \o E
    BY <1>5, <1>6, ConcatAssociative
  <2>3. <<op>> \o <<c>> = <<op, c + 0>>
    <3>1. PICK s, r, u : s = <<op>> /\ r = <<c>> /\ u = s \o r
      OBVIOUS
    <3>2. /\ s \in Seq(Cells) /\ r \in Seq(Cells)
          /\ Len(s) = 1 /\ Len(r) = 1 /\ s[1] = op /\ r[1] = c
      BY <1>6, <3>1
    <3>3. u \in Seq(Cells) /\ Chain(u, s, r)
      BY <3>1, <3>2, Joining
    <3>4. Len(u) = 2 /\ u[1] = op /\ u[1 + 1] = c
      BY <3>2, <3>3 DEF Chain
    <3>5. u = <<op, c>>
      BY <3>3, <3>4
    <3>6. c + 0 = c
      OBVIOUS
    <3> QED
      BY <3>1, <3>5, <3>6
  <2>4. HeadOf(op, n, key) = <<op, c + 0>> \o E
    BY <1>3, <1>5, <1>7 DEF HeadOf, DigitsOf
  <2>5. PICK G : G = HeadOf(op, n, key) /\ G \in Seq(Cells)
    BY <1>1, HeadFacts
  <2>6. G \o <<>> = G
    BY <2>5
  <2> QED
    BY <1>1, <1>7, <2>1, <2>2, <2>3, <2>4, <2>5, <2>6 DEF Layout
<1>8. CASE key # <<>>
  <2>1. ext[1] = c /\ Tail(ext) = E
    BY <1>4, <1>5, <1>6
  <2>2. HeadOf(op, n, key) = <<op, c + MaskBit>> \o E
    BY <1>3, <1>5, <1>8 DEF HeadOf, DigitsOf
  <2> QED
    BY <1>1, <1>2, <1>8, <2>1, <2>2 DEF Frame, Layout
<1> QED
  BY <1>7, <1>8

\* The text r begins with seg, or is the beginning of it.
Agree(r, seg) == r \in Seq(Cells) /\ \A i \in 1..Len(r) : i <= Len(seg) => r[i] = seg[i]

\* ParsePacket reads of a frame the header it was built with, when that has arrived.
LEMMA HeaderRead ==
    ASSUME NEW op \in AllOpcodes, NEW payload, IsPayload(payload), NEW key, IsKey(key),
           NEW seg, seg = Layout(op, payload, key), NEW n, n = Len(payload),
           NEW r, Agree(r, seg), NEW start, start = HeadLen(n) + Len(key)
    PROVE  /\ Len(r) < start => Header(r) = [whole |-> FALSE]
           /\ Len(r) >= start =>
                Header(r) = [whole |-> TRUE, opcode |-> op, start |-> start, key |-> key, length |-> n]
<1>1. /\ seg \in Seq(Cells) /\ n \in Nat /\ Len(key) \in Nat /\ HeadLen(n) \in {2, 4, 10}
      /\ Len(seg) = start + n /\ start \in Nat
      /\ seg[1] = op /\ seg[2] = LengthCode(n) + (IF key = <<>> THEN 0 ELSE MaskBit)
      /\ LengthCode(n) = Len16 => seg[3] * Digit + seg[4] = n
      /\ LengthCode(n) = Len64 => ((seg[7] * Digit + seg[8]) * Digit + seg[9]) * Digit + seg[10] = n
      /\ \A i \in 1..Len(key) : seg[HeadLen(n) + i] = key[i]
      /\ start >= 2 /\ start - HeadLen(n) = Len(key) /\ HeadLen(n) \in Nat /\ HeadLen(n) <= start
  <2>1. Laid(seg, op, payload, key, n)
    BY LayoutFacts
  <2>2. PICK h \in Nat, k \in Nat : h = HeadLen(n) /\ k = Len(key) /\ h >= 2
    BY <2>1 DEF Laid
  <2>3. h + k \in Nat /\ h + k >= 2 /\ (h + k) - h = k /\ h <= h + k
    BY <2>2
  <2>4. start = h + k
    BY <2>2
  <2> QED
    BY <2>1, <2>2, <2>3, <2>4 DEF Laid
<1>2. r \in Seq(Cells) /\ Len(r) \in Nat /\ \A i \in 1..Len(r) : i <= Len(seg) => r[i] = seg[i]
  BY DEF Agree
<1>3. CASE Len(r) < 2
  <2>1. Header(r) = [whole |-> FALSE]
    BY <1>3 DEF Header
  <2>2. Len(r) < start
    BY <1>1, <1>2, <1>3
  <2>3. ~(Len(r) >= start)
    BY <1>1, <1>2, <2>2
  <2> QED
    BY <2>1, <2>3
<1>4. CASE Len(r) >= 2
  <2>1. r[1] = op /\ r[2] = LengthCode(n) + (IF key = <<>> THEN 0 ELSE MaskBit)
    <3>1. 1 \in 1..Len(r) /\ 2 \in 1..Len(r) /\ 1 <= Len(seg) /\ 2 <= Len(seg)
      BY <1>1, <1>2, <1>4
    <3> QED
      BY <1>1, <1>2, <3>1
  <2>2. r[2] % MaskBit = LengthCode(n) /\ (r[2] >= MaskBit <=> key # <<>>)
    <3>0. /\ LengthCode(n) \in 0..Len64 /\ Len64 \in Nat /\ MaskBit = Len64 + 1
      BY <1>1, Codes
    <3>1. PICK c \in Nat, k \in Nat : c = LengthCode(n) /\ k = MaskBit /\ c < k /\ k > 0
      BY <3>0
    <3>2. CASE key = <<>>
      <4>1. r[2] = c /\ c % k = c /\ ~(c >= k)
        BY <2>1, <3>1, <3>2
      <4> QED
        BY <3>1, <3>2, <4>1
    <3>3. CASE key # <<>>
      <4>1. r[2] = c + k /\ c + k >= k
        BY <2>1, <3>1, <3>3
      <4>2. c + k = 1 * k + c /\ c \in 0..(k - 1) /\ c + k \in Nat
        BY <3>1
      <4>3. PICK x \in Nat : x = c + k
        BY <4>2
      <4>4. x % k = c
        BY <4>2, <4>3, Quotient
      <4> QED
        BY <3>1, <3>3, <4>1, <4>3, <4>4
    <3> QED
      BY <3>2, <3>3
  <2>3. PICK keyAt : keyAt = HeadLen(n)
    OBVIOUS
  <2>4. /\ keyAt = 2 + (IF r[2] % MaskBit = Len16 THEN 2 ELSE IF r[2] % MaskBit = Len64 THEN 8 ELSE 0)
        /\ start = keyAt + (IF r[2] >= MaskBit THEN KeyLen ELSE 0)
    <3>1. Len(key) = IF key # <<>> THEN KeyLen ELSE 0
      BY DEF IsKey
    <3> QED
      BY <2>2, <2>3, <3>1 DEF HeadLen
  <2>5. PICK len : len = IF r[2] % MaskBit = Len16 THEN r[3] * Digit + r[4]
                         ELSE IF r[2] % MaskBit = Len64 THEN Joined(SubSeq(r, 7, 10))
                         ELSE r[2] % MaskBit
    OBVIOUS
  <2>6. Header(r) = IF Len(r) < 2 \/ Len(r) < start THEN [whole |-> FALSE]
                    ELSE [whole |-> TRUE, opcode |-> r[1], start |-> start,
                          key |-> SubSeq(r, keyAt + 1, start), length |-> len]
    BY <2>4, <2>5 DEF Header
  <2>7. ASSUME Len(r) >= start PROVE SubSeq(r, keyAt + 1, start) = key /\ len = n
    <3>0. \A i \in 1..start : i \in 1..Len(r) /\ i <= Len(seg)
      <4>1. /\ start \in Nat /\ Len(r) \in Nat /\ n \in Nat /\ Len(r) >= start
            /\ Len(seg) = start + n
        BY <1>1, <1>2, <2>7
      <4> QED
        BY ONLY <4>1
    <3>1. \A i \in 1..start : r[i] = seg[i]
      BY <1>2, <3>0
    <3>2. PICK a, u : a \in Nat /\ a = keyAt /\ a <= start /\ u = SubSeq(r, a + 1, start)
      BY <1>1, <2>3
    <3>3. u \in Seq(Cells) /\ Slice(u, r, a, start)
      <4>1. start \in Nat /\ start <= Len(r) /\ r \in Seq(Cells)
        BY <1>1, <1>2, <2>7
      <4> QED
        BY <3>2, <4>1, Parting
    <3>4. start - a = Len(key)
      BY <1>1, <2>3, <3>2
    <3>5. \A i \in 1..Len(key) : u[i] = key[i]
      <4>1. ASSUME NEW i \in 1..Len(key) PROVE u[i] = key[i]
        <5>0. i \in 1..(start - a)
          BY <3>4
        <5>1. u[i] = r[a + i]
          BY <3>3, <5>0 DEF Slice
        <5>2. a + i \in 1..start
          BY <1>1, <3>2, <5>0
        <5> QED
          BY <1>1, <2>3, <3>1, <3>2, <5>1, <5>2
      <4> QED
        BY <4>1
    <3>6. u = key
      <4>1. key \in Seq(Byte)
        <5>1. <<>> \in Seq(Byte)
          OBVIOUS
        <5> QED
          BY <5>1 DEF IsKey
      <4> QED
        BY <3>3, <3>4, <3>5, <4>1, SameSeq DEF Slice
    <3>7. len = n
      <4>0. Len16 # Len64
        BY <1>1, Codes
      <4>1. CASE LengthCode(n) = Len16
        <5>1. HeadLen(n) = 4
          BY <4>1 DEF HeadLen
        <5>2. r[3] = seg[3] /\ r[4] = seg[4]
          BY <1>1, <3>1, <5>1
        <5> QED
          BY <1>1, <2>2, <2>5, <4>1, <5>2
      <4>2. CASE LengthCode(n) = Len64
        <5>1. HeadLen(n) = 10
          BY <4>0, <4>2 DEF HeadLen
        <5>2. r[7] = seg[7] /\ r[8] = seg[8] /\ r[9] = seg[9] /\ r[10] = seg[10] /\ Len(r) >= 10
          BY <1>1, <1>2, <2>7, <3>1, <5>1
        <5>3. PICK v : v = SubSeq(r, 6 + 1, 10)
          OBVIOUS
        <5>4. Slice(v, r, 6, 10)
          <6>1. r \in Seq(Cells) /\ 10 <= Len(r) /\ 6 \in Nat /\ 10 \in Nat /\ 6 <= 10
            BY <1>2, <5>2
          <6> QED
            BY ONLY <5>3, <6>1, Parting
        <5>5. v[1] = r[7] /\ v[2] = r[8] /\ v[3] = r[9] /\ v[4] = r[10]
          BY <5>4 DEF Slice
        <5>6. Joined(v) = n
          BY <1>1, <4>2, <5>2, <5>5 DEF Joined
        <5>7. len = Joined(SubSeq(r, 7, 10)) /\ 6 + 1 = 7
          BY <2>2, <2>5, <4>0, <4>2
        <5> QED
          BY <5>3, <5>6, <5>7
      <4>3. CASE LengthCode(n) \notin {Len16, Len64}
        <5>1. LengthCode(n) = n
          BY <4>3 DEF LengthCode
        <5> QED
          BY <2>2, <2>5, <4>3, <5>1
      <4> QED
        BY <4>1, <4>2, <4>3
    <3> QED
      BY <3>2, <3>6, <3>7
  <2>8. ASSUME Len(r) < start PROVE Header(r) = [whole |-> FALSE]
    BY <2>6, <2>8
  <2>9. ASSUME Len(r) >= start
        PROVE  Header(r) = [whole |-> TRUE, opcode |-> op, start |-> start, key |-> key, length |-> n]
    <3>1. ~(Len(r) < 2 \/ Len(r) < start)
      BY <1>1, <1>2, <1>4, <2>9
    <3> QED
      BY <2>1, <2>6, <2>7, <2>9, <3>1
  <2> QED
    BY <2>8, <2>9
<1> QED
  BY <1>2, <1>3, <1>4

\* A text that holds the packet of a frame, of which the payload is unmasked now.
Unpacked(p, r, op, payload, key, start, n) ==
    /\ p.ok
    /\ p.header = [whole |-> TRUE, opcode |-> op, start |-> start, key |-> key, length |-> n]
    /\ p.packet \in Seq(Cells) /\ Len(p.packet) = Len(r)
    /\ SubSeq(p.packet, start + 1, start + n) = payload
    /\ \A i \in 1..Len(r) : i > start + n => p.packet[i] = r[i]

\* ParsePacket on a text that begins with a frame, or is the beginning of one: it
\* finds the payload, or leaves the text alone.
LEMMA ParseFrame ==
    ASSUME NEW op \in AllOpcodes, NEW payload, IsPayload(payload), NEW key, IsKey(key),
           NEW seg, seg = Layout(op, payload, key), NEW n, n = Len(payload),
           NEW r, Agree(r, seg), NEW start, start = HeadLen(n) + Len(key)
    PROVE  /\ start \in Nat /\ Len(seg) = start + n
           /\ Len(r) < Len(seg) => ParsePacket(r) = [ok |-> FALSE, packet |-> r]
           /\ Len(r) >= Len(seg) => Unpacked(ParsePacket(r), r, op, payload, key, start, n)
<1>1. /\ seg \in Seq(Cells) /\ n \in Nat /\ start \in Nat /\ Len(seg) = start + n
      /\ \A i \in 1..n : seg[start + i] = IF key = <<>> THEN payload[i] ELSE Masked(payload, key)[i]
  <2>1. Laid(seg, op, payload, key, n)
    BY LayoutFacts
  <2>2. PICK h \in Nat, k \in Nat : h = HeadLen(n) /\ k = Len(key)
    BY <2>1 DEF Laid
  <2>3. start = h + k /\ h + k \in Nat
    BY <2>2
  <2> QED
    BY <2>1, <2>2, <2>3 DEF Laid
<1>2. r \in Seq(Cells) /\ Len(r) \in Nat /\ \A i \in 1..Len(r) : i <= Len(seg) => r[i] = seg[i]
  BY DEF Agree
<1>3. PICK h : h = Header(r)
  OBVIOUS
<1>4. /\ Len(r) < start => h = [whole |-> FALSE]
      /\ Len(r) >= start =>
           h = [whole |-> TRUE, opcode |-> op, start |-> start, key |-> key, length |-> n]
  BY <1>3, HeaderRead
<1>5. ASSUME Len(r) < Len(seg) PROVE ParsePacket(r) = [ok |-> FALSE, packet |-> r]
  <2>1. CASE Len(r) < start
    BY <1>3, <1>4, <2>1 DEF ParsePacket
  <2>2. CASE Len(r) >= start
    <3>1. h.whole = TRUE /\ h.start = start /\ h.length = n
      BY <1>4, <2>2
    <3>2. Len(r) < h.start + h.length
      BY <1>1, <1>5, <3>1
    <3> QED
      BY <1>3, <3>1, <3>2 DEF ParsePacket
  <2> QED
    BY <1>1, <1>2, <2>1, <2>2
<1>6. ASSUME Len(r) >= Len(seg) PROVE Unpacked(ParsePacket(r), r, op, payload, key, start, n)
  <2>0. start <= Len(r) /\ start + n <= Len(r) /\ start + n \in Nat
    BY <1>1, <1>2, <1>6
  <2>1. /\ h = [whole |-> TRUE, opcode |-> op, start |-> start, key |-> key, length |-> n]
        /\ h.whole = TRUE /\ h.start = start /\ h.length = n /\ h.key = key
    BY <1>4, <2>0
  <2>2. PICK q : q = Decrypted(r, h, n)
    OBVIOUS
  <2>3. ParsePacket(r) = [ok |-> TRUE, header |-> h, packet |-> q]
    <3>1. ~(Len(r) < h.start + h.length)
      BY <1>1, <1>2, <2>0, <2>1
    <3> QED
      BY <1>3, <2>1, <2>2, <3>1 DEF ParsePacket
  <2>4. /\ q \in Seq(Cells) /\ Len(q) = Len(r)
        /\ \A i \in 1..n : q[start + i] = payload[i]
        /\ \A i \in 1..Len(r) : i > start + n => q[i] = r[i]
    <3>1. \A i \in 1..n : r[start + i] = seg[start + i]
      <4>1. \A i \in 1..n : start + i \in 1..Len(r) /\ start + i <= Len(seg)
        BY <1>1, <1>2, <2>0
      <4> QED
        BY <1>2, <4>1
    <3>2. CASE key = <<>>
      <4>1. q = r
        BY <2>1, <2>2, <3>2 DEF Decrypted
      <4> QED
        BY <1>1, <1>2, <3>1, <3>2, <4>1
    <3>3. CASE key # <<>>
      <4>0. key \in Seq(Byte) /\ Len(key) = KeyLen /\ payload \in Seq(Byte) /\ Byte \subseteq Cells
        BY <3>3, DigitType DEF IsKey, IsPayload, Byte, Cells
      <4>1. PICK A, B, C : A = SubSeq(r, 1, start) /\ B = SubSeq(r, start + 1, start + n)
                             /\ C = SubSeq(r, start + n + 1, Len(r))
        OBVIOUS
      <4>2. PICK D : D = Masked(B, key)
        OBVIOUS
      <4>3. q = (A \o D) \o C
        BY <2>1, <2>2, <3>3, <4>1, <4>2 DEF Decrypted
      <4>4. A \in Seq(Cells) /\ Len(A) = start
        <5>1. A = SubSeq(r, 0 + 1, start) /\ 0 \in Nat /\ 0 <= start
          BY <1>1, <4>1
        <5>2. A \in Seq(Cells) /\ Slice(A, r, 0, start)
          BY <1>1, <1>2, <2>0, <5>1, Parting
        <5> QED
          BY <1>1, <5>2 DEF Slice
      <4>5. B \in Seq(Cells) /\ Len(B) = n /\ \A i \in 1..n : B[i] = r[start + i]
        <5>1. start <= start + n /\ (start + n) - start = n
          BY <1>1
        <5>2. B \in Seq(Cells) /\ Slice(B, r, start, start + n)
          BY <1>1, <1>2, <2>0, <4>1, <5>1, Parting
        <5> QED
          BY <5>1, <5>2 DEF Slice
      <4>6. C \in Seq(Cells) /\ Len(C) = Len(r) - (start + n)
            /\ \A i \in 1..(Len(r) - (start + n)) : C[i] = r[(start + n) + i]
        <5>1. PICK e \in Nat : e = start + n /\ e <= Len(r)
          BY <2>0
        <5>2. C = SubSeq(r, e + 1, Len(r)) /\ r \in Seq(Cells) /\ Len(r) \in Nat /\ Len(r) <= Len(r)
          BY <1>2, <4>1, <5>1
        <5>3. C \in Seq(Cells) /\ Slice(C, r, e, Len(r))
          BY ONLY <5>1, <5>2, Parting
        <5> QED
          BY <5>1, <5>3 DEF Slice
      <4>7. PICK M : M = Masked(payload, key)
        OBVIOUS
      <4>8. /\ M \in Seq(Byte) /\ Len(M) = n
            /\ \A i \in 1..n : Xor(M[i], key[((i - 1) % KeyLen) + 1]) = payload[i]
        BY <4>0, <4>7, MaskedTwice
      <4>9. \A i \in 1..n : B[i] = M[i]
        BY <1>1, <3>1, <3>3, <4>5, <4>7
      <4>10. B = M
        BY <4>5, <4>8, <4>9, SameSeq
      <4>11. D \in Seq(Byte) /\ Len(D) = n
        BY <4>0, <4>2, <4>8, <4>10, MaskedTwice
      <4>12. \A i \in 1..n : D[i] = payload[i]
        BY <4>2, <4>8, <4>10 DEF Masked
      <4>13. D \in Seq(Cells)
        BY <4>0, <4>11, Wider
      <4>14. PICK F : F = A \o D
        OBVIOUS
      <4>15. F \in Seq(Cells) /\ Chain(F, A, D)
        BY <4>4, <4>13, <4>14, Joining
      <4>16. q \in Seq(Cells) /\ Chain(q, F, C)
        BY <4>3, <4>6, <4>14, <4>15, Joining
      <4>17. Len(F) = start + n /\ \A i \in 1..n : F[start + i] = payload[i]
        BY <4>4, <4>11, <4>12, <4>15 DEF Chain
      <4>18. Len(q) = Len(r)
        BY <1>1, <1>2, <4>6, <4>16, <4>17 DEF Chain
      <4>19. ASSUME NEW i \in 1..n PROVE q[start + i] = payload[i]
        <5>1. start + i \in 1..Len(F)
          BY <1>1, <4>17
        <5> QED
          BY <4>16, <4>17, <5>1 DEF Chain
      <4>20. ASSUME NEW i \in 1..Len(r), i > start + n PROVE q[i] = r[i]
        <5>1. PICK e \in Nat, l \in Nat : e = start + n /\ l = Len(r)
          BY <1>2, <2>0
        <5>2. i \in 1..l /\ i > e
          BY <4>20, <5>1
        <5>3. PICK j \in 1..(l - e) : i = e + j
          <6>1. i - e \in 1..(l - e) /\ i = e + (i - e)
            BY ONLY <5>2, e \in Nat, l \in Nat
          <6> QED
            BY <6>1
        <5>4. Len(F) = e /\ Len(C) = l - e /\ C[j] = r[e + j]
          BY <4>6, <4>17, <5>1, <5>3
        <5>5. q[e + j] = C[j]
          BY <4>16, <5>4, <5>3 DEF Chain
        <5> QED
          BY <5>3, <5>4, <5>5
      <4> QED
        BY <4>16, <4>18, <4>19, <4>20
    <3> QED
      BY <3>2, <3>3
  <2>5. SubSeq(q, start + 1, start + n) = payload
    <3>1. PICK u : u = SubSeq(q, start + 1, start + n)
      OBVIOUS
    <3>2. start <= start + n /\ (start + n) - start = n
      BY <1>1
    <3>3. u \in Seq(Cells) /\ Slice(u, q, start, start + n)
      BY <1>1, <2>0, <2>4, <3>1, <3>2, Parting
    <3>4. Len(u) = n /\ \A i \in 1..n : u[i] = payload[i]
      BY <2>4, <3>2, <3>3 DEF Slice
    <3>5. payload \in Seq(Byte) /\ Len(payload) = n
      BY DEF IsPayload
    <3>6. u = payload
      BY <3>3, <3>4, <3>5, SameSeq
    <3> QED
      BY <3>1, <3>6
  <2> QED
    BY <2>1, <2>3, <2>4, <2>5 DEF Unpacked
<1> QED
  BY <1>1, <1>5, <1>6

\* What ParsePacket makes of a text that a frame of BuildPacket begins: the opcode
\* and the payload of the frame, and the text behind it as it was.
Undone(p, op, payload, rest) ==
    /\ p.ok /\ p.header.opcode = op /\ p.header.length = Len(payload)
    /\ SubSeq(p.packet, p.header.start + 1, p.header.start + p.header.length) = payload
    /\ ResetRqst(p.packet, p.header.start + p.header.length) = rest

\* ParsePacket undoes BuildPacket, for every opcode, payload and key, masked or
\* not, in all three encodings of the length and whatever follows the frame; of a
\* frame that has not arrived to the last byte it reports nothing, and leaves the
\* bytes as they are for the next segment.
THEOREM ParseUndoesBuild ==
    ASSUME NEW op \in AllOpcodes, NEW payload, IsPayload(payload), NEW key, IsKey(key),
           NEW rest \in Seq(Cells), NEW packet, packet = BuildPacket(op, payload, key)
    PROVE  /\ packet \in Seq(Cells)
           /\ Undone(ParsePacket(packet \o rest), op, payload, rest)
           /\ \A l \in 0..(Len(packet) - 1) :
                 ParsePacket(SubSeq(packet, 1, l)) = [ok |-> FALSE, packet |-> SubSeq(packet, 1, l)]
<1>1. PICK k : k = IF payload = <<>> THEN <<>> ELSE key
  OBVIOUS
<1>2. IsKey(k)
  BY <1>1 DEF IsKey
<1>3. packet = Layout(op, payload, k)
  BY <1>1, BuildIsLayout
<1>4. PICK n, start : n = Len(payload) /\ start = HeadLen(n) + Len(k)
  OBVIOUS
<1>5. packet \in Seq(Cells) /\ n \in Nat
  BY <1>2, <1>3, <1>4, LayoutFacts DEF Laid
<1>6. ASSUME NEW r, Agree(r, packet)
      PROVE  /\ start \in Nat /\ Len(packet) = start + n
             /\ Len(r) < Len(packet) => ParsePacket(r) = [ok |-> FALSE, packet |-> r]
             /\ Len(r) >= Len(packet) => Unpacked(ParsePacket(r), r, op, payload, k, start, n)
  BY <1>2, <1>3, <1>4, <1>6, ParseFrame
<1>7. Undone(ParsePacket(packet \o rest), op, payload, rest)
  <2>1. PICK r : r = packet \o rest
    OBVIOUS
  <2>2. r \in Seq(Cells) /\ Chain(r, packet, rest)
    BY <1>5, <2>1, Joining
  <2>3. Agree(r, packet) /\ Len(r) >= Len(packet) /\ Len(r) = Len(packet) + Len(rest)
    BY <1>5, <2>2 DEF Agree, Chain
  <2>4. PICK p : p = ParsePacket(r)
    OBVIOUS
  <2>5. /\ start \in Nat /\ Len(packet) = start + n
        /\ Unpacked(p, r, op, payload, k, start, n)
    BY <1>6, <2>3, <2>4
  <2>6. /\ p.ok /\ p.header.opcode = op /\ p.header.length = n /\ p.header.start = start
        /\ SubSeq(p.packet, start + 1, start + n) = payload
    BY <2>5 DEF Unpacked
  <2>7. PICK q, u, e : q = p.packet /\ e = start + n /\ u = SubSeq(q, e + 1, Len(q))
    OBVIOUS
  <2>8. /\ q \in Seq(Cells) /\ Len(q) = Len(r) /\ e \in Nat /\ Len(packet) = e
        /\ Len(q) = e + Len(rest) /\ \A i \in 1..Len(r) : i > e => q[i] = r[i]
    BY <1>5, <2>3, <2>5, <2>7 DEF Unpacked
  <2>9. u \in Seq(Cells) /\ Slice(u, q, e, Len(q))
    <3>1. e <= Len(q) /\ Len(q) \in Nat /\ Len(q) <= Len(q)
      BY <2>8
    <3> QED
      BY ONLY <2>7, <2>8, <3>1, Parting
  <2>10. Len(u) = Len(rest)
    BY <2>8, <2>9 DEF Slice
  <2>11. ASSUME NEW i \in 1..Len(u) PROVE u[i] = rest[i]
    <3>1. i \in 1..(Len(q) - e) /\ e + i \in 1..Len(r) /\ e + i > e
      BY <2>8, <2>10
    <3>2. u[i] = q[e + i] /\ q[e + i] = r[e + i]
      BY <2>8, <2>9, <3>1 DEF Slice
    <3>3. r[e + i] = rest[i]
      BY <2>2, <2>8, <2>10 DEF Chain
    <3> QED
      BY <3>2, <3>3
  <2>12. u = rest
    BY <2>9, <2>10, <2>11, SameSeq
  <2>13. ResetRqst(p.packet, start + n) = rest
    BY <2>7, <2>12 DEF ResetRqst
  <2> QED
    BY <1>4, <2>1, <2>4, <2>6, <2>13 DEF Undone
<1>8. ASSUME NEW l \in 0..(Len(packet) - 1)
      PROVE  ParsePacket(SubSeq(packet, 1, l)) = [ok |-> FALSE, packet |-> SubSeq(packet, 1, l)]
  <2>1. PICK r : r = SubSeq(packet, 1, l)
    OBVIOUS
  <2>2. l \in Nat /\ l < Len(packet) /\ l <= Len(packet)
    BY <1>5
  <2>3. r \in Seq(Cells) /\ Slice(r, packet, 0, l)
    <3>1. r = SubSeq(packet, 0 + 1, l) /\ 0 \in Nat /\ 0 <= l
      BY <2>1, <2>2
    <3> QED
      BY ONLY <1>5, <2>2, <3>1, Parting
  <2>4. Agree(r, packet) /\ Len(r) = l
    BY <2>2, <2>3 DEF Agree, Slice
  <2>5. ParsePacket(r) = [ok |-> FALSE, packet |-> r]
    BY <1>6, <2>2, <2>4
  <2> QED
    BY <2>1, <2>5
<1> QED
  BY <1>5, <1>7, <1>8

-----------------------------------------------------------------------------
(* The first cell of a kind                                                 *)

\* A set of numbers has a least one.
LEMMA Least ==
    ASSUME NEW S, S \subseteq Nat, S # {}
    PROVE  Min(S) \in S /\ \A y \in S : Min(S) <= y
<1>1. PICK x \in S : \A y \in S : ~(<<y, x>> \in OpToRel(<, Nat))
  BY NatLessThanWellFounded, WFMin
<1>2. \A y \in S : x <= y
  <2>1. ASSUME NEW y \in S, ~(x <= y) PROVE FALSE
    <3>1. y < x /\ x \in Nat /\ y \in Nat
      BY <2>1
    <3>2. <<y, x>> \in OpToRel(<, Nat)
      BY <3>1 DEF OpToRel
    <3> QED
      BY <1>1, <3>2
  <2> QED
    BY <2>1
<1> QED
  BY <1>2 DEF Min

\* Position x is that of the first cell of a kind in r[p..end], or behind them.
First(x, r, end, p, kind) ==
    /\ x \in p..(end + 1)
    /\ x <= end => r[x][1] = kind
    /\ \A j \in p..(x - 1) : r[j][1] # kind

\* There is only one.
LEMMA FirstUnique ==
    ASSUME NEW r, NEW end \in Nat, NEW p \in Nat, NEW kind, NEW x, NEW y,
           First(x, r, end, p, kind), First(y, r, end, p, kind)
    PROVE  x = y
<1>1. x \in p..(end + 1) /\ y \in p..(end + 1) /\ x \in Nat /\ y \in Nat
  BY DEF First
<1>2. ASSUME x < y PROVE FALSE
  <2>1. x \in p..(y - 1) /\ x <= end
    BY <1>1, <1>2
  <2> QED
    BY <2>1 DEF First
<1>3. ASSUME y < x PROVE FALSE
  <2>1. y \in p..(x - 1) /\ y <= end
    BY <1>1, <1>3
  <2> QED
    BY <2>1 DEF First
<1> QED
  BY <1>1, <1>2, <1>3

\* It is the same one from any place up to it.
LEMMA FirstLater ==
    ASSUME NEW r, NEW end \in Nat, NEW p \in Nat, NEW kind, NEW x, NEW q \in Nat,
           First(x, r, end, p, kind), p <= q, q <= x
    PROVE  First(x, r, end, q, kind)
<1>1. x \in Nat /\ x <= end + 1
  BY DEF First
<1>2. x \in q..(end + 1) /\ \A j \in q..(x - 1) : j \in p..(x - 1)
  BY <1>1
<1> QED
  BY <1>2 DEF First

\* A text of which the cells behind the first o are those of body.
Holds(r, o, body) ==
    /\ o + Len(body) <= Len(r)
    /\ \A j \in 1..Len(body) : r[o + j] = body[j]

\* The first cell of a kind in a body is that in the text with the body.
LEMMA FirstShift ==
    ASSUME NEW S, NEW body \in Seq(S), NEW r, NEW o \in Nat, Holds(r, o, body),
           NEW s \in Nat, s >= 1, NEW kind, NEW x, First(x, body, Len(body), s, kind)
    PROVE  First(o + x, r, o + Len(body), o + s, kind)
<1>1. PICK L \in Nat : L = Len(body)
  OBVIOUS
<1>2. x \in Nat /\ x >= s /\ x <= L + 1 /\ x >= 1
  BY <1>1 DEF First
<1>3. o + x \in (o + s)..((o + L) + 1)
  BY <1>2
<1>4. o + x <= o + L => r[o + x][1] = kind
  <2> SUFFICES ASSUME o + x <= o + L PROVE r[o + x][1] = kind
    OBVIOUS
  <2>1. x <= L /\ x \in 1..L
    BY <1>2
  <2> QED
    BY <1>1, <2>1 DEF First, Holds
<1>5. ASSUME NEW j \in (o + s)..((o + x) - 1) PROVE r[j][1] # kind
  <2>1. PICK i \in s..(x - 1) : j = o + i
    <3>1. j - o \in s..(x - 1) /\ j = o + (j - o)
      BY <1>2
    <3> QED
      BY <3>1
  <2>2. i \in 1..L
    BY <1>2
  <2>3. body[i][1] # kind /\ r[o + i] = body[i]
    BY <1>1, <2>2 DEF First, Holds
  <2> QED
    BY <2>1, <2>3
<1> QED
  BY <1>1, <1>3, <1>4, <1>5 DEF First

\* Following is the first cell of its kind.
LEMMA FollowingIsFirst ==
    ASSUME NEW S, NEW body \in Seq(S), NEW s \in 1..(Len(body) + 1), NEW kind
    PROVE  First(Following(body, s, kind), body, Len(body), s, kind)
<1>1. PICK L \in Nat : L = Len(body)
  OBVIOUS
<1> DEFINE F == {j \in s..L : body[j][1] = kind} \cup {L + 1}
<1>2. F \subseteq Nat /\ F # {}
  BY <1>1
<1>3. PICK x : x = Min(F)
  OBVIOUS
<1>4. x \in F /\ \A y \in F : x <= y
  <2> HIDE DEF F
  <2> QED
    BY <1>2, <1>3, Least
<1>5. x = Following(body, s, kind)
  BY <1>1, <1>3 DEF Following
<1>6. x \in Nat /\ x \in s..(L + 1) /\ (x <= L => body[x][1] = kind)
  BY <1>1, <1>4
<1>7. ASSUME NEW j \in s..(x - 1) PROVE body[j][1] # kind
  <2>1. j \in s..L /\ ~(x <= j)
    BY <1>6
  <2> QED
    BY <1>4, <2>1
<1>8. First(x, body, L, s, kind)
  BY <1>6, <1>7 DEF First
<1> QED
  BY <1>1, <1>5, <1>8

-----------------------------------------------------------------------------
(* The items of a form                                                      *)

\* next of get_post_urlencoded: the first cell of a kind from ptr on.
NextOf(r, end, ptr, kind) ==
    LET found == {i \in ptr..end : r[i][1] = kind}
    IN IF found = {} THEN end + 1 ELSE Min(found)

\* What the loop of get_post_urlencoded finds from ptr on, when it finds f behind it.
ItemStep(r, end, ptr, f) ==
    LET eq == NextOf(r, end, ptr, "eq")
        amp == NextOf(r, end, eq + 1, "amp")
    IN IF ptr > end THEN [items |-> {}, loops |-> FALSE]
       ELSE IF eq > end THEN [items |-> {}, loops |-> TRUE]
       ELSE IF eq = end
            THEN [items |-> {[key |-> SubSeq(r, ptr, eq - 1), at |-> eq, nul |-> eq]},
                  loops |-> FALSE]
       ELSE [items |-> {[key |-> SubSeq(r, ptr, eq - 1), at |-> eq + 1, nul |-> amp]}
                       \cup f[amp + 1].items,
             loops |-> f[amp + 1].loops]

\* NextOf is the first cell of its kind.
LEMMA NextIsFirst ==
    ASSUME NEW r, NEW end \in Nat, NEW p \in 0..(end + 1), NEW kind
    PROVE  First(NextOf(r, end, p, kind), r, end, p, kind)
<1> DEFINE F == {i \in p..end : r[i][1] = kind}
<1>1. PICK x : x = IF F = {} THEN end + 1 ELSE Min(F)
  OBVIOUS
<1>2. x = NextOf(r, end, p, kind)
  BY <1>1 DEF NextOf
<1>3. CASE F = {}
  <2>1. x = end + 1 /\ x - 1 = end
    BY <1>1, <1>3
  <2>2. x \in p..(end + 1) /\ ~(x <= end)
    BY <2>1
  <2>3. \A j \in p..end : r[j][1] # kind
    BY <1>3
  <2>4. First(x, r, end, p, kind)
    BY <2>1, <2>2, <2>3 DEF First
  <2> QED
    BY <1>2, <2>4
<1>4. CASE F # {}
  <2>1. F \subseteq Nat
    OBVIOUS
  <2>2. x \in F /\ \A y \in F : x <= y
    <3> HIDE DEF F
    <3> QED
      BY <1>1, <1>4, <2>1, Least
  <2>3. x \in Nat /\ x \in p..(end + 1) /\ r[x][1] = kind
    BY <2>2
  <2>4. ASSUME NEW j \in p..(x - 1) PROVE r[j][1] # kind
    <3>1. j \in p..end /\ ~(x <= j)
      BY <2>2, <2>3
    <3> QED
      BY <2>2, <3>1
  <2>5. First(x, r, end, p, kind)
    BY <2>3, <2>4 DEF First
  <2> QED
    BY <1>2, <2>5
<1> QED
  BY <1>3, <1>4

\* A turn of the loop looks only at what is found behind it.
LEMMA StepLooksAhead ==
    ASSUME NEW r, NEW end \in Nat, NEW ptr \in Nat, NEW f, NEW g,
           \A j \in (ptr + 1)..(end + 2) : f[j] = g[j]
    PROVE  ItemStep(r, end, ptr, f) = ItemStep(r, end, ptr, g)
<1>1. CASE ptr > end
  BY <1>1 DEF ItemStep
<1>2. CASE ptr <= end
  <2>1. PICK eq : eq = NextOf(r, end, ptr, "eq")
    OBVIOUS
  <2>2. eq \in ptr..(end + 1)
    <3>1. ptr \in 0..(end + 1)
      BY <1>2
    <3> QED
      BY <2>1, <3>1, NextIsFirst DEF First
  <2>3. CASE eq >= end
    <3>1. eq > end \/ eq = end
      BY <2>2, <2>3
    <3> QED
      BY <2>1, <3>1 DEF ItemStep
  <2>4. CASE eq < end
    <3>1. PICK amp : amp = NextOf(r, end, eq + 1, "amp")
      OBVIOUS
    <3>2. amp \in (eq + 1)..(end + 1)
      <4>1. eq + 1 \in 0..(end + 1)
        BY <2>2, <2>4
      <4> QED
        BY <3>1, <4>1, NextIsFirst DEF First
    <3>3. amp + 1 \in (ptr + 1)..(end + 2)
      BY <2>2, <3>2
    <3>4. f[amp + 1] = g[amp + 1]
      BY <3>3
    <3> QED
      BY <2>1, <3>1, <3>4 DEF ItemStep
  <2> QED
    BY <2>2, <2>3, <2>4
<1> QED
  BY <1>1, <1>2

\* Function f says what the loop finds from each place on.
IsItem(f, r, first, end) == f = [ptr \in first..(end + 2) |-> ItemStep(r, end, ptr, f)]

\* There is such a function: it is built from the end of the body on.
LEMMA ItemExists ==
    ASSUME NEW r, NEW end \in Nat, NEW first \in 0..(end + 2)
    PROVE  \E f : IsItem(f, r, first, end)
<1> DEFINE Has(p) == \E f : IsItem(f, r, p, end)
           T == {j \in Nat : j <= end + 2 => Has((end + 2) - j)}
<1>1. Has(end + 2)
  <2>1. PICK f : f = [ptr \in (end + 2)..(end + 2) |-> [items |-> {}, loops |-> FALSE]]
    OBVIOUS
  <2>2. \A ptr \in (end + 2)..(end + 2) : ItemStep(r, end, ptr, f) = [items |-> {}, loops |-> FALSE]
    <3>1. \A ptr \in (end + 2)..(end + 2) : ptr > end
      OBVIOUS
    <3> QED
      BY <3>1 DEF ItemStep
  <2>3. f = [ptr \in (end + 2)..(end + 2) |-> ItemStep(r, end, ptr, f)]
    BY <2>1, <2>2
  <2> QED
    BY <2>3 DEF IsItem
<1>2. ASSUME NEW p \in 1..(end + 2), Has(p) PROVE Has(p - 1)
  <2>1. PICK f : IsItem(f, r, p, end)
    BY <1>2
  <2>2. PICK q \in Nat : q = p - 1 /\ p = q + 1 /\ q <= end + 2
    BY <1>2
  <2>3. PICK v : v = ItemStep(r, end, q, f)
    OBVIOUS
  <2>4. PICK g : g = [ptr \in q..(end + 2) |-> IF ptr = q THEN v ELSE f[ptr]]
    OBVIOUS
  <2>5. \A j \in p..(end + 2) : f[j] = g[j] /\ j \in q..(end + 2)
    <3>1. \A j \in p..(end + 2) : j \in q..(end + 2) /\ j # q
      BY <2>2
    <3> QED
      BY <2>4, <3>1
  <2>6. ASSUME NEW ptr \in q..(end + 2) PROVE g[ptr] = ItemStep(r, end, ptr, g)
    <3>1. ptr \in Nat /\ \A j \in (ptr + 1)..(end + 2) : f[j] = g[j]
      <4>1. ptr \in Nat /\ \A j \in (ptr + 1)..(end + 2) : j \in p..(end + 2)
        BY <2>2
      <4> QED
        BY <2>5, <4>1
    <3>2. ItemStep(r, end, ptr, f) = ItemStep(r, end, ptr, g)
      BY <3>1, StepLooksAhead
    <3>3. CASE ptr = q
      BY <2>3, <2>4, <3>2, <3>3
    <3>4. CASE ptr # q
      <4>1. ptr \in p..(end + 2)
        BY <2>2, <3>4
      <4>2. f[ptr] = ItemStep(r, end, ptr, f)
        <5>1. PICK w : w = [i \in p..(end + 2) |-> ItemStep(r, end, i, f)]
          OBVIOUS
        <5>2. w[ptr] = ItemStep(r, end, ptr, f) /\ f = w
          BY <2>1, <4>1, <5>1 DEF IsItem
        <5> QED
          BY <5>2
      <4> QED
        BY <2>5, <3>2, <4>1, <4>2
    <3> QED
      BY <3>3, <3>4
  <2>7. IsItem(g, r, q, end)
    <3>1. PICK w : w = [i \in q..(end + 2) |-> ItemStep(r, end, i, g)]
      OBVIOUS
    <3>2. g = w
      BY <2>4, <2>6, <3>1
    <3> QED
      BY <3>1, <3>2 DEF IsItem
  <2> QED
    BY <2>2, <2>7
<1>3. T = Nat
  <2>1. 0 \in T
    <3>1. (end + 2) - 0 = end + 2
      OBVIOUS
    <3> HIDE DEF Has
    <3> QED
      BY <1>1, <3>1
  <2>2. ASSUME NEW j \in T PROVE j + 1 \in T
    <3>1. ASSUME j + 1 <= end + 2 PROVE Has((end + 2) - (j + 1))
      <4>1. PICK p \in 1..(end + 2) : p = (end + 2) - j /\ (end + 2) - (j + 1) = p - 1
        BY <3>1
      <4>2. Has(p)
        <5>1. j <= end + 2
          BY <3>1
        <5> HIDE DEF Has
        <5> QED
          BY <4>1, <5>1
      <4>3. Has(p - 1)
        <5> HIDE DEF Has
        <5> QED
          BY <1>2, <4>2
      <4> HIDE DEF Has
      <4> QED
        BY <4>1, <4>3
    <3> HIDE DEF Has
    <3> QED
      BY <3>1
  <2>3. T \subseteq Nat
    OBVIOUS
  <2> HIDE DEF T
  <2> QED
    BY <2>1, <2>2, <2>3, SetInduction
<1>4. PICK j \in Nat : j = (end + 2) - first /\ (end + 2) - j = first /\ j <= end + 2
  <2>1. (end + 2) - first \in Nat /\ (end + 2) - ((end + 2) - first) = first /\ (end + 2) - first <= end + 2
    OBVIOUS
  <2> QED
    BY <2>1
<1>5. Has(first)
  <2>1. j \in T
    BY <1>3
  <2> HIDE DEF Has
  <2> QED
    BY <1>4, <2>1
<1> QED
  BY <1>5

\* So get_post_urlencoded of a body is what that function says of its beginning.
LEMMA FormIsItem ==
    ASSUME NEW r, NEW end \in Nat, NEW first \in 0..(end + 2)
    PROVE  \E f : /\ Form(r, first, end) = f[first]
                  /\ \A ptr \in first..(end + 2) : f[ptr] = ItemStep(r, end, ptr, f)
<1>1. PICK f : f = CHOOSE g : g = [ptr \in first..(end + 2) |-> ItemStep(r, end, ptr, g)]
  OBVIOUS
<1>2. Form(r, first, end) = f[first]
  <2>1. Form(r, first, end)
          = (CHOOSE g : g = [ptr \in first..(end + 2) |-> ItemStep(r, end, ptr, g)])[first]
    BY DEF Form, ItemStep, NextOf
  <2> QED
    BY <1>1, <2>1
<1>3. IsItem(f, r, first, end)
  <2>1. PICK g : IsItem(g, r, first, end)
    BY ItemExists
  <2>2. g = [ptr \in first..(end + 2) |-> ItemStep(r, end, ptr, g)]
    BY <2>1 DEF IsItem
  <2>3. f = [ptr \in first..(end + 2) |-> ItemStep(r, end, ptr, f)]
    BY <1>1, <2>2
  <2> QED
    BY <2>3 DEF IsItem
<1>4. ASSUME NEW ptr \in first..(end + 2) PROVE f[ptr] = ItemStep(r, end, ptr, f)
  <2>1. PICK w : w = [i \in first..(end + 2) |-> ItemStep(r, end, i, f)]
    OBVIOUS
  <2>2. w[ptr] = ItemStep(r, end, ptr, f) /\ f = w
    BY <1>3, <2>1 DEF IsItem
  <2> QED
    BY <2>2
<1> QED
  BY <1>2, <1>4

\* The body of a form of which every item has a key, an equal sign and a value.
IsForm(body) ==
    /\ body \in Seq({"text", "eq", "amp"} \X Nat)
    /\ \A p \in ItemStarts(body) : Following(body, p, "eq") < Following(body, p, "amp")

\* An item that starts at s: the equal sign at e, the ampersand, or the end, at a.
Item(body, s, e, a, L) ==
    /\ L = Len(body) /\ L \in Nat /\ s \in 1..L /\ e \in s..L /\ a \in (e + 1)..(L + 1)
    /\ First(e, body, L, s, "eq") /\ First(a, body, L, s, "amp")
    /\ a <= L => a + 1 \in ItemStarts(body)
    /\ \A t \in ItemStarts(body) : t > s => a + 1 <= t

\* Every item is one.
LEMMA StartFacts ==
    ASSUME NEW body, IsForm(body), NEW s \in ItemStarts(body), NEW e, NEW a,
           e = Following(body, s, "eq"), a = Following(body, s, "amp")
    PROVE  Item(body, s, e, a, Len(body))
<1>1. body \in Seq({"text", "eq", "amp"} \X Nat) /\ e < a
  BY DEF IsForm
<1>2. PICK L \in Nat : L = Len(body) /\ DOMAIN body = 1..L
  BY <1>1
<1>3. ItemStarts(body) = {1} \cup {j + 1 : j \in {i \in 1..L : body[i][1] = "amp"}}
  BY <1>2 DEF ItemStarts, At
<1>4. s \in 1..(L + 1)
  BY <1>2, <1>3
<1>5. First(e, body, L, s, "eq") /\ First(a, body, L, s, "amp")
  BY <1>1, <1>2, <1>4, FollowingIsFirst
<1>6. e \in s..(L + 1) /\ a \in s..(L + 1)
  BY <1>5 DEF First
<1>7. s \in 1..L /\ e \in s..L /\ a \in (e + 1)..(L + 1)
  BY <1>1, <1>4, <1>6
<1>8. a <= L => a + 1 \in ItemStarts(body)
  <2> SUFFICES ASSUME a <= L PROVE a + 1 \in ItemStarts(body)
    OBVIOUS
  <2>1. a \in 1..L /\ body[a][1] = "amp"
    BY <1>5, <1>7 DEF First
  <2> QED
    BY <1>3, <2>1
<1>9. ASSUME NEW t \in ItemStarts(body), t > s PROVE a + 1 <= t
  <2>1. PICK j \in 1..L : body[j][1] = "amp" /\ t = j + 1
    BY <1>3, <1>7, <1>9
  <2>2. j >= s
    BY <1>7, <1>9, <2>1
  <2>3. ASSUME ~(a <= j) PROVE FALSE
    <3>1. j \in s..(a - 1)
      BY <1>7, <2>2, <2>3
    <3> QED
      BY <1>5, <2>1, <3>1 DEF First
  <2> QED
    BY <1>7, <2>1, <2>3
<1> QED
  BY <1>2, <1>5, <1>7, <1>8, <1>9 DEF Item

\* What get_post_urlencoded keeps of an item of the body behind the first o cells.
ItemAt(r, o, body, s) ==
    LET eq == o + Following(body, s, "eq")
    IN IF eq = o + Len(body)
       THEN [key |-> SubSeq(r, o + s, eq - 1), at |-> eq, nul |-> eq]
       ELSE [key |-> SubSeq(r, o + s, eq - 1), at |-> eq + 1, nul |-> o + Following(body, s, "amp")]

\* One turn of the loop finds an item, and goes on with the next one.
LEMMA ItemTurn ==
    ASSUME NEW body, IsForm(body), NEW r, NEW o \in Nat, Holds(r, o, body),
           NEW s \in ItemStarts(body), NEW a, a = Following(body, s, "amp"), NEW f,
           \A ptr \in (o + 1)..(o + Len(body) + 2) : f[ptr] = ItemStep(r, o + Len(body), ptr, f)
    PROVE  f[o + s] = IF a > Len(body) THEN [items |-> {ItemAt(r, o, body, s)}, loops |-> FALSE]
                      ELSE [items |-> {ItemAt(r, o, body, s)} \cup f[o + (a + 1)].items,
                            loops |-> f[o + (a + 1)].loops]
<1>1. PICK e, L : e = Following(body, s, "eq") /\ L = Len(body)
  OBVIOUS
<1>2. Item(body, s, e, a, L)
  BY <1>1, StartFacts
<1>3. /\ L \in Nat /\ s \in 1..L /\ e \in s..L /\ a \in (e + 1)..(L + 1)
      /\ First(e, body, L, s, "eq") /\ First(a, body, L, s, "amp")
  BY <1>2 DEF Item
<1>4. body \in Seq({"text", "eq", "amp"} \X Nat)
  BY DEF IsForm
<1>5. PICK end \in Nat, p \in Nat, eq \in Nat, m \in Nat :
          end = o + L /\ p = o + s /\ eq = o + e /\ m = o + a
  <2>1. s \in Nat /\ e \in Nat /\ a \in Nat
    BY <1>3
  <2>2. o + L \in Nat /\ o + s \in Nat /\ o + e \in Nat /\ o + a \in Nat
    BY ONLY <1>3, <2>1, o \in Nat
  <2> QED
    BY <2>2
<1>6. /\ p \in 0..(end + 1) /\ p \in (o + 1)..(end + 2) /\ ~(p > end) /\ p <= eq /\ eq <= end
      /\ eq < m /\ m <= end + 1 /\ eq + 1 <= m /\ o + (a + 1) = m + 1
      /\ (a > L <=> m = end + 1) /\ eq + 1 \in 0..(end + 1) /\ p <= eq + 1
  <2>1. L \in Nat /\ s \in 1..L /\ e \in s..L /\ a \in (e + 1)..(L + 1)
    BY <1>3
  <2>2. s \in Nat /\ e \in Nat /\ a \in Nat /\ s >= 1 /\ s <= e /\ e <= L /\ e < a /\ a <= L + 1
    BY ONLY <2>1
  <2> QED
    BY ONLY <1>5, <2>1, <2>2, o \in Nat
<1>7. First(eq, r, end, p, "eq") /\ First(m, r, end, p, "amp")
  <2>1. s \in Nat /\ s >= 1
    BY <1>3
  <2> QED
    BY <1>1, <1>3, <1>4, <1>5, <2>1, FirstShift
<1>8. NextOf(r, end, p, "eq") = eq
  BY <1>6, <1>7, NextIsFirst, FirstUnique
<1>9. NextOf(r, end, eq + 1, "amp") = m
  <2>1. First(m, r, end, eq + 1, "amp")
    BY <1>6, <1>7, FirstLater
  <2>2. First(NextOf(r, end, eq + 1, "amp"), r, end, eq + 1, "amp")
    BY <1>6, NextIsFirst
  <2>3. eq + 1 \in Nat
    OBVIOUS
  <2> QED
    BY <2>1, <2>2, <2>3, FirstUnique
<1>10. f[p] = ItemStep(r, end, p, f)
  BY <1>1, <1>5, <1>6
<1>11. PICK it : it = ItemAt(r, o, body, s)
  OBVIOUS
<1>12. CASE eq = end
  <2>1. it = [key |-> SubSeq(r, p, eq - 1), at |-> eq, nul |-> eq]
    BY <1>1, <1>5, <1>11, <1>12 DEF ItemAt
  <2>4. ~(eq > end)
    BY <1>6
  <2>2. f[p] = [items |-> {it}, loops |-> FALSE]
    BY <1>6, <1>8, <1>10, <1>12, <2>1, <2>4 DEF ItemStep
  <2>3. a > L
    BY <1>6, <1>12
  <2> QED
    BY <1>1, <1>5, <1>11, <2>2, <2>3
<1>13. CASE eq # end
  <2>1. it = [key |-> SubSeq(r, p, eq - 1), at |-> eq + 1, nul |-> m]
    BY <1>1, <1>5, <1>11, <1>13 DEF ItemAt
  <2>2. ~(eq > end)
    BY <1>6
  <2>3. f[p] = [items |-> {it} \cup f[m + 1].items, loops |-> f[m + 1].loops]
    BY <1>6, <1>8, <1>9, <1>10, <1>13, <2>1, <2>2 DEF ItemStep
  <2>4. CASE a > L
    <3>1. m + 1 = end + 2 /\ end + 2 > end /\ end + 2 \in (o + 1)..(end + 2)
      BY <1>3, <1>5, <1>6, <2>4
    <3>2. f[end + 2] = ItemStep(r, end, end + 2, f)
      BY <1>1, <1>5, <3>1
    <3>3. f[m + 1] = [items |-> {}, loops |-> FALSE]
      BY <3>1, <3>2 DEF ItemStep
    <3>4. f[p] = [items |-> {it}, loops |-> FALSE]
      BY <2>3, <3>3
    <3> QED
      BY <1>1, <1>5, <1>11, <2>4, <3>4
  <2>5. CASE ~(a > L)
    BY <1>1, <1>5, <1>6, <1>11, <2>3, <2>5
  <2> QED
    BY <2>4, <2>5
<1> QED
  BY <1>12, <1>13

\* get_post_urlencoded finds all items of a form, and returns.
LEMMA FormItems ==
    ASSUME NEW body, IsForm(body), NEW r, NEW o \in Nat, Holds(r, o, body)
    PROVE  Form(r, o + 1, o + Len(body))
             = [items |-> {ItemAt(r, o, body, s) : s \in ItemStarts(body)}, loops |-> FALSE]
<1>1. PICK L \in Nat, end \in Nat : L = Len(body) /\ end = o + L
  BY DEF IsForm
<1>2. o + 1 \in 0..(end + 2) /\ (o + Len(body)) + 2 = end + 2
  BY <1>1
<1>3. PICK f : /\ Form(r, o + 1, end) = f[o + 1]
               /\ \A ptr \in (o + 1)..(end + 2) : f[ptr] = ItemStep(r, end, ptr, f)
  BY <1>2, FormIsItem
<1>4. ASSUME NEW s \in ItemStarts(body), NEW a, a = Following(body, s, "amp")
      PROVE  f[o + s] = IF a > L THEN [items |-> {ItemAt(r, o, body, s)}, loops |-> FALSE]
                        ELSE [items |-> {ItemAt(r, o, body, s)} \cup f[o + (a + 1)].items,
                              loops |-> f[o + (a + 1)].loops]
  BY <1>1, <1>3, <1>4, ItemTurn
<1> DEFINE From(s) == {ItemAt(r, o, body, t) : t \in {t \in ItemStarts(body) : t >= s}}
           Good(s) == f[o + s] = [items |-> From(s), loops |-> FALSE]
           T == {j \in Nat : \A s \in ItemStarts(body) : s + j >= L + 1 => Good(s)}
<1>5. ASSUME NEW s \in ItemStarts(body), \A t \in ItemStarts(body) : t > s => Good(t)
      PROVE  Good(s)
  <2>1. PICK e, a : e = Following(body, s, "eq") /\ a = Following(body, s, "amp")
    OBVIOUS
  <2>2. /\ s \in 1..L /\ e \in s..L /\ a \in (e + 1)..(L + 1)
        /\ a <= L => a + 1 \in ItemStarts(body)
        /\ \A t \in ItemStarts(body) : t > s => a + 1 <= t
    BY <1>1, <2>1, StartFacts DEF Item
  <2>3. ItemStarts(body) \subseteq Nat
    BY <1>1, StartFacts DEF Item
  <2>4. CASE a > L
    <3>1. \A t \in ItemStarts(body) : ~(t > s)
      <4>1. ASSUME NEW t \in ItemStarts(body), t > s PROVE FALSE
        <5>1. t \in 1..L
          BY <1>1, StartFacts DEF Item
        <5> QED
          BY <2>2, <2>4, <4>1, <5>1
      <4> QED
        BY <4>1
    <3>2. {t \in ItemStarts(body) : t >= s} = {s}
      BY <2>2, <2>3, <3>1
    <3>3. From(s) = {ItemAt(r, o, body, s)}
      BY <3>2
    <3> QED
      BY <1>4, <2>1, <2>4, <3>3
  <2>5. CASE ~(a > L)
    <3>1. a + 1 \in ItemStarts(body) /\ a + 1 > s
      BY <2>2, <2>5
    <3>2. f[o + (a + 1)] = [items |-> From(a + 1), loops |-> FALSE]
      BY <1>5, <3>1
    <3>3. {t \in ItemStarts(body) : t >= s} = {s} \cup {t \in ItemStarts(body) : t >= a + 1}
      BY <2>2, <2>3, <3>1
    <3>4. From(s) = {ItemAt(r, o, body, s)} \cup From(a + 1)
      BY <3>3
    <3>5. f[o + s] = [items |-> {ItemAt(r, o, body, s)} \cup f[o + (a + 1)].items,
                      loops |-> f[o + (a + 1)].loops]
      BY <1>4, <2>1, <2>5
    <3>6. f[o + (a + 1)].items = From(a + 1) /\ f[o + (a + 1)].loops = FALSE
      BY <3>2
    <3> HIDE DEF From
    <3> QED
      BY <3>4, <3>5, <3>6
  <2> QED
    BY <2>4, <2>5
<1>6. ItemStarts(body) \subseteq 1..L
  BY <1>1, StartFacts DEF Item
<1>7. T = Nat
  <2> HIDE DEF Good
  <2>1. 0 \in T
    BY <1>6
  <2>2. ASSUME NEW j \in T PROVE j + 1 \in T
    <3>1. ASSUME NEW s \in ItemStarts(body), s + (j + 1) >= L + 1 PROVE Good(s)
      <4>1. \A t \in ItemStarts(body) : t > s => t + j >= L + 1
        BY <1>6, <3>1
      <4> QED
        BY <1>5, <4>1
    <3> QED
      BY <3>1
  <2>3. T \subseteq Nat
    OBVIOUS
  <2> HIDE DEF T
  <2> QED
    BY <2>1, <2>2, <2>3, SetInduction
<1>8. Good(1)
  <2>1. 1 \in ItemStarts(body)
    BY DEF ItemStarts
  <2>2. L + 1 \in Nat /\ 1 + (L + 1) >= L + 1
    OBVIOUS
  <2>3. L + 1 \in T
    <3> HIDE DEF T
    <3> QED
      BY <1>7, <2>2
  <2> HIDE DEF Good
  <2> QED
    BY <2>1, <2>2, <2>3
<1>9. {t \in ItemStarts(body) : t >= 1} = ItemStarts(body)
  BY <1>6
<1>10. From(1) = {ItemAt(r, o, body, s) : s \in ItemStarts(body)}
  BY <1>9
<1> HIDE DEF From
<1> QED
  BY <1>1, <1>3, <1>8, <1>10

\* A part of the text is that part of the body, when the cells are the same.
LEMMA PartShift ==
    ASSUME NEW S, NEW U, NEW r \in Seq(S), NEW body \in Seq(U), NEW o \in Nat,
           NEW x \in Nat, NEW y \in Nat, x <= y, y <= Len(body), o + y <= Len(r),
           \A j \in (x + 1)..y : r[o + j] = body[j]
    PROVE  SubSeq(r, (o + x) + 1, o + y) = SubSeq(body, x + 1, y)
<1>1. PICK u, v : u = SubSeq(r, (o + x) + 1, o + y) /\ v = SubSeq(body, x + 1, y)
  OBVIOUS
<1>2. u \in Seq(S) /\ Slice(u, r, o + x, o + y)
  <2>0. o + x \in Nat /\ o + y \in Nat
    OBVIOUS
  <2>1. PICK p \in Nat, q \in Nat : p = o + x /\ q = o + y
    BY <2>0
  <2>2. p <= q /\ q <= Len(r) /\ u = SubSeq(r, p + 1, q)
    BY <1>1, <2>1
  <2>3. u \in Seq(S) /\ Slice(u, r, p, q)
    BY <2>2, Parting
  <2> QED
    BY <2>1, <2>3
<1>3. v \in Seq(U) /\ Slice(v, body, x, y)
  BY <1>1, Parting
<1>4. (o + y) - (o + x) = y - x
  OBVIOUS
<1>5. ASSUME NEW i \in 1..(y - x) PROVE u[i] = v[i]
  <2>1. u[i] = r[(o + x) + i] /\ v[i] = body[x + i]
    BY <1>2, <1>3, <1>4 DEF Slice
  <2>2. x + i \in (x + 1)..y /\ (o + x) + i = o + (x + i)
    OBVIOUS
  <2> QED
    BY <2>1, <2>2
<1>6. Len(u) = y - x /\ Len(v) = y - x
  BY <1>2, <1>3, <1>4 DEF Slice
<1>7. u = v
  BY <1>2, <1>3, <1>5, <1>6, SameSeq
<1> QED
  BY <1>1, <1>7

\* Where the value of an item begins, and the byte written behind it.
ValueAt(body, s) == IF Following(body, s, "eq") = Len(body) THEN Len(body)
                    ELSE Following(body, s, "eq") + 1
NulAt(body, s) == IF Following(body, s, "eq") = Len(body) THEN Len(body)
                  ELSE Following(body, s, "amp")

\* No byte is written into the value of another item.
LEMMA NulApart ==
    ASSUME NEW body, IsForm(body), NEW s \in ItemStarts(body), NEW t \in ItemStarts(body)
    PROVE  /\ ValueAt(body, s) \in 1..NulAt(body, s) /\ NulAt(body, s) \in 1..(Len(body) + 1)
           /\ NulAt(body, t) \in ValueAt(body, s)..NulAt(body, s) => NulAt(body, t) = NulAt(body, s)
<1>1. PICK L, e, a, f, b : /\ e = Following(body, s, "eq") /\ a = Following(body, s, "amp")
                           /\ f = Following(body, t, "eq") /\ b = Following(body, t, "amp")
                           /\ L = Len(body)
  OBVIOUS
<1>2. /\ L \in Nat /\ s \in 1..L /\ e \in s..L /\ a \in (e + 1)..(L + 1)
      /\ t > s => a + 1 <= t
  BY <1>1, StartFacts DEF Item
<1>3. t \in 1..L /\ f \in t..L /\ b \in (f + 1)..(L + 1) /\ (s > t => b + 1 <= s)
  BY <1>1, StartFacts DEF Item
<1>4. PICK y, z, w : y = ValueAt(body, s) /\ z = NulAt(body, s) /\ w = NulAt(body, t)
  OBVIOUS
<1>5. /\ y = IF e = L THEN L ELSE e + 1
      /\ z = IF e = L THEN L ELSE a
      /\ w = IF f = L THEN L ELSE b
  BY <1>1, <1>4 DEF ValueAt, NulAt
<1>6. y \in 1..z /\ z \in 1..(L + 1) /\ y >= s /\ z <= a
  BY <1>2, <1>5
<1>7. CASE t < s
  <2>1. b + 1 <= s /\ w = b
    BY <1>2, <1>3, <1>5, <1>7
  <2>2. ~(w \in y..z)
    BY <1>2, <1>3, <1>6, <2>1
  <2> QED
    BY <1>1, <1>4, <1>6, <2>2
<1>8. CASE t > s
  <2>1. a + 1 <= t /\ w >= t
    BY <1>2, <1>3, <1>5, <1>8
  <2>2. ~(w \in y..z)
    BY <1>2, <1>3, <1>6, <2>1
  <2> QED
    BY <1>1, <1>4, <1>6, <2>2
<1>9. CASE t = s
  BY <1>1, <1>4, <1>6, <1>9
<1> QED
  BY <1>2, <1>3, <1>7, <1>8, <1>9

\* The text with the bytes written behind the values of the form.
Written(t, r, o, body) ==
    /\ t \in Seq(Cells) /\ Len(t) = Len(r)
    /\ \A i \in 1..Len(r) :
          \/ t[i] = <<"nul", 0>> /\ \E s \in ItemStarts(body) : i = o + NulAt(body, s)
          \/ t[i] = r[i] /\ \A s \in ItemStarts(body) : i # o + NulAt(body, s)

\* That is what Terminate makes of it.
LEMMA TerminateWrites ==
    ASSUME NEW body, IsForm(body), NEW r \in Seq(Cells), NEW o \in Nat, Holds(r, o, body),
           NEW t, t = Terminate(r, {ItemAt(r, o, body, s) : s \in ItemStarts(body)})
    PROVE  Written(t, r, o, body)
<1> DEFINE I == {ItemAt(r, o, body, s) : s \in ItemStarts(body)}
<1>1. \A s \in ItemStarts(body) : ItemAt(r, o, body, s).nul = o + NulAt(body, s)
  <2>1. ASSUME NEW s \in ItemStarts(body) PROVE ItemAt(r, o, body, s).nul = o + NulAt(body, s)
    <3>1. PICK e, a, L : /\ e = Following(body, s, "eq") /\ a = Following(body, s, "amp")
                         /\ L = Len(body)
      OBVIOUS
    <3>2. L \in Nat /\ e \in Nat
      <4>1. Item(body, s, e, a, L)
        BY <3>1, StartFacts
      <4> QED
        BY <4>1 DEF Item
    <3>3. o + e = o + L <=> e = L
      BY <3>2
    <3>4. CASE e = L
      BY <3>1, <3>4 DEF ItemAt, NulAt
    <3>5. CASE e # L
      BY <3>1, <3>3, <3>5 DEF ItemAt, NulAt
    <3> QED
      BY <3>4, <3>5
  <2> QED
    BY <2>1
<1>2. t = [i \in 1..Len(r) |-> IF \E it \in I : it.nul = i THEN <<"nul", 0>> ELSE r[i]]
  BY DEF Terminate
<1>3. ASSUME NEW i PROVE (\E it \in I : it.nul = i) <=> \E s \in ItemStarts(body) : i = o + NulAt(body, s)
  BY <1>1
<1>4. <<"nul", 0>> \in Cells
  BY DEF Cells, CellKinds
<1>5. t \in Seq(Cells) /\ Len(t) = Len(r)
  <2>1. \A i \in 1..Len(r) : r[i] \in Cells
    OBVIOUS
  <2> HIDE DEF I
  <2>2. \A i \in 1..Len(r) : (IF \E it \in I : it.nul = i THEN <<"nul", 0>> ELSE r[i]) \in Cells
    BY <1>4, <2>1
  <2>3. PICK n \in Nat : n = Len(r)
    OBVIOUS
  <2>4. t \in [1..n -> Cells]
    BY <1>2, <2>2, <2>3
  <2> QED
    BY <2>3, <2>4
<1>6. ASSUME NEW i \in 1..Len(r)
      PROVE  \/ t[i] = <<"nul", 0>> /\ \E s \in ItemStarts(body) : i = o + NulAt(body, s)
             \/ t[i] = r[i] /\ \A s \in ItemStarts(body) : i # o + NulAt(body, s)
  <2>1. t[i] = IF \E it \in I : it.nul = i THEN <<"nul", 0>> ELSE r[i]
    <3> HIDE DEF I
    <3> QED
      BY <1>2
  <2> HIDE DEF I
  <2> QED
    BY <1>3, <2>1
<1> QED
  BY <1>5, <1>6 DEF Written

\* The application reads the key and the value of every item.
LEMMA ItemValue ==
    ASSUME NEW body, IsForm(body), NEW r \in Seq(Cells), NEW o \in Nat, Holds(r, o, body),
           NEW t, Written(t, r, o, body), NEW s \in ItemStarts(body),
           NEW e, NEW a, e = Following(body, s, "eq"), a = Following(body, s, "amp")
    PROVE  /\ ItemAt(r, o, body, s).key = SubSeq(body, s, e - 1)
           /\ CString(t, ItemAt(r, o, body, s).at) = SubSeq(body, e + 1, a - 1)
<1>1. PICK L, N, y, z : L = Len(body) /\ N = Len(r) /\ y = ValueAt(body, s) /\ z = NulAt(body, s)
  OBVIOUS
<1>2. L \in Nat /\ s \in 1..L /\ e \in s..L /\ a \in (e + 1)..(L + 1)
  BY <1>1, StartFacts DEF Item
<1>3. /\ s \in Nat /\ e \in Nat /\ a \in Nat /\ s >= 1 /\ s <= e /\ e <= L /\ e < a /\ a <= L + 1
  BY ONLY <1>2
<1>4. /\ body \in Seq({"text", "eq", "amp"} \X Nat) /\ N \in Nat /\ o + L <= N
      /\ \A j \in 1..L : r[o + j] = body[j]
  BY <1>1 DEF IsForm, Holds
<1>5. y = (IF e = L THEN L ELSE e + 1) /\ z = (IF e = L THEN L ELSE a)
  BY <1>1 DEF ValueAt, NulAt
<1>6. y \in Nat /\ z \in Nat /\ y >= 1 /\ y <= z /\ z <= L + 1 /\ y <= L + 1
  BY ONLY <1>2, <1>3, <1>5
<1>7. ItemAt(r, o, body, s).key = SubSeq(body, s, e - 1)
  <2>1. ItemAt(r, o, body, s).key = SubSeq(r, o + s, (o + e) - 1)
    BY DEF ItemAt
  <2>0. s - 1 \in Nat /\ e - 1 \in Nat
    BY ONLY <1>3
  <2>2. PICK x \in Nat, w \in Nat : x = s - 1 /\ w = e - 1
    BY <2>0
  <2>3. /\ x <= w /\ w <= L /\ o + w <= N /\ o + s = (o + x) + 1 /\ (o + e) - 1 = o + w /\ s = x + 1
        /\ \A j \in (x + 1)..w : j \in 1..L
    <3>1. L \in Nat /\ N \in Nat /\ o + L <= N
      BY <1>2, <1>4
    <3> QED
      BY ONLY <1>3, <2>2, <3>1, o \in Nat
  <2>4. \A j \in (x + 1)..w : r[o + j] = body[j]
    BY <1>4, <2>3
  <2>5. SubSeq(r, (o + x) + 1, o + w) = SubSeq(body, x + 1, w)
    BY <1>1, <1>4, <2>3, <2>4, PartShift
  <2> QED
    BY <2>1, <2>2, <2>3, <2>5
<1>8. ItemAt(r, o, body, s).at = o + y
  <2>1. o + e = o + L <=> e = L
    BY <1>3, <1>2
  <2>2. (o + e) + 1 = o + (e + 1)
    BY <1>3
  <2>3. CASE e = L
    BY <1>1, <1>5, <2>3 DEF ItemAt
  <2>4. CASE e # L
    BY <1>1, <1>5, <2>1, <2>2, <2>4 DEF ItemAt
  <2> QED
    BY <2>3, <2>4
<1>9. t \in Seq(Cells) /\ Len(t) = N
  BY <1>1 DEF Written
<1>10. ASSUME NEW i \in y..(z - 1) PROVE i \in 1..L /\ t[o + i] = body[i] /\ t[o + i][1] # "nul"
  <2>1. i \in 1..L /\ i \in y..z /\ i # z /\ o + i \in 1..N
    <3>1. L \in Nat /\ N \in Nat /\ o + L <= N /\ i \in y..(z - 1)
      BY <1>2, <1>4
    <3> QED
      BY ONLY <1>6, <3>1, o \in Nat
  <2>2. \A q \in ItemStarts(body) : o + i # o + NulAt(body, q)
    <3>1. ASSUME NEW q \in ItemStarts(body), o + i = o + NulAt(body, q) PROVE FALSE
      <4>1. NulAt(body, q) \in Nat
        <5>1. NulAt(body, q) \in 1..(Len(body) + 1)
          BY NulApart
        <5> QED
          BY <5>1, <1>1, <1>2
      <4>2. NulAt(body, q) = i
        BY <2>1, <3>1, <4>1
      <4>3. NulAt(body, q) = z
        BY <1>1, <2>1, <4>2, NulApart
      <4> QED
        BY <2>1, <4>2, <4>3
    <3> QED
      BY <3>1
  <2>3. t[o + i] = r[o + i]
    BY <1>1, <2>1, <2>2 DEF Written
  <2>4. body[i] \in {"text", "eq", "amp"} \X Nat
    BY <1>1, <1>4, <2>1
  <2>5. body[i][1] # "nul"
    BY <2>4
  <2> QED
    BY <1>4, <2>1, <2>3, <2>5
<1>11. CString(t, o + y) = SubSeq(t, o + y, (o + z) - 1)
  <2> DEFINE ends == {i \in (o + y)..N : t[i][1] = "nul"}
  <2>1. CString(t, o + y) = SubSeq(t, o + y, IF ends = {} THEN N ELSE Min(ends) - 1)
    BY <1>9 DEF CString
  <2>2. ASSUME NEW i \in (o + y)..((o + z) - 1) PROVE t[i][1] # "nul"
    <3>1. PICK j \in y..(z - 1) : i = o + j
      <4>1. i - o \in y..(z - 1) /\ i = o + (i - o)
        BY <1>6
      <4> QED
        BY <4>1
    <3> QED
      BY <1>10, <3>1
  <2>3. CASE o + z <= N
    <3>1. o + z \in 1..N /\ o + z \in (o + y)..N
      BY <1>4, <1>6, <2>3
    <3>2. t[o + z] = <<"nul", 0>>
      BY <1>1, <3>1 DEF Written
    <3>3. o + z \in ends
      BY <3>1, <3>2
    <3>4. \A i \in ends : i \in Nat /\ o + z <= i
      <4>1. ASSUME NEW i \in ends, ~(o + z <= i) PROVE FALSE
        <5>1. i \in (o + y)..((o + z) - 1)
          BY <1>4, <1>6, <4>1
        <5> QED
          BY <2>2, <5>1
      <4>2. \A i \in ends : i \in Nat
        BY <1>4, <1>6
      <4> QED
        BY <4>1, <4>2
    <3>5. Min(ends) = o + z
      <4> HIDE DEF ends
      <4>1. ends \subseteq Nat /\ ends # {}
        BY <3>3, <3>4
      <4>2. Min(ends) \in ends /\ Min(ends) <= o + z
        BY <3>3, <4>1, Least
      <4>3. Min(ends) \in Nat /\ o + z <= Min(ends) /\ o + z \in Nat
        BY <1>6, <3>4, <4>2
      <4> QED
        BY <4>2, <4>3
    <3> HIDE DEF ends
    <3> QED
      BY <2>1, <3>3, <3>5
  <2>4. CASE ~(o + z <= N)
    <3>1. N = (o + z) - 1
      BY <1>2, <1>4, <1>6, <2>4
    <3>2. ends = {}
      BY <2>2, <3>1
    <3> HIDE DEF ends
    <3> QED
      BY <2>1, <3>1, <3>2
  <2> QED
    BY <2>3, <2>4
<1>12. SubSeq(t, o + y, (o + z) - 1) = SubSeq(body, e + 1, a - 1)
  <2>1. PICK x \in Nat, w \in Nat : x = y - 1 /\ w = z - 1
    BY <1>6
  <2>2. /\ x <= w /\ w <= L /\ o + w <= N /\ o + y = (o + x) + 1 /\ (o + z) - 1 = o + w
        /\ \A j \in (x + 1)..w : j \in y..(z - 1)
    BY <1>2, <1>4, <1>6, <2>1
  <2>3. \A j \in (x + 1)..w : t[o + j] = body[j]
    BY <1>10, <2>2
  <2>4. SubSeq(t, (o + x) + 1, o + w) = SubSeq(body, x + 1, w)
    BY <1>1, <1>4, <1>9, <2>2, <2>3, PartShift
  <2>5. SubSeq(body, x + 1, w) = SubSeq(body, e + 1, a - 1)
    <3>1. CASE e = L
      <4>1. y = L /\ z = L /\ a = L + 1
        BY <1>2, <1>3, <1>5, <3>1
      <4>2. x + 1 = L /\ w = L - 1 /\ a - 1 = L
        BY <1>2, <2>1, <4>1
      <4>3. SubSeq(body, L, L - 1) = << >> /\ SubSeq(body, L + 1, L) = << >>
        BY <1>1, <1>2, <1>4
      <4> QED
        BY <3>1, <4>2, <4>3
    <3>2. CASE e # L
      <4>1. x + 1 = e + 1 /\ w = a - 1
        BY <1>3, <1>5, <2>1, <3>2
      <4> QED
        BY <4>1
    <3> QED
      BY <3>1, <3>2
  <2> QED
    BY <2>2, <2>4, <2>5
<1> QED
  BY <1>7, <1>8, <1>11, <1>12

\* The values of a form that the application reads are those that were sent.
LEMMA PostIsForm ==
    ASSUME NEW body, IsForm(body), NEW r \in Seq(Cells), NEW o \in Nat, Holds(r, o, body),
           NEW items, items = {ItemAt(r, o, body, s) : s \in ItemStarts(body)}
    PROVE  PostData(r, items) = FormData(body)
<1>1. PICK t : t = Terminate(r, items)
  OBVIOUS
<1>2. Written(t, r, o, body)
  BY <1>1, TerminateWrites
<1>3. ASSUME NEW s \in ItemStarts(body)
      PROVE  <<ItemAt(r, o, body, s).key, CString(t, ItemAt(r, o, body, s).at)>>
               = <<SubSeq(body, s, Following(body, s, "eq") - 1),
                   SubSeq(body, Following(body, s, "eq") + 1, Following(body, s, "amp") - 1)>>
  BY <1>2, ItemValue
<1>4. PostData(r, items)
        = {<<ItemAt(r, o, body, s).key, CString(t, ItemAt(r, o, body, s).at)>> : s \in ItemStarts(body)}
  BY <1>1 DEF PostData
<1> QED
  BY <1>3, <1>4 DEF FormData

-----------------------------------------------------------------------------
(* Requests                                                                 *)

HttpKinds == {"get", "upgrade", "form"}
HeadSize(kind) == IF kind = "get" THEN 3 ELSE IF kind = "upgrade" THEN 4 ELSE 5
BodyLen(kind, body) == IF kind = "form" THEN Len(body) ELSE 0

\* Cell by cell, seg is request number n.
IsLines(seg, kind, n, body) ==
    /\ seg \in Seq(Cells) /\ BodyLen(kind, body) \in Nat
    /\ Len(seg) = HeadSize(kind) + BodyLen(kind, body)
    /\ seg[1] = <<IF kind = "form" THEN "post" ELSE "get", n>> /\ seg[2] = <<"url", n>>
    /\ seg[HeadSize(kind)] = <<"blank", 0>>
    /\ kind = "upgrade" => seg[3] = <<"upgrade", 0>>
    /\ kind = "form" => /\ seg[3] = <<"form", 0>> /\ seg[4] = <<"length", Len(body)>>
                        /\ \A j \in 1..Len(body) : seg[5 + j] = body[j]

\* The lines of a request, cell by cell.
LEMMA LinesFacts ==
    ASSUME NEW kind \in HttpKinds, NEW n \in Nat, NEW body, kind = "form" => IsForm(body),
           NEW seg, seg = Lines(kind, n, body)
    PROVE  IsLines(seg, kind, n, body)
<1>1. <<"get", n>> \in Cells /\ <<"post", n>> \in Cells /\ <<"url", n>> \in Cells
  BY DEF Cells, CellKinds, HeadKinds, Method
<1>2. <<"blank", 0>> \in Cells /\ <<"upgrade", 0>> \in Cells /\ <<"form", 0>> \in Cells
  BY DEF Cells, CellKinds, HeadKinds, Method
<1>3. CASE kind = "get"
  <2>1. seg = << <<"get", n>>, <<"url", n>>, <<"blank", 0>> >>
    BY <1>3 DEF Lines
  <2>2. seg \in Seq(Cells)
    BY <1>1, <1>2, <2>1
  <2> QED
    BY <1>3, <2>1, <2>2 DEF IsLines, HeadSize, BodyLen
<1>4. CASE kind = "upgrade"
  <2>1. seg = << <<"get", n>>, <<"url", n>>, <<"upgrade", 0>>, <<"blank", 0>> >>
    BY <1>4 DEF Lines
  <2>2. seg \in Seq(Cells)
    BY <1>1, <1>2, <2>1
  <2> QED
    BY <1>4, <2>1, <2>2 DEF IsLines, HeadSize, BodyLen
<1>5. CASE kind = "form"
  <2>1. body \in Seq({"text", "eq", "amp"} \X Nat) /\ Len(body) \in Nat
    BY <1>5 DEF IsForm
  <2>2. body \in Seq(Cells)
    <3>1. {"text", "eq", "amp"} \X Nat \subseteq Cells
      BY DEF Cells, CellKinds
    <3> QED
      BY <2>1, <3>1, Wider
  <2>3. PICK c : c = <<"length", Len(body)>>
    OBVIOUS
  <2>4. c \in Cells
    BY <2>1, <2>3 DEF Cells, CellKinds, HeadKinds
  <2>5. PICK w : w = << <<"post", n>>, <<"url", n>>, <<"form", 0>>, c, <<"blank", 0>> >>
    OBVIOUS
  <2>6. /\ w \in Seq(Cells) /\ Len(w) = 5 /\ w[1] = <<"post", n>> /\ w[2] = <<"url", n>>
        /\ w[3] = <<"form", 0>> /\ w[4] = c /\ w[5] = <<"blank", 0>>
    BY <1>1, <1>2, <2>4, <2>5
  <2>7. seg = w \o body
    BY <1>5, <2>3, <2>5 DEF Lines
  <2>8. seg \in Seq(Cells) /\ Chain(seg, w, body)
    BY <2>2, <2>6, <2>7, Joining
  <2>9. /\ Len(seg) = 5 + Len(body) /\ \A i \in 1..5 : seg[i] = w[i]
        /\ \A j \in 1..Len(body) : seg[5 + j] = body[j]
    BY <2>6, <2>8 DEF Chain
  <2> QED
    BY <1>5, <2>1, <2>3, <2>6, <2>8, <2>9 DEF IsLines, HeadSize, BodyLen
<1> QED
  BY <1>3, <1>4, <1>5 DEF HttpKinds

\* A text without the blank line that begins with a method is never left.
LEMMA ScanLoops ==
    ASSUME NEW r \in Seq(Cells), Len(r) >= 1, r[1][1] \in Method
    PROVE  Scan(r).loops
<1>1. PICK M, m : M = At(r, Method) /\ m = Min(M)
  OBVIOUS
<1>2. 1 \in M /\ M \subseteq Nat
  BY <1>1 DEF At
<1>3. m = 1
  <2>1. m \in M /\ m <= 1 /\ m \in Nat
    BY <1>1, <1>2, Least
  <2>2. m >= 1
    BY <1>1, <2>1 DEF At
  <2> QED
    BY <2>1, <2>2
<1>4. PICK C : C = {i \in At(r, {"cap"}) : M = {} \/ i < m}
  OBVIOUS
<1>5. C = {}
  <2>1. \A i \in At(r, {"cap"}) : ~(i < 1)
    BY DEF At
  <2> QED
    BY <1>2, <1>3, <1>4, <2>1
<1>6. Scan(r) = [loops |-> m \in {IF C = {} THEN 1 ELSE Max(C) + 1, Len(r)}, rqst |-> SubSeq(r, m, Len(r))]
  <2>1. M # {}
    BY <1>2
  <2> QED
    BY <1>1, <1>4, <2>1 DEF Scan
<1>7. Scan(r) = [loops |-> m \in {1, Len(r)}, rqst |-> SubSeq(r, m, Len(r))]
  BY <1>5, <1>6
<1>8. PICK b : b = (m \in {1, Len(r)})
  OBVIOUS
<1>9. b
  BY <1>3, <1>8
<1>10. Scan(r).loops = b
  BY <1>7, <1>8
<1> QED
  BY <1>9, <1>10

\* The head of a text that begins with some lines and a blank one.
LEMMA HeadRead ==
    ASSUME NEW r \in Seq(Cells), NEW h \in Nat, h >= 2, h <= Len(r), r[1][1] # "crlf",
           r[h][1] = "blank", \A i \in 1..(h - 1) : r[i][1] # "blank"
    PROVE  At(r, {"blank"}) # {} /\ HeadEnd(r) = h
<1>1. PICK B : B = At(r, {"blank"})
  OBVIOUS
<1>2. h \in B /\ B \subseteq Nat /\ \A i \in B : i >= h
  <2>1. B = {i \in 1..Len(r) : r[i][1] = "blank"}
    BY <1>1 DEF At
  <2>2. h \in 1..Len(r)
    OBVIOUS
  <2>3. ASSUME NEW i \in B, ~(i >= h) PROVE FALSE
    <3>1. i \in 1..(h - 1)
      BY <2>1, <2>3
    <3> QED
      BY <2>1, <3>1
  <2> QED
    BY <2>1, <2>2, <2>3
<1>3. Min(B) = h
  <2>1. PICK m : m = Min(B)
    OBVIOUS
  <2>2. m \in B /\ m <= h
    BY <1>2, <2>1, Least
  <2>3. m \in Nat /\ m >= h
    BY <1>2, <2>2
  <2> QED
    BY <2>1, <2>2, <2>3
<1> QED
  BY <1>1, <1>2, <1>3 DEF HeadEnd

\* What the parser makes of a complete request.
Parsed(r, seg, kind, n, data, post) ==
    /\ Len(seg) <= Len(r) /\ Size(r) = Len(seg) /\ r[1][1] # "crlf" /\ r[1][2] = n
    /\ HasHeader(r, "form") <=> kind = "form"
    /\ HasHeader(r, "upgrade") <=> kind = "upgrade"
    /\ post.data = data /\ post.rqst \in Seq(Cells) /\ Len(post.rqst) = Len(r)
    /\ \A i \in 1..Len(r) : i > Len(seg) =>
          \/ post.rqst[i] = r[i]
          \/ kind = "form" /\ i = Len(seg) + 1 /\ post.rqst[i] = <<"nul", 0>>

\* The parser on a text that begins with a request, or is the beginning of one: it
\* finds the request when it is complete, and leaves the text alone before.
LEMMA RequestRead ==
    ASSUME NEW kind \in HttpKinds, NEW n \in Nat, NEW body, kind = "form" => IsForm(body),
           NEW seg, seg = Lines(kind, n, body), NEW r, Agree(r, seg),
           NEW data, data = IF kind = "form" THEN FormData(body) ELSE {}
    PROVE  /\ Complete(r) => Parsed(r, seg, kind, n, data, ParsePost(r))
           /\ ~Complete(r) => ParseRequest(r).loops \/ ParseRequest(r).rqst = r
<1>1. PICK h, B : h = HeadSize(kind) /\ B = BodyLen(kind, body)
  OBVIOUS
<1>2. /\ seg \in Seq(Cells) /\ B \in Nat /\ h \in {3, 4, 5} /\ Len(seg) = h + B
      /\ seg[1] = <<IF kind = "form" THEN "post" ELSE "get", n>> /\ seg[2] = <<"url", n>>
      /\ seg[h] = <<"blank", 0>>
      /\ kind = "upgrade" => seg[3] = <<"upgrade", 0>>
      /\ kind = "form" => /\ seg[3] = <<"form", 0>> /\ seg[4] = <<"length", Len(body)>>
                          /\ \A j \in 1..Len(body) : seg[5 + j] = body[j]
  <2>1. h \in {3, 4, 5}
    BY <1>1 DEF HeadSize
  <2>2. IsLines(seg, kind, n, body)
    BY LinesFacts
  <2> QED
    BY <1>1, <2>1, <2>2 DEF IsLines
<1>3. /\ kind = "get" => h = 3 /\ B = 0
      /\ kind = "upgrade" => h = 4 /\ B = 0
      /\ kind = "form" => h = 5 /\ B = Len(body)
  BY <1>1 DEF HeadSize, BodyLen
<1>4. r \in Seq(Cells) /\ Len(r) \in Nat /\ \A i \in 1..Len(r) : i <= Len(seg) => r[i] = seg[i]
  BY DEF Agree
<1>5. \A i \in 1..(h - 1) : seg[i][1] \in {"get", "post", "url", "upgrade", "form", "length"}
  <2>1. seg[1][1] \in {"get", "post"} /\ seg[2][1] = "url"
    BY <1>2
  <2>2. CASE kind = "get"
    <3>1. \A i \in 1..(h - 1) : i \in {1, 2}
      BY <1>3, <2>2
    <3> QED
      BY <2>1, <3>1
  <2>3. CASE kind = "upgrade"
    <3>1. \A i \in 1..(h - 1) : i \in {1, 2, 3}
      BY <1>3, <2>3
    <3>2. seg[3][1] = "upgrade"
      BY <1>2, <2>3
    <3> QED
      BY <2>1, <3>1, <3>2
  <2>4. CASE kind = "form"
    <3>1. \A i \in 1..(h - 1) : i \in {1, 2, 3, 4}
      BY <1>3, <2>4
    <3>2. seg[3][1] = "form" /\ seg[4][1] = "length"
      BY <1>2, <2>4
    <3> QED
      BY <2>1, <3>1, <3>2
  <2> QED
    BY <2>2, <2>3, <2>4 DEF HttpKinds
<1>6. \A i \in 1..h : i <= Len(r) => i \in 1..Len(r) /\ r[i] = seg[i]
  <2>1. \A i \in 1..h : (i <= Len(r)) => i \in 1..Len(r) /\ i <= Len(seg)
    BY <1>2, <1>4
  <2> QED
    BY <1>4, <2>1
<1>7. CASE Len(r) < h
  <2>1. At(r, {"blank"}) = {}
    <3>1. \A i \in 1..Len(r) : i \in 1..(h - 1) /\ i \in 1..h /\ i <= Len(r)
      BY <1>2, <1>4, <1>7
    <3>2. \A i \in 1..Len(r) : r[i][1] # "blank"
      BY <1>5, <1>6, <3>1
    <3> QED
      BY <1>4, <3>2 DEF At
  <2>2. ~Complete(r)
    BY <2>1 DEF Complete
  <2>3. ParseRequest(r).loops \/ ParseRequest(r).rqst = r
    <3>1. CASE Len(r) = 0
      <4>1. r = <<>>
        BY <1>4, <3>1
      <4>2. At(r, Method) = {}
        BY <4>1 DEF At
      <4>3. Scan(r).rqst = <<>>
        BY <4>2 DEF Scan
      <4> QED
        BY <2>1, <4>1, <4>3 DEF ParseRequest
    <3>2. CASE Len(r) # 0
      <4>1. Len(r) >= 1 /\ 1 \in 1..h /\ 1 <= Len(r)
        BY <1>2, <1>4, <3>2
      <4>2. r[1][1] \in Method
        BY <1>2, <1>6, <4>1 DEF Method
      <4>3. Scan(r).loops
        BY <1>4, <4>1, <4>2, ScanLoops
      <4>4. ParseRequest(r).loops = (At(r, {"blank"}) = {} /\ Scan(r).loops)
        BY DEF ParseRequest
      <4> QED
        BY <2>1, <4>3, <4>4
    <3> QED
      BY <3>1, <3>2
  <2> QED
    BY <2>2, <2>3
<1>8. CASE Len(r) >= h
  <2>1. \A i \in 1..h : i \in 1..Len(r) /\ r[i] = seg[i]
    <3>1. \A i \in 1..h : i <= Len(r)
      BY <1>2, <1>4, <1>8
    <3> QED
      BY <1>6, <3>1
  <2>2. At(r, {"blank"}) # {} /\ HeadEnd(r) = h
    <3>1. h \in Nat /\ h >= 2 /\ h <= Len(r) /\ 1 \in 1..h /\ h \in 1..h
      BY <1>2, <1>8
    <3>2. r[1][1] # "crlf" /\ r[h][1] = "blank"
      BY <1>2, <2>1, <3>1
    <3>3. \A i \in 1..(h - 1) : r[i][1] # "blank"
      <4>1. \A i \in 1..(h - 1) : i \in 1..h
        BY <1>2
      <4> QED
        BY <1>5, <2>1, <4>1
    <3> QED
      BY <1>4, <3>1, <3>2, <3>3, HeadRead
  <2>3. ASSUME NEW k PROVE HasHeader(r, k) <=> \E i \in 2..(h - 1) : seg[i][1] = k
    <3>1. At(r, {k}) = {i \in 1..Len(r) : r[i][1] = k}
      BY <1>4 DEF At
    <3>2. \A i \in 1..Len(r) : (i > 1 /\ i < h) <=> i \in 2..(h - 1)
      BY <1>2
    <3>3. \A i \in 2..(h - 1) : i \in 1..h
      BY <1>2
    <3>4. HasHeader(r, k) <=> \E i \in At(r, {k}) : i > 1 /\ i < h
      BY <2>2 DEF HasHeader
    <3> QED
      BY <2>1, <3>1, <3>2, <3>3, <3>4
  <2>3a. /\ seg[2][1] = "url" /\ (kind = "upgrade" => seg[3][1] = "upgrade")
         /\ kind = "form" => seg[3][1] = "form" /\ seg[4][1] = "length"
    BY <1>2
  <2>4. HasHeader(r, "form") <=> kind = "form"
    <3>1. CASE kind = "get"
      <4>1. \A i \in 2..(h - 1) : i = 2
        BY <1>3, <3>1
      <4> QED
        BY <2>3, <2>3a, <3>1, <4>1
    <3>2. CASE kind = "upgrade"
      <4>1. \A i \in 2..(h - 1) : i \in {2, 3}
        BY <1>3, <3>2
      <4> QED
        BY <2>3, <2>3a, <3>2, <4>1
    <3>3. CASE kind = "form"
      <4>1. 3 \in 2..(h - 1)
        BY <1>3, <3>3
      <4> QED
        BY <2>3, <2>3a, <3>3, <4>1
    <3> QED
      BY <3>1, <3>2, <3>3 DEF HttpKinds
  <2>5. HasHeader(r, "upgrade") <=> kind = "upgrade"
    <3>1. CASE kind = "get"
      <4>1. \A i \in 2..(h - 1) : i = 2
        BY <1>3, <3>1
      <4> QED
        BY <2>3, <2>3a, <3>1, <4>1
    <3>2. CASE kind = "form"
      <4>1. \A i \in 2..(h - 1) : i \in {2, 3, 4}
        BY <1>3, <3>2
      <4> QED
        BY <2>3, <2>3a, <3>2, <4>1
    <3>3. CASE kind = "upgrade"
      <4>1. 3 \in 2..(h - 1)
        BY <1>3, <3>3
      <4> QED
        BY <2>3, <2>3a, <3>3, <4>1
    <3> QED
      BY <3>1, <3>2, <3>3 DEF HttpKinds
  <2>6. ContentLength(r) = B
    <3>1. PICK Z : Z = {i \in At(r, {"length"}) : i > 1 /\ i < h}
      OBVIOUS
    <3>2. ContentLength(r) = IF Z = {} THEN 0 ELSE r[Min(Z)][2]
      BY <2>2, <3>1 DEF ContentLength
    <3>3. Z = {i \in 2..(h - 1) : seg[i][1] = "length"}
      <4>1. At(r, {"length"}) = {i \in 1..Len(r) : r[i][1] = "length"}
        BY <1>4 DEF At
      <4>2. \A i \in 1..Len(r) : (i > 1 /\ i < h) <=> i \in 2..(h - 1)
        BY <1>2
      <4>3. \A i \in 2..(h - 1) : i \in 1..h
        BY <1>2
      <4> QED
        BY <2>1, <3>1, <4>1, <4>2, <4>3
    <3>4. CASE kind = "get"
      <4>1. \A i \in 2..(h - 1) : i = 2
        BY <1>3, <3>4
      <4>2. Z = {}
        BY <2>3a, <3>3, <4>1
      <4> QED
        BY <1>3, <3>2, <3>4, <4>2
    <3>5. CASE kind = "upgrade"
      <4>1. \A i \in 2..(h - 1) : i \in {2, 3}
        BY <1>3, <3>5
      <4>2. Z = {}
        BY <2>3a, <3>3, <3>5, <4>1
      <4> QED
        BY <1>3, <3>2, <3>5, <4>2
    <3>6. CASE kind = "form"
      <4>1. (\A i \in 2..(h - 1) : i \in {2, 3, 4}) /\ 4 \in 2..(h - 1) /\ 4 \in 1..h
        BY <1>3, <3>6
      <4>2. Z = {4}
        BY <2>3a, <3>3, <3>6, <4>1
      <4>3. Min(Z) = 4
        <5>1. Z \subseteq Nat /\ Z # {}
          BY <4>2
        <5> QED
          BY <4>2, <5>1, Least
      <4>4. r[4][2] = Len(body)
        BY <1>2, <2>1, <3>6, <4>1
      <4> QED
        BY <1>3, <3>2, <3>6, <4>2, <4>3, <4>4
    <3> QED
      BY <3>4, <3>5, <3>6 DEF HttpKinds
  <2>7. Size(r) = Len(seg)
    BY <1>2, <2>2, <2>6 DEF Size
  <2>8. Complete(r) <=> Len(r) >= Len(seg)
    <3>1. Complete(r) <=> Len(r) - h >= B
      BY <2>2, <2>6 DEF Complete
    <3>2. Len(r) - h >= B <=> Len(r) >= h + B
      BY <1>2, <1>4
    <3> QED
      BY <1>2, <3>1, <3>2
  <2>9. ~Complete(r) => ParseRequest(r).rqst = r
    BY <2>2 DEF ParseRequest
  <2>10. ASSUME Len(r) >= Len(seg) PROVE Parsed(r, seg, kind, n, data, ParsePost(r))
    <3>1. Len(seg) <= Len(r) /\ 1 \in 1..h
      BY <1>2, <1>4, <2>10
    <3>2. r[1] = <<IF kind = "form" THEN "post" ELSE "get", n>>
      BY <1>2, <2>1, <3>1
    <3>3. r[1][1] = (IF kind = "form" THEN "post" ELSE "get") /\ r[1][2] = n
      BY <3>2
    <3>4. PICK post : post = ParsePost(r)
      OBVIOUS
    <3>5. CASE kind # "form"
      <4>1. post = [loops |-> FALSE, data |-> {}, rqst |-> r]
        BY <2>4, <3>4, <3>5 DEF ParsePost
      <4>2. post.data = data /\ post.rqst = r
        BY <3>5, <4>1
      <4> QED
        BY <1>4, <2>4, <2>5, <2>7, <3>1, <3>3, <3>4, <4>2 DEF Parsed
    <3>6. CASE kind = "form"
      <4>1. PICK items : items = {ItemAt(r, 5, body, s) : s \in ItemStarts(body)}
        OBVIOUS
      <4>2. PICK L \in Nat : L = Len(body) /\ Len(seg) = 5 + L /\ Size(r) = 5 + L /\ 5 + L <= Len(r)
        BY <1>2, <1>3, <2>7, <3>1, <3>6
      <4>3. Holds(r, 5, body)
        <5>1. \A j \in 1..L : 5 + j \in 1..Len(r) /\ 5 + j <= Len(seg)
          BY <1>4, <4>2
        <5> QED
          BY <1>2, <1>4, <3>6, <4>2, <5>1 DEF Holds
      <4>4. Form(r, 5 + 1, 5 + L) = [items |-> items, loops |-> FALSE]
        BY <3>6, <4>1, <4>2, <4>3, FormItems
      <4>5. PICK t : t = Terminate(r, items)
        OBVIOUS
      <4>6. post = [loops |-> FALSE, data |-> PostData(r, items), rqst |-> t]
        <5>1. Form(r, HeadEnd(r) + 1, Size(r)) = [items |-> items, loops |-> FALSE]
          BY <1>3, <2>2, <3>6, <4>2, <4>4
        <5>2. r[1][1] = "post" /\ HasHeader(r, "form")
          BY <2>4, <3>3, <3>6
        <5>3. PICK f : f = Form(r, HeadEnd(r) + 1, Size(r))
          OBVIOUS
        <5>4. f.items = items /\ f.loops = FALSE
          BY <5>1, <5>3
        <5>5. post = [loops |-> f.loops, data |-> PostData(r, f.items), rqst |-> Terminate(r, f.items)]
          BY <3>4, <5>2, <5>3 DEF ParsePost
        <5> QED
          BY <4>5, <5>4, <5>5
      <4>7. PostData(r, items) = FormData(body)
        BY <1>4, <3>6, <4>1, <4>3, PostIsForm
      <4>8. Written(t, r, 5, body)
        BY <1>4, <3>6, <4>1, <4>3, <4>5, TerminateWrites
      <4>9. post.data = data /\ post.rqst = t /\ t \in Seq(Cells) /\ Len(t) = Len(r)
        BY <3>6, <4>6, <4>7, <4>8 DEF Written
      <4>10. ASSUME NEW i \in 1..Len(r), i > Len(seg)
             PROVE  t[i] = r[i] \/ (i = Len(seg) + 1 /\ t[i] = <<"nul", 0>>)
        <5>1. CASE t[i] = r[i]
          BY <5>1
        <5>2. CASE t[i] # r[i]
          <6>1. PICK s \in ItemStarts(body) : t[i] = <<"nul", 0>> /\ i = 5 + NulAt(body, s)
            BY <4>8, <5>2 DEF Written
          <6>2. NulAt(body, s) \in 1..(L + 1)
            BY <3>6, <4>2, NulApart
          <6>3. PICK z \in 1..(L + 1) : z = NulAt(body, s)
            BY <6>2
          <6>4. i = 5 + z /\ i > 5 + L
            BY <4>2, <4>10, <6>1, <6>3
          <6>5. i = (5 + L) + 1
            BY ONLY <6>4, z \in 1..(L + 1), L \in Nat
          <6> QED
            BY <4>2, <6>1, <6>5
        <5> QED
          BY <5>1, <5>2
      <4> QED
        BY <2>4, <2>5, <2>7, <3>1, <3>3, <3>4, <3>6, <4>9, <4>10 DEF Parsed
    <3> QED
      BY <3>5, <3>6
  <2> QED
    BY <2>8, <2>9, <2>10
<1> QED
  BY <1>2, <1>4, <1>7, <1>8

\* The parser on a text of one stray newline, or with a request behind it: the
\* newline is an empty request, or is dropped.
LEMMA NewlineRead ==
    ASSUME NEW r \in Seq(Cells), Len(r) >= 1, r[1] = <<"crlf", 0>>,
           Len(r) >= 2 => r[2][1] \in Method
    PROVE  /\ Complete(r) => /\ Size(r) = 1 /\ ParsePost(r).rqst = r
                             /\ ~HasHeader(r, "upgrade")
           /\ ~Complete(r) => ParseRequest(r).loops \/ ParseRequest(r).rqst = SubSeq(r, 2, Len(r))
<1>1. HeadEnd(r) = 1 /\ r[1][1] = "crlf" /\ Len(r) \in Nat
  BY DEF HeadEnd
<1>2. \A i \in 1..Len(r) : ~(i > 1 /\ i < 1)
  OBVIOUS
<1>3. ASSUME NEW k PROVE ~HasHeader(r, k)
  BY <1>1, <1>2 DEF HasHeader, At
<1>4. ContentLength(r) = 0
  <2>1. {i \in At(r, {"length"}) : i > 1 /\ i < HeadEnd(r)} = {}
    BY <1>1, <1>2 DEF At
  <2> QED
    BY <2>1 DEF ContentLength
<1>5. Size(r) = 1
  BY <1>1, <1>4 DEF Size
<1>6. ParsePost(r).rqst = r
  <2>1. ParsePost(r) = [loops |-> FALSE, data |-> {}, rqst |-> r]
    BY <1>1 DEF ParsePost
  <2> QED
    BY <2>1
<1>7. ASSUME ~Complete(r) PROVE ParseRequest(r).loops \/ ParseRequest(r).rqst = SubSeq(r, 2, Len(r))
  <2>1. At(r, {"blank"}) = {}
    <3>1. Len(r) - 1 >= 0
      BY <1>1
    <3> QED
      BY <1>1, <1>4, <1>7, <3>1 DEF Complete
  <2>2. ParseRequest(r).rqst = Scan(r).rqst
    BY <2>1 DEF ParseRequest
  <2>3. CASE Len(r) = 1
    <3>1. At(r, Method) = {}
      <4>1. \A i \in 1..Len(r) : i = 1
        BY <2>3
      <4> QED
        BY <1>1, <4>1 DEF At, Method
    <3>2. Scan(r).rqst = <<>>
      BY <3>1 DEF Scan
    <3>3. SubSeq(r, 2, 1) = <<>>
      OBVIOUS
    <3> QED
      BY <2>2, <2>3, <3>2, <3>3
  <2>4. CASE Len(r) # 1
    <3>1. Len(r) >= 2 /\ 2 \in 1..Len(r)
      <4>1. PICK l \in Nat : l = Len(r) /\ l >= 1 /\ l # 1
        BY <1>1, <2>4
      <4>2. l >= 2 /\ 2 \in 1..l
        BY ONLY <4>1
      <4> QED
        BY <4>1, <4>2
    <3>2. PICK M : M = At(r, Method)
      OBVIOUS
    <3>3. M = {i \in 1..Len(r) : r[i][1] \in Method}
      BY <3>2 DEF At
    <3>4. 2 \in M /\ M \subseteq Nat /\ 1 \notin M
      BY <1>1, <3>1, <3>3 DEF Method
    <3>5. Min(M) = 2
      <4>1. PICK m : m = Min(M)
        OBVIOUS
      <4>2. m \in M /\ m <= 2
        BY <3>4, <4>1, Least
      <4>3. m \in 1..Len(r) /\ m # 1
        BY <3>3, <3>4, <4>2
      <4>4. m = 2
        BY <1>1, <4>2, <4>3
      <4> QED
        BY <4>1, <4>4
    <3>6. Scan(r).rqst = SubSeq(r, 2, Len(r))
      <4>1. M # {}
        BY <3>4
      <4> QED
        BY <3>2, <3>5, <4>1 DEF Scan
    <3> QED
      BY <2>2, <3>6
  <2> QED
    BY <2>3, <2>4
<1> QED
  BY <1>3, <1>5, <1>6, <1>7

\* The parser on no text, or on the byte left of a form: nothing remains.
LEMMA NothingRead ==
    ASSUME NEW r, r = <<>> \/ r = << <<"nul", 0>> >>
    PROVE  ~Complete(r) /\ ParseRequest(r).rqst = <<>>
<1>1. \A i \in DOMAIN r : r[i][1] = "nul"
  <2>1. CASE r = <<>>
    BY <2>1
  <2>2. CASE r = << <<"nul", 0>> >>
    <3>1. DOMAIN r = 1..1 /\ r[1] = <<"nul", 0>>
      BY <2>2
    <3> QED
      BY <3>1
  <2> QED
    BY <2>1, <2>2
<1>2. At(r, {"blank"}) = {} /\ At(r, Method) = {}
  BY <1>1 DEF At, Method
<1>3. Scan(r).rqst = <<>>
  BY <1>2 DEF Scan
<1> QED
  BY <1>2, <1>3 DEF Complete, ParseRequest

-----------------------------------------------------------------------------
(* The stream of one connection                                             *)

IsSeq(s) == \E S : s \in Seq(S)

\* Cells seg are what the client sends for message m, as request number i or as a frame.
IsRequest(seg, m, i) ==
    \E kind, body :
        /\ kind \in HttpKinds
        /\ kind = "form" => IsForm(body)
        /\ seg = Lines(kind, i, body)
        /\ m = [kind |-> kind, id |-> i, data |-> IF kind = "form" THEN FormData(body) ELSE {}]
IsFrame(seg, m) ==
    \E op, payload, key :
        /\ op \in AllOpcodes /\ IsPayload(payload) /\ IsKey(key)
        /\ seg = Layout(op, payload, key)
        /\ m = [kind |-> op, data |-> payload]

\* Message i, which is m, has the cells g[i] in the stream X from b[i] on, and the
\* next one follows it, or the stray newline.
Placed(X, b, g, m, i) ==
    /\ IsRequest(g[i], m, i) \/ IsFrame(g[i], m)
    /\ b[i] + Len(g[i]) <= Len(X)
    /\ \A j \in 1..Len(g[i]) : X[b[i] + j] = g[i][j]
    /\ b[i + 1] <= Len(X)
    /\ \/ b[i + 1] = b[i] + Len(g[i])
       \/ /\ b[i + 1] = (b[i] + Len(g[i])) + 1
          /\ X[b[i + 1]] = <<"crlf", 0>> /\ m.kind \in {"get", "form"}

\* X is all the client ever sent: the messages sn, and with st a stray newline.
Stream(X, b, g, sn, st) ==
    /\ X \in Seq(Cells) /\ b \in [Nat -> Nat] /\ g \in [Nat -> Seq(Cells)] /\ IsSeq(sn)
    /\ b[1] = 0 /\ b[Len(sn) + 1] = Len(X)
    /\ \A i \in 1..Len(sn) : Placed(X, b, g, sn[i], i)
    /\ (Len(sn) > 0 /\ ~st) => b[Len(sn) + 1] = b[Len(sn)] + Len(g[Len(sn)])

\* Sequence u is s with x behind it.
Longer(u, s, x) ==
    /\ IsSeq(u) /\ Len(s) \in Nat /\ Len(u) = Len(s) + 1
    /\ \A i \in 1..Len(s) : u[i] = s[i]
    /\ u[Len(s) + 1] = x

\* A sequence, and one more element.
LEMMA Appended ==
    ASSUME NEW s, IsSeq(s), NEW x, NEW u, u = Append(s, x)
    PROVE  Longer(u, s, x)
<1>1. PICK S : s \in Seq(S)
  BY DEF IsSeq
<1>2. PICK U : U = S \cup {x}
  OBVIOUS
<1>3. s \in Seq(U)
  <2>1. S \subseteq U
    BY <1>2
  <2> QED
    BY <1>1, <2>1, Wider
<1>4. x \in U
  BY <1>2
<1>6. /\ u \in Seq(U) /\ Len(s) \in Nat /\ Len(u) = Len(s) + 1
      /\ \A i \in 1..Len(s) : u[i] = s[i]
      /\ u[Len(s) + 1] = x
  BY <1>3, <1>4
<1> QED
  BY <1>6 DEF IsSeq, Longer

\* A sequence has a length.
LEMMA SeqLen ==
    ASSUME NEW s, IsSeq(s)
    PROVE  Len(s) \in Nat
  BY DEF IsSeq

\* The client sends one more message.
LEMMA StreamSend ==
    ASSUME NEW X, NEW b, NEW g, NEW sn, NEW st, Stream(X, b, g, sn, st),
           NEW n, n = Len(sn), NEW seg \in Seq(Cells), NEW m,
           IsRequest(seg, m, n + 1) \/ IsFrame(seg, m),
           NEW Y, Y = X \o seg, NEW c, c = [b EXCEPT ![n + 2] = Len(X) + Len(seg)],
           NEW h, h = [g EXCEPT ![n + 1] = seg]
    PROVE  Stream(Y, c, h, Append(sn, m), st)
<1>1. /\ X \in Seq(Cells) /\ b \in [Nat -> Nat] /\ g \in [Nat -> Seq(Cells)] /\ IsSeq(sn)
      /\ b[1] = 0 /\ b[n + 1] = Len(X)
      /\ \A i \in 1..n : Placed(X, b, g, sn[i], i)
  BY DEF Stream
<1>2. PICK s : s = Append(sn, m)
  OBVIOUS
<1>3. /\ IsSeq(s) /\ n \in Nat /\ Len(s) = n + 1 /\ s[n + 1] = m
      /\ \A i \in 1..n : s[i] = sn[i]
  <2>1. Longer(s, sn, m)
    BY <1>1, <1>2, Appended
  <2> QED
    BY <2>1 DEF Longer
<1>4. PICK l \in Nat, k \in Nat : l = Len(X) /\ k = Len(seg)
  BY <1>1
<1>5. Y \in Seq(Cells) /\ Chain(Y, X, seg)
  BY <1>1, Joining
<1>6. /\ Len(Y) = l + k /\ (\A i \in 1..l : Y[i] = X[i])
      /\ \A i \in 1..k : Y[l + i] = seg[i]
  BY <1>4, <1>5 DEF Chain
<1>7. n + 1 \in Nat /\ n + 2 \in Nat /\ (n + 1) + 1 = n + 2 /\ n + 1 # n + 2 /\ 1 # n + 2
  BY <1>3
<1>8. /\ c \in [Nat -> Nat] /\ c[n + 2] = l + k /\ \A i \in Nat : i # n + 2 => c[i] = b[i]
  <2>1. l + k \in Nat /\ l + k = Len(X) + Len(seg)
    BY <1>4
  <2> QED
    BY <1>1, <1>7, <2>1
<1>9. /\ h \in [Nat -> Seq(Cells)] /\ h[n + 1] = seg /\ \A i \in Nat : i # n + 1 => h[i] = g[i]
  BY <1>1, <1>7
<1>10. ASSUME NEW i \in 1..n PROVE Placed(Y, c, h, s[i], i)
  <2>1. i \in Nat /\ i + 1 \in Nat /\ i # n + 2 /\ i + 1 # n + 2 /\ i # n + 1
    BY <1>3
  <2>2. c[i] = b[i] /\ c[i + 1] = b[i + 1] /\ h[i] = g[i] /\ s[i] = sn[i]
    BY <1>3, <1>8, <1>9, <2>1
  <2>3. PICK p \in Nat, q \in Nat, t \in Seq(Cells) : p = b[i] /\ q = b[i + 1] /\ t = g[i]
    BY <1>1, <2>1
  <2>4. /\ IsRequest(t, s[i], i) \/ IsFrame(t, s[i])
        /\ p + Len(t) <= l /\ q <= l
        /\ \A j \in 1..Len(t) : X[p + j] = t[j]
        /\ \/ q = p + Len(t)
           \/ q = (p + Len(t)) + 1 /\ X[q] = <<"crlf", 0>> /\ s[i].kind \in {"get", "form"}
    BY <1>1, <1>4, <2>2, <2>3 DEF Placed
  <2>5. p + Len(t) <= l + k /\ q <= l + k
    BY <2>4
  <2>6. \A j \in 1..Len(t) : Y[p + j] = t[j]
    <3>1. \A j \in 1..Len(t) : p + j \in 1..l
      BY <2>4
    <3> QED
      BY <1>6, <2>4, <3>1
  <2>7. q = (p + Len(t)) + 1 => Y[q] = X[q]
    <3>1. q = (p + Len(t)) + 1 => q \in 1..l
      BY <2>4
    <3> QED
      BY <1>6, <3>1
  <2> QED
    BY <1>6, <2>2, <2>3, <2>4, <2>5, <2>6, <2>7 DEF Placed
<1>11. c[n + 1] = l
  BY <1>1, <1>4, <1>7, <1>8
<1>12. Placed(Y, c, h, s[n + 1], n + 1)
  <2>1. c[(n + 1) + 1] = l + k
    BY <1>7, <1>8
  <2>2. l + k <= l + k
    OBVIOUS
  <2>3. h[n + 1] = seg /\ s[n + 1] = m /\ c[n + 1] = l /\ Len(Y) = l + k /\ Len(seg) = k
    BY <1>3, <1>4, <1>6, <1>9, <1>11
  <2> QED
    BY <1>6, <2>1, <2>2, <2>3 DEF Placed
<1>13. \A i \in 1..Len(s) : Placed(Y, c, h, s[i], i)
  <2>1. \A i \in 1..(n + 1) : i \in 1..n \/ i = n + 1
    BY <1>3
  <2> QED
    BY <1>3, <1>10, <1>12, <2>1
<1>14. c[1] = 0 /\ c[Len(s) + 1] = Len(Y) /\ c[Len(s) + 1] = c[Len(s)] + Len(h[Len(s)])
  <2>1. 1 \in Nat /\ c[1] = b[1]
    BY <1>7, <1>8
  <2> QED
    BY <1>1, <1>3, <1>4, <1>6, <1>7, <1>8, <1>9, <1>11, <2>1
<1> QED
  BY <1>2, <1>3, <1>5, <1>8, <1>9, <1>13, <1>14 DEF Stream

\* The client sends a stray newline.
LEMMA StreamStray ==
    ASSUME NEW X, NEW b, NEW g, NEW sn, Stream(X, b, g, sn, FALSE),
           NEW n, n = Len(sn), n > 0, sn[n].kind \in {"get", "form"},
           NEW Y, Y = Append(X, <<"crlf", 0>>), NEW c, c = [b EXCEPT ![n + 1] = Len(X) + 1]
    PROVE  Stream(Y, c, g, sn, TRUE)
<1>1. /\ X \in Seq(Cells) /\ b \in [Nat -> Nat] /\ g \in [Nat -> Seq(Cells)] /\ IsSeq(sn)
      /\ b[1] = 0 /\ b[n + 1] = Len(X) /\ b[n + 1] = b[n] + Len(g[n])
      /\ \A i \in 1..n : Placed(X, b, g, sn[i], i)
  BY DEF Stream
<1>2. n \in Nat /\ n + 1 \in Nat /\ 1 # n + 1 /\ 1 \in Nat /\ n # n + 1 /\ n \in 1..n
  <2>1. n \in Nat
    BY <1>1, SeqLen
  <2> QED
    BY <2>1
<1>3. PICK l \in Nat : l = Len(X)
  BY <1>1
<1>4. Y \in Seq(Cells) /\ Len(Y) = l + 1 /\ Y[l + 1] = <<"crlf", 0>> /\ \A i \in 1..l : Y[i] = X[i]
  <2>1. PICK x \in Cells : x = <<"crlf", 0>>
    BY DEF Cells, CellKinds
  <2>2. Y = Append(X, x) /\ X \in Seq(Cells)
    BY <1>1, <2>1
  <2>3. /\ Y \in Seq(Cells) /\ Len(Y) = Len(X) + 1 /\ Y[Len(X) + 1] = x
        /\ \A i \in 1..Len(X) : Y[i] = X[i]
    BY ONLY <2>2, x \in Cells
  <2> QED
    BY <1>3, <2>1, <2>3
<1>5. /\ c \in [Nat -> Nat] /\ c[n + 1] = l + 1 /\ \A i \in Nat : i # n + 1 => c[i] = b[i]
  <2>1. l + 1 \in Nat
    OBVIOUS
  <2> QED
    BY <1>1, <1>2, <1>3, <2>1
<1>6. ASSUME NEW i \in 1..n PROVE Placed(Y, c, g, sn[i], i)
  <2>1. i \in Nat /\ i + 1 \in Nat /\ i # n + 1
    BY <1>2
  <2>2. c[i] = b[i]
    BY <1>5, <2>1
  <2>3. PICK p \in Nat, q \in Nat, t \in Seq(Cells) : p = b[i] /\ q = b[i + 1] /\ t = g[i]
    BY <1>1, <2>1
  <2>4. /\ IsRequest(t, sn[i], i) \/ IsFrame(t, sn[i])
        /\ p + Len(t) <= l /\ q <= l
        /\ \A j \in 1..Len(t) : X[p + j] = t[j]
        /\ \/ q = p + Len(t)
           \/ q = (p + Len(t)) + 1 /\ X[q] = <<"crlf", 0>> /\ sn[i].kind \in {"get", "form"}
    BY <1>1, <1>3, <2>3 DEF Placed
  <2>5. p + Len(t) <= l + 1 /\ q <= l + 1
    BY <2>4
  <2>6. \A j \in 1..Len(t) : Y[p + j] = t[j]
    <3>1. \A j \in 1..Len(t) : p + j \in 1..l
      BY <2>4
    <3> QED
      BY <1>4, <2>4, <3>1
  <2>7. CASE i = n
    <3>1. c[i + 1] = l + 1 /\ p + Len(t) = l
      BY <1>1, <1>3, <1>5, <2>3, <2>7
    <3>2. c[i + 1] = (p + Len(t)) + 1
      BY <3>1
    <3>3. Y[c[i + 1]] = <<"crlf", 0>> /\ c[i + 1] <= Len(Y) /\ sn[i].kind \in {"get", "form"}
      BY <1>4, <2>7, <3>1
    <3> QED
      BY <1>4, <2>2, <2>3, <2>4, <2>5, <2>6, <3>2, <3>3 DEF Placed
  <2>8. CASE i # n
    <3>1. c[i + 1] = q
      <4>1. i + 1 # n + 1
        BY <1>2, <2>1, <2>8
      <4> QED
        BY <1>5, <2>1, <2>3, <4>1
    <3>2. q = (p + Len(t)) + 1 => Y[q] = X[q]
      <4>1. q = (p + Len(t)) + 1 => q \in 1..l
        BY <2>4
      <4> QED
        BY <1>4, <4>1
    <3> QED
      BY <1>4, <2>2, <2>3, <2>4, <2>5, <2>6, <3>1, <3>2 DEF Placed
  <2> QED
    BY <2>7, <2>8
<1>7. c[1] = 0 /\ c[n + 1] = Len(Y)
  BY <1>1, <1>2, <1>4, <1>5
<1> QED
  BY <1>1, <1>4, <1>5, <1>6, <1>7 DEF Stream

\* The text rq is what stands in the stream behind the first d cells.
Same(X, d, rq) == \A i \in 1..Len(rq) : rq[i] = X[d + i]

\* The first d cells of the stream are done with, then follow the text rq and the
\* cells wi on the way.
Cut(X, d, rq, wi) ==
    /\ d \in Nat /\ rq \in Seq(Cells) /\ wi \in Seq(Cells)
    /\ (d + Len(rq)) + Len(wi) = Len(X)
    /\ \A i \in 1..Len(wi) : wi[i] = X[(d + Len(rq)) + i]

\* The text begins with the next message, the one behind the first k; or with the
\* stray newline behind message k, over which the parser may have written, in
\* which case the callback has yet to return.
AtMessage(X, b, d, rq, k) == d = b[k + 1] /\ Same(X, d, rq)
AtNewline(X, b, g, d, rq, k, bz) ==
    /\ k > 0 /\ d = b[k] + Len(g[k]) /\ d + 1 = b[k + 1] /\ X[d + 1] = <<"crlf", 0>>
    /\ Same(X, d, rq) \/ (bz /\ rq = << <<"nul", 0>> >>)
Place(X, b, g, d, rq, wi, k, ws, bz) ==
    /\ Cut(X, d, rq, wi)
    /\ AtMessage(X, b, d, rq, k) \/ (~ws /\ AtNewline(X, b, g, d, rq, k, bz))

\* The stream Y is X with more behind it, that is on the way.
Grown(X, Y, d, rq, w) ==
    /\ Cut(Y, d, rq, w)
    /\ Same(X, d, rq) => Same(Y, d, rq)
    /\ \A i \in 1..Len(X) : Y[i] = X[i]

\* More is sent.
LEMMA CutGrow ==
    ASSUME NEW X \in Seq(Cells), NEW d, NEW rq, NEW wi, Cut(X, d, rq, wi), NEW seg \in Seq(Cells),
           NEW Y, Y = X \o seg, NEW w, w = wi \o seg
    PROVE  Grown(X, Y, d, rq, w)
<1>1. Y \in Seq(Cells) /\ Chain(Y, X, seg)
  BY Joining
<1>2. w \in Seq(Cells) /\ Chain(w, wi, seg)
  BY Joining DEF Cut
<1>3. PICK l \in Nat, q \in Nat, v \in Nat, k \in Nat :
          l = Len(X) /\ q = Len(rq) /\ v = Len(wi) /\ k = Len(seg)
  BY DEF Cut
<1>4. /\ d \in Nat /\ rq \in Seq(Cells) /\ (d + q) + v = l
      /\ \A i \in 1..v : wi[i] = X[(d + q) + i]
  BY <1>3 DEF Cut
<1>5. /\ Len(Y) = l + k /\ (\A i \in 1..l : Y[i] = X[i])
      /\ \A i \in 1..k : Y[l + i] = seg[i]
  BY <1>1, <1>3 DEF Chain
<1>6. /\ Len(w) = v + k /\ (\A i \in 1..v : w[i] = wi[i])
      /\ \A i \in 1..k : w[v + i] = seg[i]
  BY <1>2, <1>3 DEF Chain
<1>7. (d + q) + (v + k) = l + k
  BY <1>4
<1>8. ASSUME NEW i \in 1..(v + k) PROVE w[i] = Y[(d + q) + i]
  <2>1. CASE i <= v
    <3>1. i \in 1..v /\ (d + q) + i \in 1..l
      BY <1>4, <2>1
    <3> QED
      BY <1>4, <1>5, <1>6, <3>1
  <2>2. CASE i > v
    <3>1. PICK j \in 1..k : i = v + j
      <4>1. i - v \in 1..k /\ i = v + (i - v)
        BY <2>2
      <4> QED
        BY <4>1
    <3>2. (d + q) + i = l + j
      BY <1>4, <3>1
    <3> QED
      BY <1>5, <1>6, <3>1, <3>2
  <2>3. i <= v \/ i > v
    BY ONLY i \in 1..(v + k), v \in Nat, k \in Nat
  <2> QED
    BY ONLY <2>1, <2>2, <2>3
<1>9. Cut(Y, d, rq, w)
  BY <1>2, <1>3, <1>4, <1>5, <1>6, <1>7, <1>8 DEF Cut
<1>10. Same(X, d, rq) => Same(Y, d, rq)
  <2>1. \A i \in 1..q : d + i \in 1..l
    BY <1>4
  <2> QED
    BY <1>3, <1>5, <2>1 DEF Same
<1> QED
  BY <1>3, <1>5, <1>9, <1>10 DEF Grown

\* What is done with stays so when more is sent.
LEMMA PlaceSend ==
    ASSUME NEW X \in Seq(Cells), NEW b, NEW g, NEW d, NEW rq, NEW wi, NEW k \in Nat, NEW ws, NEW bz,
           Place(X, b, g, d, rq, wi, k, ws, bz), NEW seg \in Seq(Cells),
           NEW Y, Y = X \o seg, NEW w, w = wi \o seg, NEW c, NEW h,
           c[k + 1] = b[k + 1], b[k + 1] <= Len(X), k > 0 => c[k] = b[k] /\ h[k] = g[k]
    PROVE  Place(Y, c, h, d, rq, w, k, ws, bz)
<1>1. Cut(X, d, rq, wi) /\ d \in Nat
  BY DEF Place, Cut
<1>2. /\ Cut(Y, d, rq, w)
      /\ Same(X, d, rq) => Same(Y, d, rq)
      /\ \A i \in 1..Len(X) : Y[i] = X[i]
  <2>1. Grown(X, Y, d, rq, w)
    BY <1>1, CutGrow
  <2> QED
    BY <2>1 DEF Grown
<1>3. CASE AtMessage(X, b, d, rq, k)
  BY <1>2, <1>3 DEF Place, AtMessage
<1>4. CASE ~ws /\ AtNewline(X, b, g, d, rq, k, bz)
  <2>1. d + 1 \in 1..Len(X)
    BY <1>1, <1>4 DEF AtNewline
  <2> QED
    BY <1>2, <1>4, <2>1 DEF Place, AtNewline
<1> QED
  BY <1>3, <1>4 DEF Place

\* A stray newline is sent, behind a message that may be done with.
LEMMA PlaceStray ==
    ASSUME NEW X, NEW b, NEW g, NEW sn, NEW n, n = Len(sn), n > 0, Stream(X, b, g, sn, FALSE),
           NEW d, NEW rq, NEW wi, NEW k \in 0..n, NEW bz, Place(X, b, g, d, rq, wi, k, FALSE, bz),
           NEW Y, Y = Append(X, <<"crlf", 0>>), NEW w, w = Append(wi, <<"crlf", 0>>),
           NEW c, c = [b EXCEPT ![n + 1] = Len(X) + 1]
    PROVE  Place(Y, c, g, d, rq, w, k, FALSE, bz)
<1>1. /\ X \in Seq(Cells) /\ b \in [Nat -> Nat] /\ g \in [Nat -> Seq(Cells)] /\ n \in Nat
      /\ b[n + 1] = Len(X) /\ b[n + 1] = b[n] + Len(g[n])
      /\ \A i \in 1..n : Placed(X, b, g, sn[i], i)
  <2>1. IsSeq(sn)
    BY DEF Stream
  <2> QED
    BY <2>1, SeqLen DEF Stream
<1>2. PICK seg : seg = << <<"crlf", 0>> >>
  OBVIOUS
<1>3. seg \in Seq(Cells) /\ Len(seg) = 1 /\ seg[1] = <<"crlf", 0>>
  <2>1. <<"crlf", 0>> \in Cells
    BY DEF Cells, CellKinds
  <2> QED
    BY <1>2, <2>1
<1>4. Y = X \o seg /\ w = wi \o seg
  <2>1. wi \in Seq(Cells) /\ X \in Seq(Cells)
    BY <1>1 DEF Place, Cut
  <2>2. PICK x \in Cells : x = <<"crlf", 0>>
    BY DEF Cells, CellKinds
  <2>3. Append(X, x) = X \o <<x>> /\ Append(wi, x) = wi \o <<x>>
    BY ONLY <2>1, x \in Cells, AppendIsConcat
  <2> QED
    BY <1>2, <2>2, <2>3
<1>5. k \in Nat /\ k + 1 \in Nat /\ n + 1 \in Nat /\ (k = n \/ k < n)
  BY <1>1
<1>6. k # n => c[k + 1] = b[k + 1] /\ b[k + 1] <= Len(X)
  <2> SUFFICES ASSUME k # n PROVE c[k + 1] = b[k + 1] /\ b[k + 1] <= Len(X)
    OBVIOUS
  <2>0. k < n /\ n \in Nat
    BY <1>1, <1>5
  <2>1. k + 1 # n + 1 /\ k + 1 \in 1..n
    BY ONLY <2>0, <1>5
  <2>2. c[k + 1] = b[k + 1]
    BY <1>1, <1>5, <2>1
  <2>3. b[k + 1] + Len(g[k + 1]) <= Len(X)
    BY <1>1, <2>1 DEF Placed
  <2>4. b[k + 1] \in Nat /\ Len(g[k + 1]) \in Nat
    <3>1. g[k + 1] \in Seq(Cells)
      BY <1>1, <1>5
    <3> QED
      BY <1>1, <1>5, <3>1
  <2>7. Len(X) \in Nat
    BY <1>1
  <2>5. PICK x \in Nat, y \in Nat, l \in Nat : x = b[k + 1] /\ y = Len(g[k + 1]) /\ l = Len(X)
    BY ONLY <2>4, <2>7
  <2>6. x <= l
    BY <2>3, <2>5
  <2> QED
    BY <2>2, <2>5, <2>6
<1>7. c[k] = b[k]
  <2>1. k # n + 1
    BY <1>1
  <2> QED
    BY <1>1, <1>5, <2>1
<1>8. CASE k # n
  BY <1>1, <1>3, <1>4, <1>5, <1>6, <1>7, <1>8, PlaceSend
<1>9. CASE k = n
  <2>1. Cut(X, d, rq, wi) /\ d \in Nat
    BY DEF Place, Cut
  <2>2. /\ Cut(Y, d, rq, w)
        /\ Same(X, d, rq) => Same(Y, d, rq)
    <3>1. Grown(X, Y, d, rq, w)
      BY <1>1, <1>3, <1>4, <2>1, CutGrow
    <3> QED
      BY <3>1 DEF Grown
  <2>3. AtMessage(X, b, d, rq, k)
    <3>1. ASSUME AtNewline(X, b, g, d, rq, k, bz) PROVE FALSE
      <4>1. d = b[n] + Len(g[n]) /\ d + 1 = b[n + 1]
        BY <1>9, <3>1 DEF AtNewline
      <4> QED
        BY <1>1, <2>1, <4>1
    <3> QED
      BY <3>1 DEF Place
  <2>4. d = b[k] + Len(g[k]) /\ d = Len(X) /\ Same(Y, d, rq) /\ k > 0
    BY <1>1, <1>9, <2>2, <2>3 DEF AtMessage
  <2>5. c[k + 1] = d + 1
    BY <1>1, <1>5, <1>9, <2>4
  <2>6. Y[d + 1] = <<"crlf", 0>>
    <3>1. Chain(Y, X, seg)
      BY <1>1, <1>3, <1>4, Joining
    <3> QED
      BY <1>3, <2>4, <3>1 DEF Chain
  <2> QED
    BY <1>7, <2>2, <2>4, <2>5, <2>6 DEF Place, AtNewline
<1> QED
  BY <1>8, <1>9

\* A segment arrives.
LEMMA PlaceRecv ==
    ASSUME NEW X \in Seq(Cells), NEW b, NEW g, NEW d, NEW rq, NEW wi, NEW k, NEW ws,
           Place(X, b, g, d, rq, wi, k, ws, FALSE), NEW n \in 1..Len(wi),
           NEW r, r = rq \o SubSeq(wi, 1, n), NEW w, w = SubSeq(wi, n + 1, Len(wi)), NEW bz
    PROVE  Place(X, b, g, d, r, w, k, ws, bz)
<1>1. PICK l \in Nat, q \in Nat, v \in Nat : l = Len(X) /\ q = Len(rq) /\ v = Len(wi)
  BY DEF Place, Cut
<1>2. /\ d \in Nat /\ rq \in Seq(Cells) /\ wi \in Seq(Cells) /\ (d + q) + v = l
      /\ \A i \in 1..v : wi[i] = X[(d + q) + i]
  BY <1>1 DEF Place, Cut
<1>3. Same(X, d, rq)
  BY DEF Place, AtMessage, AtNewline
<1>4. n \in Nat /\ n <= v /\ 0 <= n /\ n >= 1
  BY <1>1
<1>5. PICK s : s = SubSeq(wi, 0 + 1, n)
  OBVIOUS
<1>6. s \in Seq(Cells) /\ Len(s) = n /\ \A i \in 1..n : s[i] = wi[i]
  <2>1. s \in Seq(Cells) /\ Slice(s, wi, 0, n)
    BY <1>1, <1>2, <1>4, <1>5, Parting
  <2> QED
    BY <1>4, <2>1 DEF Slice
<1>7. w \in Seq(Cells) /\ Len(w) = v - n /\ \A i \in 1..(v - n) : w[i] = wi[n + i]
  <2>1. w = SubSeq(wi, n + 1, v) /\ v <= Len(wi)
    BY <1>1
  <2>2. w \in Seq(Cells) /\ Slice(w, wi, n, v)
    BY <1>2, <1>4, <2>1, Parting
  <2> QED
    BY <2>2 DEF Slice
<1>8. r \in Seq(Cells) /\ Chain(r, rq, s)
  <2>1. r = rq \o s
    BY <1>5
  <2> QED
    BY <1>2, <1>6, <2>1, Joining
<1>9. /\ Len(r) = q + n /\ (\A i \in 1..q : r[i] = rq[i])
      /\ \A i \in 1..n : r[q + i] = s[i]
  BY <1>1, <1>6, <1>8 DEF Chain
<1>10. (d + (q + n)) + (v - n) = l
  BY <1>2, <1>4
<1>11. ASSUME NEW i \in 1..(v - n) PROVE w[i] = X[(d + (q + n)) + i]
  <2>1. n + i \in 1..v /\ (d + q) + (n + i) = (d + (q + n)) + i
    BY <1>2, <1>4
  <2> QED
    BY <1>2, <1>7, <2>1
<1>12. Same(X, d, r)
  <2>1. ASSUME NEW i \in 1..(q + n) PROVE r[i] = X[d + i]
    <3>1. CASE i <= q
      <4>1. i \in 1..q
        BY <3>1
      <4> QED
        BY <1>1, <1>3, <1>9, <4>1 DEF Same
    <3>2. CASE i > q
      <4>1. PICK j \in 1..n : i = q + j
        <5>1. i - q \in 1..n /\ i = q + (i - q)
          BY <1>4, <3>2
        <5> QED
          BY <5>1
      <4>2. j \in 1..v /\ (d + q) + j = d + i
        <5>1. d \in Nat
          BY <1>2
        <5> QED
          BY ONLY <1>4, <4>1, <5>1, q \in Nat, v \in Nat, j \in 1..n
      <4>3. r[q + j] = s[j] /\ s[j] = wi[j]
        BY <1>6, <1>9
      <4>4. wi[j] = X[(d + q) + j]
        BY <1>2, <4>2
      <4> QED
        BY <4>1, <4>2, <4>3, <4>4
    <3>3. i <= q \/ i > q
      BY ONLY i \in 1..(q + n), q \in Nat, <1>4
    <3> QED
      BY ONLY <3>1, <3>2, <3>3
  <2> QED
    BY <1>9, <2>1 DEF Same
<1>13. Cut(X, d, r, w)
  BY <1>1, <1>2, <1>7, <1>8, <1>9, <1>10, <1>11 DEF Cut
<1> QED
  BY <1>12, <1>13 DEF Place, AtMessage, AtNewline

\* Text r is p, of the length of rq, without its first m cells.
Dropped(X, d, rq, wi, m, p, r) ==
    /\ Cut(X, d + m, r, wi) /\ Len(r) = Len(rq) - m
    /\ \A i \in 1..Len(r) : r[i] = p[m + i]

\* The first m cells of the text are done with.
LEMMA CutDrop ==
    ASSUME NEW X \in Seq(Cells), NEW d, NEW rq, NEW wi, Cut(X, d, rq, wi), NEW m \in Nat, m <= Len(rq),
           NEW p \in Seq(Cells), Len(p) = Len(rq), NEW r, r = ResetRqst(p, m)
    PROVE  Dropped(X, d, rq, wi, m, p, r)
<1>1. PICK q \in Nat : q = Len(rq) /\ m <= q
  BY DEF Cut
<1>2. r = SubSeq(p, m + 1, q) /\ q <= Len(p)
  BY <1>1 DEF ResetRqst
<1>3. r \in Seq(Cells) /\ Slice(r, p, m, q)
  BY <1>1, <1>2, Parting
<1>4. Len(r) = q - m /\ \A i \in 1..Len(r) : r[i] = p[m + i]
  BY <1>3 DEF Slice
<1>5. d \in Nat /\ d + m \in Nat /\ (d + m) + (q - m) = d + q
  BY <1>1 DEF Cut
<1>6. Cut(X, d + m, r, wi)
  BY <1>1, <1>3, <1>4, <1>5 DEF Cut
<1> QED
  BY <1>1, <1>4, <1>6 DEF Dropped

\* The lengths of the parts of a stream.
LEMMA CutLens ==
    ASSUME NEW X, NEW d, NEW rq, NEW wi, Cut(X, d, rq, wi)
    PROVE  /\ d \in Nat /\ Len(rq) \in Nat /\ Len(wi) \in Nat /\ Len(X) \in Nat
           /\ (d + Len(rq)) + Len(wi) = Len(X)
<1>1. d \in Nat /\ Len(rq) \in Nat /\ Len(wi) \in Nat /\ (d + Len(rq)) + Len(wi) = Len(X)
  BY DEF Cut
<1> QED
  BY <1>1

\* A text that stands at the end of the stream is empty.
LEMMA NothingLeft ==
    ASSUME NEW X, NEW b, NEW g, NEW sn, NEW st, Stream(X, b, g, sn, st), NEW d, NEW rq, NEW wi,
           Cut(X, d, rq, wi), NEW k, k = Len(sn), AtMessage(X, b, d, rq, k)
    PROVE  rq = <<>>
<1>1. d = Len(X) /\ rq \in Seq(Cells)
  BY DEF AtMessage, Stream, Cut
<1>2. PICK q \in Nat, v \in Nat : q = Len(rq) /\ v = Len(wi) /\ (d + q) + v = d /\ d \in Nat
  BY <1>1, CutLens
<1>3. q = 0
  BY <1>2
<1>4. rq \in Seq(Cells) /\ Len(rq) = 0
  BY <1>1, <1>2, <1>3
<1> QED
  BY ONLY <1>4, EmptySeq

\* The text is the beginning of the next message, or begins with it.
LEMMA NextAgrees ==
    ASSUME NEW X, NEW b, NEW g, NEW sn, NEW st, Stream(X, b, g, sn, st), NEW d, NEW rq, NEW wi,
           Cut(X, d, rq, wi), NEW k \in Nat, k < Len(sn), AtMessage(X, b, d, rq, k)
    PROVE  /\ Placed(X, b, g, sn[k + 1], k + 1) /\ Agree(rq, g[k + 1])
           /\ g[k + 1] \in Seq(Cells) /\ k + 1 \in 1..Len(sn)
<1>1. Len(sn) \in Nat
  BY SeqLen DEF Stream
<1>2. k + 1 \in 1..Len(sn)
  BY <1>1
<1>3. Placed(X, b, g, sn[k + 1], k + 1) /\ g[k + 1] \in Seq(Cells)
  BY <1>2 DEF Stream
<1>4. d = b[k + 1] /\ \A i \in 1..Len(rq) : rq[i] = X[d + i]
  BY DEF AtMessage, Same
<1>5. PICK q \in Nat, l \in Nat : q = Len(rq) /\ l = Len(g[k + 1])
  <2>1. Len(g[k + 1]) \in Nat
    BY <1>3
  <2> QED
    BY <2>1, CutLens
<1>6. \A i \in 1..q : i <= l => i \in 1..l
  OBVIOUS
<1>7. \A i \in 1..l : X[d + i] = g[k + 1][i]
  BY <1>3, <1>4, <1>5 DEF Placed
<1>8. Agree(rq, g[k + 1])
  BY <1>4, <1>5, <1>6, <1>7 DEF Agree, Cut
<1> QED
  BY <1>2, <1>3, <1>8

\* A message of which the kind is that of a request is a request, and of a frame a frame.
LEMMA KindTells ==
    ASSUME NEW X, NEW b, NEW g, NEW m, NEW i, Placed(X, b, g, m, i)
    PROVE  /\ m.kind \in HttpKinds => IsRequest(g[i], m, i)
           /\ m.kind \in AllOpcodes => IsFrame(g[i], m)
<1>1. HttpKinds \cap AllOpcodes = {}
  BY DEF HttpKinds, AllOpcodes, TEXT, BIN, CLOSE, PING, PONG
<1>2. IsRequest(g[i], m, i) => m.kind \in HttpKinds
  BY DEF IsRequest
<1>3. IsFrame(g[i], m) => m.kind \in AllOpcodes
  BY DEF IsFrame
<1> QED
  BY <1>1, <1>2, <1>3 DEF Placed

\* Text p is rq behind the first l cells, but for a byte that was written behind a form.
Kept(p, rq, l, kind) ==
    \A i \in 1..Len(rq) : i > l =>
        p[i] = rq[i] \/ (kind = "form" /\ i = l + 1 /\ p[i] = <<"nul", 0>>)

\* Text r stands behind the first d cells of the stream, where message k ends.
Behind(X, b, g, d, r, wi, k, kind) ==
    /\ Cut(X, d, r, wi)
    /\ \/ AtMessage(X, b, d, r, k)
       \/ kind \in {"get", "form"} /\ AtNewline(X, b, g, d, r, k, TRUE)

\* A message is done with: what follows is the next one, or the newline, over
\* which the parser wrote only behind a form, which is the last message.
LEMMA MessageDone ==
    ASSUME NEW X, NEW b, NEW g, NEW sn, NEW st, Stream(X, b, g, sn, st), NEW d, NEW rq, NEW wi,
           Cut(X, d, rq, wi), NEW k \in Nat, k < Len(sn), AtMessage(X, b, d, rq, k),
           NEW kind, kind = sn[k + 1].kind, NEW l, l = Len(g[k + 1]), l <= Len(rq),
           NEW p \in Seq(Cells), Len(p) = Len(rq), Kept(p, rq, l, kind),
           kind = "form" => k + 1 = Len(sn), NEW r, r = ResetRqst(p, l)
    PROVE  Behind(X, b, g, d + l, r, wi, k + 1, kind)
<1>1. /\ Placed(X, b, g, sn[k + 1], k + 1) /\ g[k + 1] \in Seq(Cells) /\ X \in Seq(Cells)
      /\ b[Len(sn) + 1] = Len(X) /\ b \in [Nat -> Nat] /\ d = b[k + 1]
  BY NextAgrees DEF Stream, AtMessage
<1>2. l \in Nat /\ d \in Nat /\ d + l \in Nat
  <2>1. l \in Nat
    <3>1. g[k + 1] \in Seq(Cells)
      BY <1>1
    <3>2. Len(g[k + 1]) \in Nat
      BY ONLY <3>1
    <3> QED
      BY <3>2
  <2>2. d \in Nat
    BY CutLens
  <2> QED
    BY <2>1, <2>2
<1>3. /\ Cut(X, d + l, r, wi) /\ Len(r) = Len(rq) - l
      /\ \A i \in 1..Len(r) : r[i] = p[l + i]
  <2>1. Dropped(X, d, rq, wi, l, p, r)
    BY <1>1, <1>2, CutDrop
  <2> QED
    BY <2>1 DEF Dropped
<1>4. PICK q \in Nat, z \in Nat, v \in Nat, L \in Nat :
          /\ q = Len(rq) /\ z = Len(r) /\ v = Len(wi) /\ L = Len(X) /\ q = z + l
          /\ ((d + l) + z) + v = L
  <2>1. Len(rq) \in Nat /\ Len(r) \in Nat /\ Len(wi) \in Nat /\ Len(X) \in Nat
    BY <1>3, CutLens
  <2>2. Len(rq) = Len(r) + l
    BY ONLY <1>2, <1>3, <2>1
  <2>3. ((d + l) + Len(r)) + Len(wi) = Len(X)
    BY <1>3 DEF Cut
  <2> QED
    BY <2>1, <2>2, <2>3
<1>5. ASSUME NEW i \in 1..z PROVE r[i] = X[(d + l) + i] \/ (kind = "form" /\ i = 1 /\ r[i] = <<"nul", 0>>)
  <2>1. l + i \in 1..q /\ l + i > l /\ (l + i = l + 1 <=> i = 1) /\ (d + l) + i = d + (l + i)
    BY ONLY <1>2, <1>4, i \in 1..z
  <2>2. rq[l + i] = X[d + (l + i)]
    BY <1>4, <2>1 DEF AtMessage, Same
  <2>3. r[i] = p[l + i]
    BY <1>3, <1>4
  <2>4. p[l + i] = rq[l + i] \/ (kind = "form" /\ l + i = l + 1 /\ p[l + i] = <<"nul", 0>>)
    BY <1>4, <2>1 DEF Kept
  <2> QED
    BY <2>1, <2>2, <2>3, <2>4
<1>6. (k + 1) + 1 \in Nat /\ k + 1 > 0
  OBVIOUS
<1>7. PICK e \in Nat : e = b[(k + 1) + 1]
  BY <1>1, <1>6
<1>8. \/ e = d + l
      \/ e = (d + l) + 1 /\ X[e] = <<"crlf", 0>> /\ kind \in {"get", "form"}
  BY <1>1, <1>7 DEF Placed
<1>9. kind = "form" => e = L
  BY <1>1, <1>4, <1>7
<1>10. CASE e = d + l
  <2>1. Same(X, d + l, r)
    <3>1. kind = "form" => z = 0
      <4> SUFFICES ASSUME kind = "form" PROVE z = 0
        OBVIOUS
      <4>1. e = L
        BY <1>9
      <4> QED
        BY ONLY <1>2, <1>4, <1>10, <4>1
    <3>2. \A i \in 1..z : kind # "form"
      BY <3>1
    <3> QED
      BY <1>4, <1>5, <3>2 DEF Same
  <2> QED
    BY <1>3, <1>7, <1>10, <2>1 DEF AtMessage, Behind
<1>11. CASE e = (d + l) + 1 /\ X[e] = <<"crlf", 0>> /\ kind \in {"get", "form"}
  <2>1. Same(X, d + l, r) \/ r = << <<"nul", 0>> >>
    <3>1. CASE Same(X, d + l, r)
      BY <3>1
    <3>2. CASE ~Same(X, d + l, r)
      <4>1. PICK i \in 1..z : kind = "form" /\ i = 1 /\ r[i] = <<"nul", 0>>
        BY <1>4, <1>5, <3>2 DEF Same
      <4>2. z = 1
        <5>1. e = L /\ z >= 1
          BY <1>9, <4>1
        <5>2. e = (d + l) + 1
          BY <1>11
        <5> QED
          BY ONLY <1>2, <1>4, <5>1, <5>2
      <4>3. r \in Seq(Cells) /\ Len(r) = 1 /\ r[1] = <<"nul", 0>>
        BY <1>3, <1>4, <4>1, <4>2 DEF Cut
      <4>4. PICK x : x = <<"nul", 0>>
        OBVIOUS
      <4>5. r[1] = x
        BY <4>3, <4>4
      <4>6. r = <<x>>
        BY <4>3, <4>5
      <4> QED
        BY <4>4, <4>6
    <3> QED
      BY <3>1, <3>2
  <2>2. AtNewline(X, b, g, d + l, r, k + 1, TRUE)
    BY <1>1, <1>6, <1>7, <1>11, <2>1 DEF AtNewline
  <2> QED
    BY <1>3, <1>11, <2>2 DEF Behind
<1> QED
  BY <1>8, <1>10, <1>11

\* The stray newline is done with.
LEMMA NewlineDone ==
    ASSUME NEW X \in Seq(Cells), NEW b, NEW g, NEW d, NEW rq, NEW wi, NEW k, NEW bz,
           Cut(X, d, rq, wi), AtNewline(X, b, g, d, rq, k, bz), Len(rq) >= 1,
           NEW r, r = SubSeq(rq, 2, Len(rq))
    PROVE  Cut(X, d + 1, r, wi) /\ AtMessage(X, b, d + 1, r, k)
<1>1. rq \in Seq(Cells) /\ d \in Nat /\ Len(rq) \in Nat /\ 1 \in Nat /\ 1 <= Len(rq)
  BY DEF Cut
<1>2. r = ResetRqst(rq, 1)
  <2>1. 1 + 1 = 2
    OBVIOUS
  <2> QED
    BY <2>1 DEF ResetRqst
<1>3. /\ Cut(X, d + 1, r, wi) /\ Len(r) = Len(rq) - 1
      /\ \A i \in 1..Len(r) : r[i] = rq[1 + i]
  <2>1. Dropped(X, d, rq, wi, 1, rq, r)
    BY <1>1, <1>2, CutDrop
  <2> QED
    BY <2>1 DEF Dropped
<1>4. Same(X, d + 1, r)
  <2>1. CASE Same(X, d, rq)
    <3>1. ASSUME NEW i \in 1..Len(r) PROVE r[i] = X[(d + 1) + i]
      <4>1. i \in 1..(Len(rq) - 1)
        BY <1>3
      <4>2. 1 + i \in 1..Len(rq) /\ (d + 1) + i = d + (1 + i)
        BY ONLY <1>1, <4>1
      <4> QED
        BY <1>3, <2>1, <4>2 DEF Same
    <3> QED
      BY <3>1 DEF Same
  <2>2. CASE rq = << <<"nul", 0>> >>
    <3>1. Len(rq) = 1
      BY <2>2
    <3>2. Len(r) = 0
      BY <1>3, <3>1
    <3> QED
      BY <3>2 DEF Same
  <2> QED
    BY <2>1, <2>2 DEF AtNewline
<1> QED
  BY <1>3, <1>4 DEF AtMessage, AtNewline

-----------------------------------------------------------------------------
(* The messages of one connection                                           *)

\* The messages hd are taken, a part of the messages sn that were sent.  Requests
\* come before frames; of the requests that are not taken only the last may be
\* other than a get.  A close frame is the last message, and is answered once.
Protocol(sn, hd, ws, cs) ==
    /\ IsSeq(hd) /\ Len(hd) <= Len(sn) /\ \A i \in 1..Len(hd) : hd[i] = sn[i]
    /\ ~ws => \A i \in 1..Len(sn) :
                 sn[i].kind \in HttpKinds /\ (i > Len(hd) /\ i < Len(sn) => sn[i].kind = "get")
    /\ ws => /\ Len(sn) > 0 /\ sn[Len(sn)].kind \notin {"get", "form"}
             /\ \A i \in 1..Len(sn) : i > Len(hd) => sn[i].kind \in AllOpcodes
    /\ \A i \in 1..Len(sn) : sn[i].kind = CLOSE => i = Len(sn)
    /\ cs => Len(hd) > 0 /\ hd[Len(hd)].kind = CLOSE

\* The client sends a message.
LEMMA ProtocolSend ==
    ASSUME NEW sn, IsSeq(sn), NEW hd, NEW ws, NEW cs, Protocol(sn, hd, ws, cs), NEW m,
           Len(sn) > 0 => /\ sn[Len(sn)].kind \in {"get", TEXT, BIN, PING} \/ Len(hd) = Len(sn)
                          /\ sn[Len(sn)].kind # CLOSE,
           ~ws => m.kind \in HttpKinds, ws => m.kind \in AllOpcodes
    PROVE  Protocol(Append(sn, m), hd, ws, cs)
<1>1. PICK s : s = Append(sn, m)
  OBVIOUS
<1>2. PICK n \in Nat : n = Len(sn)
  BY SeqLen
<1>3. Len(s) = n + 1 /\ s[n + 1] = m /\ \A i \in 1..n : s[i] = sn[i]
  BY <1>1, <1>2, Appended DEF Longer
<1>4. IsSeq(hd) /\ Len(hd) <= n /\ Len(hd) \in Nat /\ \A i \in 1..Len(hd) : hd[i] = sn[i]
  BY <1>2, SeqLen DEF Protocol
<1>5. Len(hd) <= n + 1 /\ \A i \in 1..Len(hd) : hd[i] = s[i]
  <2>1. \A i \in 1..Len(hd) : i \in 1..n
    BY <1>4
  <2>2. Len(hd) <= n + 1
    BY <1>4
  <2> QED
    BY <1>3, <1>4, <2>1, <2>2
<1>6. ASSUME ~ws, NEW i \in 1..(n + 1)
      PROVE  s[i].kind \in HttpKinds /\ (i > Len(hd) /\ i < n + 1 => s[i].kind = "get")
  <2>1. CASE i = n + 1
    BY <1>3, <1>6, <2>1
  <2>2. CASE i \in 1..n /\ i # n
    <3>1. i < n
      BY <2>2
    <3> QED
      BY <1>2, <1>3, <1>6, <2>2, <3>1 DEF Protocol
  <2>3. CASE i = n /\ i \in 1..n
    <3>1. sn[n].kind \in HttpKinds
      BY <1>2, <1>6, <2>3 DEF Protocol
    <3>2. n > 0 /\ (i > Len(hd) => Len(hd) # n)
      BY <1>4, <2>3
    <3>3. i > Len(hd) => sn[n].kind \in {"get", TEXT, BIN, PING}
      BY <1>2, <3>2
    <3>4. HttpKinds \cap {TEXT, BIN, PING} = {}
      BY DEF HttpKinds, TEXT, BIN, PING
    <3> QED
      BY <1>3, <2>3, <3>1, <3>3, <3>4
  <2>4. i = n + 1 \/ (i \in 1..n /\ i # n) \/ (i = n /\ i \in 1..n)
    OBVIOUS
  <2> QED
    BY <2>1, <2>2, <2>3, <2>4
<1>7. ASSUME ws PROVE /\ s[n + 1].kind \notin {"get", "form"}
                      /\ \A i \in 1..(n + 1) : i > Len(hd) => s[i].kind \in AllOpcodes
  <2>1. s[n + 1].kind \in AllOpcodes
    BY <1>3, <1>7
  <2>2. \A i \in 1..n : i > Len(hd) => s[i].kind \in AllOpcodes
    BY <1>2, <1>3, <1>7 DEF Protocol
  <2>3. \A i \in 1..(n + 1) : i \in 1..n \/ i = n + 1
    OBVIOUS
  <2>4. "get" \notin AllOpcodes /\ "form" \notin AllOpcodes
    BY DEF AllOpcodes, TEXT, BIN, CLOSE, PING, PONG
  <2> QED
    BY <2>1, <2>2, <2>3, <2>4
<1>8. \A i \in 1..(n + 1) : s[i].kind = CLOSE => i = n + 1
  <2>1. ASSUME NEW i \in 1..n, s[i].kind = CLOSE PROVE FALSE
    <3>1. i = n /\ sn[n].kind = CLOSE
      BY <1>2, <1>3, <2>1 DEF Protocol
    <3>2. n > 0
      BY <3>1
    <3> QED
      BY <1>2, <3>1, <3>2
  <2>2. \A i \in 1..(n + 1) : i \in 1..n \/ i = n + 1
    OBVIOUS
  <2> QED
    BY <2>1, <2>2
<1>9. n + 1 > 0
  OBVIOUS
<1>10. cs => Len(hd) > 0 /\ hd[Len(hd)].kind = CLOSE
  BY DEF Protocol
<1> QED
  BY <1>1, <1>3, <1>4, <1>5, <1>6, <1>7, <1>8, <1>9, <1>10 DEF Protocol

\* The next message is taken, and is of its kind.
LEMMA ProtocolHandle ==
    ASSUME NEW sn, IsSeq(sn), NEW hd, NEW ws, NEW cs, Protocol(sn, hd, ws, cs), Len(hd) < Len(sn),
           NEW m, m = sn[Len(hd) + 1],
           NEW t, t = (ws \/ m.kind = "upgrade"), m.kind = "upgrade" => Len(hd) + 1 = Len(sn),
           NEW c, c = (cs \/ m.kind = CLOSE)
    PROVE  Protocol(sn, Append(hd, m), t, c) /\ ~cs
<1>1. PICK h : h = Append(hd, m)
  OBVIOUS
<1>2. PICK n \in Nat, k \in Nat : n = Len(sn) /\ k = Len(hd) /\ k < n
  BY SeqLen DEF Protocol
<1>3. IsSeq(h) /\ Len(h) = k + 1 /\ h[k + 1] = m /\ \A i \in 1..k : h[i] = hd[i]
  <2>1. IsSeq(hd)
    BY DEF Protocol
  <2>2. Longer(h, hd, m)
    BY <1>1, <2>1, Appended
  <2> QED
    BY <1>2, <2>2 DEF Longer
<1>4. k + 1 <= n /\ k + 1 \in 1..n /\ \A i \in 1..(k + 1) : i \in 1..k \/ i = k + 1
  BY <1>2
<1>5. \A i \in 1..(k + 1) : h[i] = sn[i]
  BY <1>2, <1>3, <1>4 DEF Protocol
<1>6. ASSUME NEW i \in 1..n, i > k + 1 PROVE i > k /\ k + 1 < n
  BY <1>2, <1>6
<1>7. ~t => \A i \in 1..n : sn[i].kind \in HttpKinds /\ (i > k + 1 /\ i < n => sn[i].kind = "get")
  BY <1>2, <1>6 DEF Protocol
<1>8. ASSUME t PROVE /\ n > 0 /\ sn[n].kind \notin {"get", "form"}
                     /\ \A i \in 1..n : i > k + 1 => sn[i].kind \in AllOpcodes
  <2>1. CASE ws
    BY <1>2, <1>6, <2>1 DEF Protocol
  <2>2. CASE ~ws
    <3>1. m.kind = "upgrade" /\ k + 1 = n
      BY <1>2, <1>8, <2>2
    <3>2. sn[n].kind = "upgrade" /\ n > 0 /\ \A i \in 1..n : ~(i > k + 1)
      BY <1>2, <3>1
    <3> QED
      BY <3>2
  <2> QED
    BY <2>1, <2>2
<1>9. ~cs
  <2>1. ASSUME cs PROVE FALSE
    <3>1. k > 0 /\ hd[k].kind = CLOSE
      BY <1>2, <2>1 DEF Protocol
    <3>2. k \in 1..k /\ k \in 1..n /\ k # n
      BY <1>2, <3>1
    <3>3. hd[k] = sn[k]
      BY <1>2, <3>2 DEF Protocol
    <3> QED
      BY <1>2, <3>1, <3>2, <3>3 DEF Protocol
  <2> QED
    BY <2>1
<1>10. c => k + 1 > 0 /\ h[k + 1].kind = CLOSE
  <2>1. c => m.kind = CLOSE
    BY <1>9, Zenon
  <2> QED
    BY <1>2, <1>3, <2>1
<1>11. \A i \in 1..n : sn[i].kind = CLOSE => i = n
  BY <1>2 DEF Protocol
<1>12. Protocol(sn, h, t, c)
  BY <1>2, <1>3, <1>4, <1>5, <1>7, <1>8, <1>10, <1>11 DEF Protocol
<1> QED
  BY <1>1, <1>9, <1>12

\* The answer to a message, what one of kinds K gives (calls or answers), how many of
\* the first n are of kinds K, and what the messages hd give, rp.
AnswerTo(m) == Frame(IF m.kind = PING THEN PONG ELSE CLOSE, m.data, <<>>)
Output(m, K) == IF K = ToCall THEN m ELSE AnswerTo(m)
CountOf(hd, n, K) == Cardinality({i \in 1..n : hd[i].kind \in K})
OutputsOf(hd, rp, K) ==
    /\ IsSeq(hd) /\ IsSeq(rp) /\ Len(rp) = CountOf(hd, Len(hd), K)
    /\ \A i \in 1..Len(hd) : hd[i].kind \in K => rp[CountOf(hd, i, K)] = Output(hd[i], K)

\* Calls are not answers.
LEMMA OutputKinds ==
    ASSUME NEW m
    PROVE  Output(m, ToCall) = m /\ Output(m, ToAnswer) = AnswerTo(m)
<1>1. "get" \in ToCall /\ "get" \notin ToAnswer
  BY DEF ToCall, ToAnswer, PING, CLOSE
<1> QED
  BY <1>1 DEF Output

\* Counting the messages of some kinds.
LEMMA CountFacts ==
    ASSUME NEW hd, NEW K, NEW n \in Nat
    PROVE  /\ CountOf(hd, n, K) \in Nat
           /\ CountOf(hd, n + 1, K) = CountOf(hd, n, K) + (IF hd[n + 1].kind \in K THEN 1 ELSE 0)
           /\ \A i \in 1..n : CountOf(hd, i, K) \in Nat /\ CountOf(hd, i, K) <= CountOf(hd, n, K)
           /\ \A i \in 1..n : hd[i].kind \in K => CountOf(hd, i, K) >= 1
<1> DEFINE A(k) == {i \in 1..k : hd[i].kind \in K}
<1>1. ASSUME NEW k \in Nat PROVE IsFiniteSet(A(k)) /\ Cardinality(A(k)) \in Nat
  <2>1. IsFiniteSet(1..k)
    BY FS_Interval
  <2>2. A(k) \subseteq 1..k
    OBVIOUS
  <2>3. IsFiniteSet(A(k))
    BY <2>1, <2>2, FS_Subset
  <2> QED
    BY <2>3, FS_CardinalityType
<1>2. CountOf(hd, n + 1, K) = CountOf(hd, n, K) + (IF hd[n + 1].kind \in K THEN 1 ELSE 0)
  <2>1. CASE hd[n + 1].kind \in K
    <3>1. A(n + 1) = A(n) \cup {n + 1} /\ n + 1 \notin A(n)
      BY <2>1
    <3> HIDE DEF A
    <3>2. Cardinality(A(n + 1)) = Cardinality(A(n)) + 1
      BY <1>1, <3>1, FS_AddElement
    <3> QED
      BY <2>1, <3>2 DEF A, CountOf
  <2>2. CASE hd[n + 1].kind \notin K
    <3>1. A(n + 1) = A(n)
      BY <2>2
    <3> HIDE DEF A
    <3>2. Cardinality(A(n)) \in Nat
      BY <1>1
    <3>3. Cardinality(A(n + 1)) = Cardinality(A(n)) + 0
      BY <3>1, <3>2
    <3> QED
      BY <2>2, <3>3 DEF A, CountOf
  <2> QED
    BY <2>1, <2>2
<1>3. ASSUME NEW i \in 1..n PROVE CountOf(hd, i, K) \in Nat /\ CountOf(hd, i, K) <= CountOf(hd, n, K)
  <2>1. A(i) \subseteq A(n) /\ i \in Nat
    OBVIOUS
  <2> HIDE DEF A
  <2>2. Cardinality(A(i)) \in Nat /\ Cardinality(A(i)) <= Cardinality(A(n))
    BY <1>1, <2>1, FS_Subset
  <2> QED
    BY <2>2 DEF A, CountOf
<1>4. ASSUME NEW i \in 1..n, hd[i].kind \in K PROVE CountOf(hd, i, K) >= 1
  <2>1. i \in A(i) /\ i \in Nat
    BY <1>4
  <2> HIDE DEF A
  <2>2. A(i) # {} /\ IsFiniteSet(A(i)) /\ Cardinality(A(i)) \in Nat
    BY <1>1, <2>1
  <2>3. Cardinality(A(i)) # 0
    BY <2>2, FS_EmptySet
  <2>4. Cardinality(A(i)) >= 1
    BY <2>2, <2>3
  <2> QED
    BY <2>4 DEF A, CountOf
<1>5. CountOf(hd, n, K) \in Nat
  BY <1>1 DEF CountOf
<1> QED
  BY <1>2, <1>3, <1>4, <1>5

\* A message is taken, and gives what one of its kind gives.
LEMMA OutputsStep ==
    ASSUME NEW hd, NEW rp, NEW K, OutputsOf(hd, rp, K), NEW m,
           NEW s, s = IF m.kind \in K THEN <<Output(m, K)>> ELSE <<>>
    PROVE  OutputsOf(Append(hd, m), rp \o s, K)
<1>1. PICK h, u : h = Append(hd, m) /\ u = rp \o s
  OBVIOUS
<1>2. PICK k \in Nat : k = Len(hd)
  BY SeqLen DEF OutputsOf
<1>3. IsSeq(h) /\ Len(h) = k + 1 /\ h[k + 1] = m /\ \A i \in 1..k : h[i] = hd[i]
  <2>1. IsSeq(hd)
    BY DEF OutputsOf
  <2>2. Longer(h, hd, m)
    BY <1>1, <2>1, Appended
  <2> QED
    BY <1>2, <2>2 DEF Longer
<1>4. /\ IsSeq(rp) /\ Len(rp) = CountOf(hd, k, K)
      /\ \A i \in 1..k : hd[i].kind \in K => rp[CountOf(hd, i, K)] = Output(hd[i], K)
  BY <1>2 DEF OutputsOf
<1>5. ASSUME NEW i \in 0..k PROVE CountOf(h, i, K) = CountOf(hd, i, K)
  <2>1. \A j \in 1..i : h[j] = hd[j]
    BY <1>3
  <2>2. {j \in 1..i : h[j].kind \in K} = {j \in 1..i : hd[j].kind \in K}
    BY <2>1
  <2> QED
    BY <2>2 DEF CountOf
<1>6. CountOf(h, k, K) = Len(rp) /\ Len(rp) \in Nat
  <2>1. k \in 0..k
    OBVIOUS
  <2> QED
    BY <1>4, <1>5, <2>1, SeqLen
<1>7. CountOf(h, k + 1, K) = Len(rp) + (IF m.kind \in K THEN 1 ELSE 0)
  <2>1. CountOf(h, k + 1, K) = CountOf(h, k, K) + (IF h[k + 1].kind \in K THEN 1 ELSE 0)
    BY <1>2, CountFacts
  <2> QED
    BY <1>3, <1>6, <2>1
<1>8. PICK S : rp \in Seq(S)
  BY <1>4 DEF IsSeq
<1>9. PICK U : U = S \cup {Output(m, K)}
  OBVIOUS
<1>10. rp \in Seq(U) /\ s \in Seq(U)
  <2>1. S \subseteq U /\ Output(m, K) \in U
    BY <1>9
  <2>2. <<Output(m, K)>> \in Seq(U) /\ <<>> \in Seq(U)
    BY <2>1
  <2>3. s \in Seq(U)
    BY <2>2
  <2> QED
    BY <1>8, <2>1, <2>3, Wider
<1>11. u \in Seq(U) /\ Chain(u, rp, s)
  BY <1>1, <1>10, Joining
<1>12. IsSeq(u) /\ \A i \in 1..Len(rp) : u[i] = rp[i]
  BY <1>11 DEF IsSeq, Chain
<1>13. Len(u) = CountOf(h, k + 1, K)
  <2>1. Len(s) = IF m.kind \in K THEN 1 ELSE 0
    <3>1. Len(<<Output(m, K)>>) = 1 /\ Len(<<>>) = 0
      OBVIOUS
    <3> QED
      BY <3>1
  <2>2. Len(u) = Len(rp) + Len(s)
    BY <1>11 DEF Chain
  <2> QED
    BY <1>7, <2>1, <2>2
<1>14. ASSUME NEW i \in 1..k, h[i].kind \in K PROVE u[CountOf(h, i, K)] = Output(h[i], K)
  <2>1. h[i] = hd[i] /\ CountOf(h, i, K) = CountOf(hd, i, K)
    <3>1. i \in 0..k
      OBVIOUS
    <3> QED
      BY <1>3, <1>5, <3>1
  <2>2. CountOf(h, i, K) \in 1..Len(rp)
    <3>1. CountOf(h, i, K) \in Nat /\ CountOf(h, i, K) <= CountOf(h, k, K) /\ CountOf(h, i, K) >= 1
      BY <1>14, CountFacts
    <3> QED
      BY <1>6, <3>1
  <2> QED
    BY <1>4, <1>12, <1>14, <2>1, <2>2
<1>15. m.kind \in K => u[CountOf(h, k + 1, K)] = Output(m, K)
  <2> SUFFICES ASSUME m.kind \in K PROVE u[CountOf(h, k + 1, K)] = Output(m, K)
    OBVIOUS
  <2>1. CountOf(h, k + 1, K) = Len(rp) + 1
    BY <1>7
  <2>2. s = <<Output(m, K)>>
    OBVIOUS
  <2>3. Len(s) = 1 /\ s[1] = Output(m, K)
    BY <2>2
  <2>4. 1 \in 1..Len(s)
    BY <2>3
  <2>5. u[Len(rp) + 1] = s[1]
    BY <1>11, <2>4 DEF Chain
  <2> QED
    BY <2>1, <2>3, <2>5
<1>16. \A i \in 1..(k + 1) : h[i].kind \in K => u[CountOf(h, i, K)] = Output(h[i], K)
  <2>1. \A i \in 1..(k + 1) : i \in 1..k \/ i = k + 1
    OBVIOUS
  <2> QED
    BY <1>3, <1>14, <1>15, <2>1
<1> QED
  BY <1>1, <1>3, <1>12, <1>13, <1>16 DEF OutputsOf

-----------------------------------------------------------------------------
(* The inductive invariant                                                  *)

Flags ==
    /\ websocket \in BOOLEAN /\ busy \in BOOLEAN /\ closeSent \in BOOLEAN /\ stray \in BOOLEAN
    /\ conn \in {"open", "closed", "gone"}
    /\ busy => conn # "gone"
    /\ IsSeq(sent)

\* A websocket that is closed has nothing left to take: the close frame was the last
\* message, or the upgrade was, which nobody answered.
Quiet == websocket /\ conn # "open" => Len(taken) = Len(sent)

\* The callbacks got the messages meant for them, and the client its answers.
Outputs == OutputsOf(taken, calls, ToCall) /\ OutputsOf(taken, replies, ToAnswer)

\* What was sent, with the request text and the cells on the way as its end.
OnTheWay == conn # "gone" =>
    \E X, b, g, d : /\ Stream(X, b, g, sent, stray)
                    /\ Place(X, b, g, d, rqst, wire, Len(taken), websocket, busy)

\* The inductive invariant: what was taken is the beginning of what was sent, and
\* text and wire are the rest of it until the client is deleted.
Inv ==
    /\ Flags
    /\ Quiet
    /\ Protocol(sent, taken, websocket, closeSent)
    /\ Outputs
    /\ OnTheWay

\* Nothing was sent yet.
LEMMA InitInv == Init => Inv
<1> SUFFICES ASSUME Init PROVE Inv
  OBVIOUS
<1>1. /\ wire = <<>> /\ rqst = <<>> /\ websocket = FALSE /\ busy = FALSE /\ closeSent = FALSE
      /\ replies = <<>> /\ sent = <<>> /\ taken = <<>> /\ stray = FALSE
      /\ calls = <<>> /\ conn = "open"
  BY DEF Init
<1>2. <<>> \in Seq(Cells) /\ Len(<<>>) = 0 /\ IsSeq(<<>>)
  BY DEF IsSeq
<1>3. \A i \in 1..0 : FALSE
  OBVIOUS
<1>4. Flags /\ Quiet
  BY <1>1, <1>2 DEF Flags, Quiet
<1>5. Protocol(sent, taken, websocket, closeSent)
  BY <1>1, <1>2, <1>3 DEF Protocol
<1>6. Outputs
  <2>1. ASSUME NEW K PROVE OutputsOf(<<>>, <<>>, K)
    <3>1. CountOf(<<>>, 0, K) = 0
      <4>1. {i \in 1..0 : <<>>[i].kind \in K} = {}
        BY <1>3
      <4> QED
        BY <4>1, FS_EmptySet DEF CountOf
    <3> QED
      BY <1>2, <1>3, <3>1 DEF OutputsOf
  <2> QED
    BY <1>1, <2>1 DEF Outputs
<1>7. OnTheWay
  <2>1. PICK b, g : b = [i \in Nat |-> 0] /\ g = [i \in Nat |-> <<>>]
    OBVIOUS
  <2>2. b \in [Nat -> Nat] /\ g \in [Nat -> Seq(Cells)] /\ b[1] = 0
    BY <1>2, <2>1
  <2>3. Stream(<<>>, b, g, sent, stray)
    <3>1. Len(sent) = 0 /\ IsSeq(sent) /\ Len(<<>>) = 0
      BY <1>1, <1>2
    <3>2. \A i \in 1..Len(sent) : Placed(<<>>, b, g, sent[i], i)
      BY <1>3, <3>1
    <3>3. b[Len(sent) + 1] = 0 /\ ~(Len(sent) > 0)
      BY <2>2, <3>1
    <3> QED
      BY <1>2, <2>2, <3>1, <3>2, <3>3 DEF Stream
  <2>4. Cut(<<>>, 0, rqst, wire)
    BY <1>1, <1>2, <1>3 DEF Cut
  <2>5. AtMessage(<<>>, b, 0, rqst, Len(taken))
    BY <1>1, <1>2, <1>3, <2>2 DEF AtMessage, Same
  <2>6. Place(<<>>, b, g, 0, rqst, wire, Len(taken), websocket, busy)
    BY <2>4, <2>5 DEF Place
  <2> QED
    BY <2>3, <2>6 DEF OnTheWay
<1> QED
  BY <1>4, <1>5, <1>6, <1>7 DEF Inv

\* How many messages were sent and taken.
LEMMA Counts ==
    ASSUME NEW sn, IsSeq(sn), NEW hd, NEW ws, NEW cs, Protocol(sn, hd, ws, cs)
    PROVE  Len(sn) \in Nat /\ Len(hd) \in Nat /\ Len(hd) <= Len(sn) /\ Len(hd) \in 0..Len(sn)
<1>1. IsSeq(hd) /\ Len(hd) <= Len(sn)
  BY DEF Protocol
<1>2. Len(sn) \in Nat /\ Len(hd) \in Nat
  BY <1>1, SeqLen
<1> QED
  BY <1>1, <1>2

\* The place behind the first k messages is in the stream.
LEMMA PlaceBounds ==
    ASSUME NEW X, NEW b, NEW g, NEW sn, NEW st, Stream(X, b, g, sn, st), NEW k \in Nat, k <= Len(sn)
    PROVE  b[k + 1] \in Nat /\ Len(X) \in Nat /\ b[k + 1] <= Len(X)
<1>1. /\ X \in Seq(Cells) /\ b \in [Nat -> Nat] /\ IsSeq(sn) /\ b[1] = 0
      /\ \A i \in 1..Len(sn) : Placed(X, b, g, sn[i], i)
  BY DEF Stream
<1>2. Len(sn) \in Nat /\ b[k + 1] \in Nat /\ Len(X) \in Nat
  <2>1. Len(sn) \in Nat
    BY <1>1, SeqLen
  <2>2. Len(X) \in Nat
    BY ONLY <1>1
  <2>3. b[k + 1] \in Nat
    <3>1. k + 1 \in Nat
      OBVIOUS
    <3> QED
      BY ONLY <1>1, <3>1
  <2> QED
    BY <2>1, <2>2, <2>3
<1>3. CASE k = 0
  BY <1>1, <1>2, <1>3
<1>4. CASE k # 0
  <2>1. k \in 1..Len(sn)
    BY <1>2, <1>4
  <2> QED
    BY <1>1, <1>2, <2>1 DEF Placed
<1> QED
  BY <1>3, <1>4

\* The client sends a request or a frame.
LEMMA SendInv ==
    ASSUME Inv, NEW seg \in Seq(Cells), NEW m,
           IsRequest(seg, m, Len(sent) + 1) \/ IsFrame(seg, m),
           MaySend, wire' = wire \o seg, sent' = Append(sent, m),
           UNCHANGED server, UNCHANGED stray,
           ~websocket => m.kind \in HttpKinds,
           websocket => m.kind \in AllOpcodes /\ conn = "open"
    PROVE  Inv'
<1>1. /\ rqst' = rqst /\ websocket' = websocket /\ busy' = busy /\ closeSent' = closeSent
      /\ replies' = replies /\ taken' = taken /\ stray' = stray
      /\ conn' = conn /\ calls' = calls /\ conn # "gone"
  BY DEF server, MaySend
<1>2. PICK X, b, g, d : /\ Stream(X, b, g, sent, stray)
                        /\ Place(X, b, g, d, rqst, wire, Len(taken), websocket, busy)
  BY <1>1 DEF Inv, OnTheWay
<1>3. /\ X \in Seq(Cells) /\ b \in [Nat -> Nat] /\ g \in [Nat -> Seq(Cells)] /\ IsSeq(sent)
  BY <1>2 DEF Stream
<1>4. Protocol(sent, taken, websocket, closeSent) /\ Outputs /\ Flags
  BY DEF Inv
<1>5. PICK n, k : n = Len(sent) /\ k = Len(taken)
  OBVIOUS
<1>6. n \in Nat /\ k \in Nat /\ k <= n
  BY <1>3, <1>4, <1>5, Counts
<1>7. Flags' /\ Quiet'
  <2>1. IsSeq(sent')
    BY <1>3, Appended DEF Longer
  <2>2. Flags'
    BY <1>1, <1>4, <2>1 DEF Flags
  <2>3. Quiet'
    BY <1>1, <1>4 DEF Flags, Quiet
  <2> QED
    BY <2>2, <2>3
<1>8. Protocol(sent, taken, websocket, closeSent)'
  <2>1. Len(sent) > 0 => /\ sent[Len(sent)].kind \in {"get", TEXT, BIN, PING} \/ Len(taken) = Len(sent)
                         /\ sent[Len(sent)].kind # CLOSE
    <3>1. Len(sent) > 0 => sent # <<>>
      OBVIOUS
    <3> QED
      BY <3>1, RequestsAssumption DEF MaySend
  <2>2. Protocol(Append(sent, m), taken, websocket, closeSent)
    BY <1>3, <1>4, <2>1, ProtocolSend
  <2> QED
    BY <1>1, <2>2
<1>9. Outputs'
  BY <1>1, <1>4 DEF Outputs
<1>10. OnTheWay'
  <2>1. PICK Y, w, c, h : /\ Y = X \o seg /\ w = wire \o seg
                          /\ c = [b EXCEPT ![n + 2] = Len(X) + Len(seg)]
                          /\ h = [g EXCEPT ![n + 1] = seg]
    OBVIOUS
  <2>2. Stream(Y, c, h, Append(sent, m), stray)
    BY <1>2, <1>5, <2>1, StreamSend
  <2>3. b[k + 1] <= Len(X)
    BY <1>2, <1>5, <1>6, PlaceBounds
  <2>4. c[k + 1] = b[k + 1] /\ (k > 0 => c[k] = b[k] /\ h[k] = g[k])
    <3>1. k + 1 \in Nat /\ k + 1 # n + 2 /\ k # n + 2 /\ k # n + 1
      BY <1>6
    <3> QED
      BY <1>3, <1>6, <2>1, <3>1
  <2>5. Place(Y, c, h, d, rqst, w, k, websocket, busy)
    <3>1. Place(X, b, g, d, rqst, wire, k, websocket, busy)
      BY <1>2, <1>5
    <3> QED
      <4>1. Y = X \o seg /\ w = wire \o seg /\ X \in Seq(Cells) /\ seg \in Seq(Cells) /\ k \in Nat
        BY <1>3, <1>6, <2>1
      <4> QED
        BY ONLY <2>3, <2>4, <3>1, <4>1, PlaceSend
  <2>6. Stream(Y, c, h, sent', stray') /\ Place(Y, c, h, d, rqst', wire', Len(taken'), websocket', busy')
    BY <1>1, <1>5, <2>1, <2>2, <2>5
  <2> QED
    BY <2>6 DEF OnTheWay
<1> QED
  BY <1>7, <1>8, <1>9, <1>10 DEF Inv

\* The client sends a request.
LEMMA RequestInv ==
    ASSUME Inv, NEW kind, NEW body, kind \in HttpKinds, kind = "form" => IsForm(body),
           SendRequest(kind, body)
    PROVE  Inv'
<1>1. PICK n, seg, m : /\ n = Len(sent) + 1 /\ seg = Lines(kind, n, body)
                       /\ m = [kind |-> kind, id |-> n,
                               data |-> IF kind = "form" THEN FormData(body) ELSE {}]
  OBVIOUS
<1>2. n \in Nat
  <2>1. Len(sent) \in Nat
    BY SeqLen DEF Inv, Flags
  <2> QED
    BY <1>1, <2>1
<1>3. seg \in Seq(Cells)
  BY <1>1, <1>2, LinesFacts DEF IsLines
<1>4. IsRequest(seg, m, n)
  BY <1>1 DEF IsRequest
<1>5. /\ MaySend /\ ~websocket /\ wire' = wire \o seg /\ sent' = Append(sent, m)
      /\ UNCHANGED server /\ UNCHANGED stray
  BY <1>1 DEF SendRequest
<1>6. m.kind \in HttpKinds
  BY <1>1
<1> QED
  BY <1>1, <1>3, <1>4, <1>5, <1>6, SendInv

\* The client sends a frame, of its own or as send_websocket builds it.
LEMMA FrameInv ==
    ASSUME Inv, NEW opcode \in Opcodes, NEW payload \in Payloads, SendFrame(opcode, payload)
    PROVE  Inv'
<1>1. opcode \in AllOpcodes /\ IsPayload(payload)
  BY FramesAssumption DEF AllOpcodes, IsPayload, Byte, Four
<1>2. IsKey(Key) /\ IsKey(<<>>)
  BY KeyAssumption DEF IsKey, Byte
<1>3. PICK key : IsKey(key) /\ wire' = wire \o Layout(opcode, payload, key)
  <2>1. CASE wire' = wire \o Frame(opcode, payload, Key)
    BY <1>1, <1>2, <2>1, FrameIsLayout
  <2>2. CASE wire' = wire \o BuildPacket(opcode, payload, Key)
    <3>1. IsKey(IF payload = <<>> THEN <<>> ELSE Key)
      BY <1>2
    <3> QED
      BY <1>1, <1>2, <2>2, <3>1, BuildIsLayout
  <2> QED
    BY <2>1, <2>2 DEF SendFrame
<1>4. PICK seg, m : seg = Layout(opcode, payload, key) /\ m = [kind |-> opcode, data |-> payload]
  OBVIOUS
<1>5. seg \in Seq(Cells)
  <2>1. Laid(seg, opcode, payload, key, Len(payload))
    BY <1>1, <1>3, <1>4, LayoutFacts
  <2> QED
    BY <2>1 DEF Laid
<1>6. IsFrame(seg, m)
  BY <1>1, <1>3, <1>4 DEF IsFrame
<1>7. /\ MaySend /\ websocket /\ conn = "open" /\ wire' = wire \o seg /\ sent' = Append(sent, m)
      /\ UNCHANGED server /\ UNCHANGED stray
  BY <1>3, <1>4 DEF SendFrame
<1>8. m.kind \in AllOpcodes
  BY <1>1, <1>4
<1> QED
  BY <1>5, <1>6, <1>7, <1>8, SendInv

\* The client sends a stray newline.
LEMMA StrayInv ==
    ASSUME Inv, SendStray("crlf")
    PROVE  Inv'
<1>1. /\ rqst' = rqst /\ websocket' = websocket /\ busy' = busy /\ closeSent' = closeSent
      /\ replies' = replies /\ taken' = taken /\ sent' = sent
      /\ stray' = TRUE /\ wire' = Append(wire, <<"crlf", 0>>)
      /\ conn' = conn /\ calls' = calls /\ conn # "gone"
  BY DEF SendStray, server
<1>2. Flags /\ Protocol(sent, taken, websocket, closeSent) /\ Outputs /\ Quiet
  BY DEF Inv
<1>3. stray = FALSE
  BY <1>2 DEF Flags, SendStray
<1>4. PICK X, b, g, d : /\ Stream(X, b, g, sent, FALSE)
                        /\ Place(X, b, g, d, rqst, wire, Len(taken), websocket, busy)
  BY <1>1, <1>3 DEF Inv, OnTheWay
<1>5. IsSeq(sent)
  BY <1>4 DEF Stream
<1>6. PICK n, k : n = Len(sent) /\ k = Len(taken)
  OBVIOUS
<1>7. n \in Nat /\ k \in 0..n
  BY <1>2, <1>5, <1>6, Counts
<1>8. n > 0 /\ sent[n].kind \in {"get", "form"}
  <2>1. sent # <<>> /\ sent[n].kind \in {"get", "form"}
    BY <1>6 DEF SendStray
  <2>2. n # 0
    BY <1>5, <1>6, <2>1 DEF IsSeq
  <2> QED
    BY <1>7, <2>1, <2>2
<1>9. websocket = FALSE
  BY <1>2, <1>6, <1>8 DEF Flags, Protocol
<1>10. PICK Y, w, c : /\ Y = Append(X, <<"crlf", 0>>) /\ w = Append(wire, <<"crlf", 0>>)
                      /\ c = [b EXCEPT ![n + 1] = Len(X) + 1]
  OBVIOUS
<1>11. Stream(Y, c, g, sent, TRUE)
  BY <1>4, <1>6, <1>8, <1>10, StreamStray
<1>12. Place(Y, c, g, d, rqst, w, k, FALSE, busy)
  <2>1. Place(X, b, g, d, rqst, wire, k, FALSE, busy)
    BY <1>4, <1>6, <1>9
  <2> QED
    BY <1>4, <1>6, <1>7, <1>8, <1>10, <2>1, PlaceStray
<1>13. OnTheWay'
  <2>1. /\ Stream(Y, c, g, sent', stray')
        /\ Place(Y, c, g, d, rqst', wire', Len(taken'), websocket', busy')
    BY <1>1, <1>6, <1>9, <1>10, <1>11, <1>12
  <2> QED
    BY <2>1 DEF OnTheWay
<1>14. Flags' /\ Quiet' /\ Outputs'
  BY <1>1, <1>2 DEF Flags, Quiet, Outputs
<1> QED
  BY <1>1, <1>2, <1>13, <1>14 DEF Inv

\* A segment arrives.
LEMMA RecvInv ==
    ASSUME Inv, NEW n \in 1..Len(wire), Recv(n)
    PROVE  Inv'
<1>1. /\ websocket' = websocket /\ closeSent' = closeSent /\ replies' = replies
      /\ taken' = taken /\ sent' = sent /\ stray' = stray /\ busy' = TRUE
      /\ conn' = conn /\ calls' = calls /\ conn # "gone"
      /\ rqst' = rqst \o SubSeq(wire, 1, n) /\ wire' = SubSeq(wire, n + 1, Len(wire))
  BY DEF Recv
<1>2. Flags /\ Protocol(sent, taken, websocket, closeSent) /\ Outputs /\ Quiet
  BY DEF Inv
<1>3. busy = FALSE
  BY <1>2 DEF Flags, Recv
<1>4. PICK X, b, g, d : /\ Stream(X, b, g, sent, stray)
                        /\ Place(X, b, g, d, rqst, wire, Len(taken), websocket, FALSE)
  BY <1>1, <1>3 DEF Inv, OnTheWay
<1>5. X \in Seq(Cells)
  BY <1>4 DEF Stream
<1>6. PICK r, w : r = rqst \o SubSeq(wire, 1, n) /\ w = SubSeq(wire, n + 1, Len(wire))
  OBVIOUS
<1>7. Place(X, b, g, d, r, w, Len(taken), websocket, TRUE)
  BY <1>4, <1>5, <1>6, PlaceRecv
<1>8. OnTheWay'
  <2>1. /\ Stream(X, b, g, sent', stray')
        /\ Place(X, b, g, d, rqst', wire', Len(taken'), websocket', busy')
    BY <1>1, <1>4, <1>6, <1>7
  <2> QED
    BY <2>1 DEF OnTheWay
<1>9. Flags' /\ Quiet' /\ Outputs'
  BY <1>1, <1>2 DEF Flags, Quiet, Outputs
<1> QED
  BY <1>1, <1>2, <1>8, <1>9 DEF Inv

\* Behind the stray newline stands a request, or nothing yet.
LEMMA NewlineText ==
    ASSUME NEW X, NEW b, NEW g, NEW sn, NEW st, Stream(X, b, g, sn, st), NEW hd, NEW cs,
           Protocol(sn, hd, FALSE, cs), NEW k, k = Len(hd), NEW d, NEW rq, NEW wi, NEW bz,
           Cut(X, d, rq, wi), AtNewline(X, b, g, d, rq, k, bz), Same(X, d, rq), Len(rq) >= 1
    PROVE  rq[1] = <<"crlf", 0>> /\ (Len(rq) >= 2 => rq[2][1] \in Method)
<1>1. /\ d \in Nat /\ Len(rq) \in Nat /\ Len(wi) \in Nat /\ Len(X) \in Nat
      /\ (d + Len(rq)) + Len(wi) = Len(X)
  BY CutLens
<1>2. d + 1 = b[k + 1] /\ X[d + 1] = <<"crlf", 0>>
  BY DEF AtNewline
<1>3. \A i \in 1..Len(rq) : rq[i] = X[d + i]
  BY DEF Same
<1>4. rq[1] = <<"crlf", 0>>
  <2>1. 1 \in 1..Len(rq)
    BY <1>1
  <2> QED
    BY <1>2, <1>3, <2>1
<1>5. ASSUME Len(rq) >= 2 PROVE rq[2][1] \in Method
  <2>1. IsSeq(sn) /\ b[Len(sn) + 1] = Len(X) /\ \A i \in 1..Len(sn) : Placed(X, b, g, sn[i], i)
    BY DEF Stream
  <2>2. Len(sn) \in Nat /\ k \in Nat /\ k <= Len(sn)
    BY <2>1, Counts
  <2>3. Len(X) >= d + 2
    BY <1>1, <1>5
  <2>4. k # Len(sn)
    BY <1>1, <1>2, <2>1, <2>3
  <2>5. k + 1 \in 1..Len(sn)
    BY <2>2, <2>4
  <2>6. PICK i, m : i = k + 1 /\ m = sn[i]
    OBVIOUS
  <2>7. Placed(X, b, g, m, i) /\ i \in Nat
    BY <2>1, <2>2, <2>5, <2>6
  <2>8. m.kind \in HttpKinds
    BY <2>5, <2>6 DEF Protocol
  <2>9. IsRequest(g[i], m, i)
    BY <2>7, <2>8, KindTells
  <2>10. PICK kind, body : /\ kind \in HttpKinds /\ (kind = "form" => IsForm(body))
                            /\ g[i] = Lines(kind, i, body)
    BY <2>9 DEF IsRequest
  <2>11. IsLines(g[i], kind, i, body)
    BY <2>7, <2>10, LinesFacts
  <2>12. Len(g[i]) >= 1 /\ Len(g[i]) \in Nat /\ g[i][1][1] \in Method
    <3>1. HeadSize(kind) \in {3, 4, 5}
      BY DEF HeadSize
    <3> QED
      BY <2>11, <3>1 DEF IsLines, Method
  <2>13. X[b[i] + 1] = g[i][1]
    <3>1. 1 \in 1..Len(g[i])
      BY <2>12
    <3> QED
      BY <2>7, <3>1 DEF Placed
  <2>14. rq[2] = X[d + 2]
    <3>1. 2 \in 1..Len(rq)
      BY <1>1, <1>5
    <3> QED
      BY <1>3, <3>1
  <2>15. b[i] + 1 = d + 2
    BY <1>1, <1>2, <2>6
  <2> QED
    BY <2>12, <2>13, <2>14, <2>15
<1> QED
  BY <1>4, <1>5

\* The kind of request that process_rqst takes a complete text for.
KindOf(r) == IF HasHeader(r, "form") THEN "form" ELSE IF HasHeader(r, "upgrade") THEN "upgrade" ELSE "get"

\* Text rq begins with message m, a request that is next to be taken: process_rqst
\* gets it from the text, and leaves the text r behind it.
Taken(X, b, g, d, rq, wi, k, n, m, post, l, r) ==
    /\ l = Size(rq) /\ rq[1][1] # "crlf" /\ m.kind \in HttpKinds
    /\ m = [kind |-> KindOf(rq), id |-> rq[1][2], data |-> post.data]
    /\ Cut(X, d + l, r, wi)
    /\ \/ AtMessage(X, b, d + l, r, k + 1)
       \/ m.kind \in {"get", "form"} /\ AtNewline(X, b, g, d + l, r, k + 1, TRUE)
    /\ m.kind = "upgrade" => r = <<>> /\ k + 1 = n

\* The next request is complete.
LEMMA RequestTaken ==
    ASSUME NEW X, NEW b, NEW g, NEW sn, NEW st, Stream(X, b, g, sn, st), NEW hd, NEW cs,
           Protocol(sn, hd, FALSE, cs), NEW k \in Nat, k = Len(hd), k < Len(sn), NEW d, NEW rq, NEW wi,
           Cut(X, d, rq, wi), AtMessage(X, b, d, rq, k), NEW m, m = sn[k + 1],
           Complete(rq), NEW post, post = ParsePost(rq), NEW l, l = Len(g[k + 1]),
           NEW r, r = ResetRqst(post.rqst, l)
    PROVE  Taken(X, b, g, d, rq, wi, k, Len(sn), m, post, l, r)
<1>1. /\ Placed(X, b, g, m, k + 1) /\ Agree(rq, g[k + 1])
      /\ g[k + 1] \in Seq(Cells) /\ k + 1 \in 1..Len(sn)
  BY NextAgrees
<1>2. /\ m.kind \in HttpKinds /\ (k + 1 < Len(sn) => m.kind = "get")
  <2>1. k + 1 > Len(hd)
    OBVIOUS
  <2> QED
    BY <1>1, <2>1 DEF Protocol
<1>3. IsRequest(g[k + 1], m, k + 1)
  BY <1>1, <1>2, KindTells
<1>4. PICK kind, body :
         /\ kind \in HttpKinds
         /\ kind = "form" => IsForm(body)
         /\ g[k + 1] = Lines(kind, k + 1, body)
         /\ m = [kind |-> kind, id |-> k + 1, data |-> IF kind = "form" THEN FormData(body) ELSE {}]
  BY <1>3 DEF IsRequest
<1>5. PICK seg, i, data : /\ seg = g[k + 1] /\ i = k + 1
                          /\ data = IF kind = "form" THEN FormData(body) ELSE {}
  OBVIOUS
<1>6. /\ i \in Nat /\ seg = Lines(kind, i, body) /\ Agree(rq, seg)
      /\ m = [kind |-> kind, id |-> i, data |-> data] /\ m.kind = kind
  BY <1>1, <1>4, <1>5
<1>7. Parsed(rq, seg, kind, i, data, ParsePost(rq))
  BY <1>4, <1>5, <1>6, RequestRead
<1>8. /\ l <= Len(rq) /\ Size(rq) = l /\ rq[1][1] # "crlf" /\ rq[1][2] = i
      /\ HasHeader(rq, "form") <=> kind = "form"
      /\ HasHeader(rq, "upgrade") <=> kind = "upgrade"
      /\ post.data = data /\ post.rqst \in Seq(Cells) /\ Len(post.rqst) = Len(rq)
      /\ \A j \in 1..Len(rq) : j > l =>
            post.rqst[j] = rq[j] \/ (kind = "form" /\ j = l + 1 /\ post.rqst[j] = <<"nul", 0>>)
  BY <1>5, <1>7 DEF Parsed
<1>9. KindOf(rq) = kind
  BY <1>4, <1>8 DEF KindOf, HttpKinds
<1>10. kind # "get" => k + 1 = Len(sn)
  BY <1>1, <1>2, <1>6
<1>11. /\ Cut(X, d + l, r, wi)
       /\ \/ AtMessage(X, b, d + l, r, k + 1)
          \/ kind \in {"get", "form"} /\ AtNewline(X, b, g, d + l, r, k + 1, TRUE)
  <2>1. PICK p : p = post.rqst
    OBVIOUS
  <2>2. /\ p \in Seq(Cells) /\ Len(p) = Len(rq) /\ l <= Len(rq) /\ r = ResetRqst(p, l)
        /\ Kept(p, rq, l, kind)
    BY <1>8, <2>1 DEF Kept
  <2>3. kind = sn[k + 1].kind /\ (kind = "form" => k + 1 = Len(sn))
    BY <1>6, <1>10
  <2>4. /\ Stream(X, b, g, sn, st) /\ Cut(X, d, rq, wi) /\ k \in Nat /\ k < Len(sn)
        /\ AtMessage(X, b, d, rq, k) /\ l = Len(g[k + 1])
    OBVIOUS
  <2>5. Behind(X, b, g, d + l, r, wi, k + 1, kind)
    BY ONLY <2>2, <2>3, <2>4, MessageDone
  <2> QED
    BY <2>5 DEF Behind
<1>12. ASSUME kind = "upgrade" PROVE r = <<>> /\ k + 1 = Len(sn)
  <2>1. k + 1 = Len(sn)
    BY <1>10, <1>12
  <2>2. AtMessage(X, b, d + l, r, k + 1)
    BY <1>11, <1>12
  <2> QED
    BY <1>11, <2>1, <2>2, NothingLeft
<1> QED
  BY <1>2, <1>6, <1>8, <1>9, <1>11, <1>12 DEF Taken

\* process_rqst: the next request goes to the callback, or the newline is dropped.
LEMMA ProcessRqstInv ==
    ASSUME Inv, ProcessRqst
    PROVE  Inv'
<1>1. Flags /\ Protocol(sent, taken, websocket, closeSent) /\ Outputs
  BY DEF Inv
<1>2. websocket = FALSE /\ busy = TRUE /\ Complete(rqst)
  <2>1. ParseRequest(rqst).complete <=> Complete(rqst)
    BY DEF ParseRequest
  <2> QED
    BY <1>1, <2>1 DEF ProcessRqst, Flags
<1>3. /\ wire' = wire /\ busy' = busy /\ closeSent' = closeSent /\ replies' = replies
      /\ sent' = sent /\ stray' = stray
  BY DEF ProcessRqst
<1>4. PICK post : post = ParsePost(rqst)
  OBVIOUS
<1>5. /\ websocket' = (KindOf(rqst) = "upgrade")
      /\ rqst' = IF KindOf(rqst) = "upgrade" THEN <<>> ELSE ResetRqst(post.rqst, Size(rqst))
      /\ taken' = IF rqst[1][1] = "crlf" THEN taken
                   ELSE Append(taken, [kind |-> KindOf(rqst), id |-> rqst[1][2], data |-> post.data])
      /\ calls' = IF rqst[1][1] = "crlf" \/ KindOf(rqst) = "upgrade" THEN calls
                   ELSE Append(calls, [kind |-> KindOf(rqst), id |-> rqst[1][2], data |-> post.data])
      /\ conn' = IF rqst[1][1] = "crlf" THEN "closed" ELSE conn
  BY <1>4 DEF ProcessRqst, KindOf
<1>6. PICK X, b, g, d : /\ Stream(X, b, g, sent, stray)
                        /\ Place(X, b, g, d, rqst, wire, Len(taken), FALSE, TRUE)
  BY <1>1, <1>2 DEF Inv, Flags, OnTheWay
<1>7. PICK k : k = Len(taken)
  OBVIOUS
<1>8. X \in Seq(Cells) /\ IsSeq(sent) /\ IsSeq(taken) /\ IsSeq(replies) /\ IsSeq(calls)
  BY <1>1, <1>6 DEF Stream, Protocol, Outputs, OutputsOf
<1>9. Len(sent) \in Nat /\ k \in Nat /\ k <= Len(sent)
  BY <1>1, <1>7, <1>8, Counts
<1>10. Protocol(sent, taken, FALSE, closeSent)
  BY <1>1, <1>2
<1>11. /\ Cut(X, d, rqst, wire)
       /\ AtMessage(X, b, d, rqst, k) \/ AtNewline(X, b, g, d, rqst, k, TRUE)
  BY <1>6, <1>7 DEF Place
<1>12. rqst # <<>> /\ rqst # << <<"nul", 0>> >>
  BY <1>2, NothingRead
<1>13. Flags'
  <2>1. conn \in {"open", "closed"}
    BY <1>1, <1>2 DEF Flags
  <2>2. conn' \in {"open", "closed"}
    BY <1>5, <2>1
  <2>3. websocket' \in BOOLEAN
    BY <1>5
  <2> QED
    BY <1>1, <1>3, <2>2, <2>3 DEF Flags
<1>14. CASE AtMessage(X, b, d, rqst, k)
  <2>1. k < Len(sent)
    <3>1. k # Len(sent)
      BY <1>6, <1>11, <1>12, <1>14, NothingLeft
    <3> QED
      BY <1>9, <3>1
  <2>2. PICK m, l, r : m = sent[k + 1] /\ l = Len(g[k + 1]) /\ r = ResetRqst(post.rqst, l)
    OBVIOUS
  <2>3. Taken(X, b, g, d, rqst, wire, k, Len(sent), m, post, l, r)
    BY <1>2, <1>4, <1>6, <1>7, <1>9, <1>10, <1>11, <1>14, <2>1, <2>2, RequestTaken
  <2>4. /\ l = Size(rqst) /\ rqst[1][1] # "crlf" /\ m.kind \in HttpKinds
        /\ m = [kind |-> KindOf(rqst), id |-> rqst[1][2], data |-> post.data]
        /\ Cut(X, d + l, r, wire)
        /\ \/ AtMessage(X, b, d + l, r, k + 1)
           \/ m.kind \in {"get", "form"} /\ AtNewline(X, b, g, d + l, r, k + 1, TRUE)
        /\ m.kind = "upgrade" => r = <<>> /\ k + 1 = Len(sent)
    BY <2>3 DEF Taken
  <2>5. m.kind = KindOf(rqst)
    BY <2>4
  <2>6. /\ taken' = Append(taken, m) /\ rqst' = r /\ websocket' = (m.kind = "upgrade")
        /\ calls' = (IF m.kind = "upgrade" THEN calls ELSE Append(calls, m))
    <3>1. rqst' = r
      BY <1>5, <2>2, <2>4, <2>5
    <3> QED
      BY <1>5, <2>4, <2>5, <3>1
  <2>7. /\ m.kind # CLOSE /\ m.kind \notin ToAnswer
        /\ m.kind \in ToCall <=> m.kind # "upgrade"
    BY <2>4 DEF HttpKinds, CLOSE, PING, TEXT, ToAnswer, ToCall
  <2>8. Protocol(sent, taken, websocket, closeSent)'
    <3>1. PICK t : t = (FALSE \/ m.kind = "upgrade")
      OBVIOUS
    <3>2. Len(taken) < Len(sent) /\ m = sent[Len(taken) + 1]
      BY <1>7, <2>1, <2>2
    <3>3. m.kind = "upgrade" => Len(taken) + 1 = Len(sent)
      BY <1>7, <2>4
    <3>4. closeSent = (closeSent \/ m.kind = CLOSE)
      BY <1>1, <2>7 DEF Flags
    <3>5. Protocol(sent, Append(taken, m), t, closeSent)
      BY <1>8, <1>10, <3>1, <3>2, <3>3, <3>4, ProtocolHandle
    <3>6. t = websocket'
      BY <2>6, <3>1
    <3> QED
      BY <1>3, <2>6, <3>5, <3>6
  <2>9. Outputs'
    <3>1. OutputsOf(Append(taken, m), replies \o <<>>, ToAnswer)
      BY <1>1, <2>7, OutputsStep DEF Outputs
    <3>2. PICK u : u = IF m.kind \in ToCall THEN <<Output(m, ToCall)>> ELSE <<>>
      OBVIOUS
    <3>3. OutputsOf(Append(taken, m), calls \o u, ToCall)
      BY <1>1, <3>2, OutputsStep DEF Outputs
    <3>4. replies \o <<>> = replies /\ calls \o <<>> = calls /\ calls \o <<m>> = Append(calls, m)
      BY <1>8 DEF IsSeq
    <3>5. u = IF m.kind = "upgrade" THEN <<>> ELSE <<m>>
      BY <2>7, <3>2, OutputKinds
    <3>6. calls \o u = calls'
      BY <2>6, <3>4, <3>5
    <3> QED
      BY <1>3, <2>6, <3>1, <3>3, <3>4, <3>6 DEF Outputs
  <2>10. Len(taken') = k + 1
    BY <1>7, <1>8, <2>6, Appended DEF Longer
  <2>11. Place(X, b, g, d + l, r, wire, k + 1, websocket', TRUE)
    <3>1. m.kind \in {"get", "form"} => ~websocket'
      BY <2>6
    <3> QED
      BY <2>4, <3>1 DEF Place
  <2>12. OnTheWay'
    <3>1. /\ Stream(X, b, g, sent', stray')
          /\ Place(X, b, g, d + l, rqst', wire', Len(taken'), websocket', busy')
      BY <1>2, <1>3, <1>6, <2>6, <2>10, <2>11
    <3> QED
      BY <3>1 DEF OnTheWay
  <2>13. Quiet'
    <3>1. websocket' => k + 1 = Len(sent')
      BY <1>3, <2>4, <2>6
    <3> QED
      BY <2>10, <3>1 DEF Quiet
  <2> QED
    BY <1>13, <2>8, <2>9, <2>12, <2>13 DEF Inv
<1>15. CASE AtNewline(X, b, g, d, rqst, k, TRUE)
  <2>1. Same(X, d, rqst)
    BY <1>12, <1>15 DEF AtNewline
  <2>2. rqst \in Seq(Cells) /\ Len(rqst) >= 1
    BY <1>11, <1>12 DEF Cut
  <2>3. rqst[1] = <<"crlf", 0>> /\ (Len(rqst) >= 2 => rqst[2][1] \in Method)
    BY <1>6, <1>7, <1>10, <1>11, <1>15, <2>1, <2>2, NewlineText
  <2>4. Size(rqst) = 1 /\ post.rqst = rqst /\ ~HasHeader(rqst, "upgrade")
    BY <1>2, <1>4, <2>2, <2>3, NewlineRead
  <2>5. KindOf(rqst) # "upgrade"
    BY <2>4 DEF KindOf
  <2>6. PICK r : r = SubSeq(rqst, 2, Len(rqst))
    OBVIOUS
  <2>7. rqst' = r /\ websocket' = websocket /\ taken' = taken /\ calls' = calls
    <3>1. ResetRqst(post.rqst, Size(rqst)) = r
      BY <2>4, <2>6 DEF ResetRqst
    <3>2. rqst[1][1] = "crlf"
      BY <2>3
    <3> QED
      BY <1>2, <1>5, <2>5, <3>1, <3>2
  <2>8. Cut(X, d + 1, r, wire) /\ AtMessage(X, b, d + 1, r, k)
    BY <1>8, <1>11, <1>15, <2>2, <2>6, NewlineDone
  <2>9. OnTheWay'
    <3>1. Place(X, b, g, d + 1, r, wire, k, websocket, TRUE)
      BY <2>8 DEF Place
    <3>2. /\ Stream(X, b, g, sent', stray')
          /\ Place(X, b, g, d + 1, rqst', wire', Len(taken'), websocket', busy')
      BY <1>2, <1>3, <1>6, <1>7, <2>7, <3>1
    <3> QED
      BY <3>2 DEF OnTheWay
  <2>10. Quiet' /\ Outputs'
    BY <1>1, <1>2, <1>3, <2>7 DEF Quiet, Outputs
  <2> QED
    BY <1>1, <1>3, <1>13, <2>7, <2>9, <2>10 DEF Inv
<1> QED
  BY <1>11, <1>14, <1>15

\* No text holds no frame.
LEMMA EmptyPacket == ParsePacket(<<>>) = [ok |-> FALSE, packet |-> <<>>]
<1>1. Len(<<>>) < 2
  OBVIOUS
<1>2. Header(<<>>) = [whole |-> FALSE]
  BY <1>1 DEF Header
<1> QED
  BY <1>2 DEF ParsePacket

\* process_websocket answers what asks for an answer, in frames of the protocol.
LEMMA ReplyAnswers ==
    ASSUME NEW op \in AllOpcodes, NEW payload, IsPayload(payload), closeSent = FALSE, conn = "open",
           NEW m, m = [kind |-> op, data |-> payload]
    PROVE  Reply(op, payload) = IF m.kind \in ToAnswer THEN <<AnswerTo(m)>> ELSE <<>>
<1>1. m.kind = op /\ m.data = payload
  OBVIOUS
<1>2. IsKey(<<>>)
  BY DEF IsKey
<1>3. ASSUME NEW o \in AllOpcodes PROVE BuildPacket(o, payload, <<>>) = Frame(o, payload, <<>>)
  <2>1. (IF payload = <<>> THEN <<>> ELSE <<>>) = <<>>
    OBVIOUS
  <2>2. BuildPacket(o, payload, <<>>) = Layout(o, payload, <<>>)
    BY <1>2, <2>1, BuildIsLayout
  <2>3. Frame(o, payload, <<>>) = Layout(o, payload, <<>>)
    BY <1>2, FrameIsLayout
  <2> QED
    BY <2>2, <2>3
<1>4. PONG \in AllOpcodes /\ CLOSE \in AllOpcodes /\ PING # CLOSE
  BY DEF AllOpcodes, PING, CLOSE
<1>5. CASE op = PING
  BY <1>1, <1>3, <1>4, <1>5 DEF Reply, ToAnswer, AnswerTo
<1>6. CASE op = CLOSE
  BY <1>1, <1>3, <1>4, <1>6 DEF Reply, ToAnswer, AnswerTo
<1>7. CASE op # PING /\ op # CLOSE
  BY <1>1, <1>7 DEF Reply, ToAnswer
<1> QED
  BY <1>5, <1>6, <1>7

\* Text rq begins with message m, a frame that is next to be taken: ParsePacket
\* gets it from the text, and leaves the text r behind it.
Received(X, b, d, wi, k, m, p, l, r) ==
    /\ p.header.opcode \in AllOpcodes /\ l = p.header.start + p.header.length
    /\ IsPayload(SubSeq(p.packet, p.header.start + 1, l))
    /\ m = [kind |-> p.header.opcode, data |-> SubSeq(p.packet, p.header.start + 1, l)]
    /\ Cut(X, d + l, r, wi)
    /\ AtMessage(X, b, d + l, r, k + 1)

\* ParsePacket finds the frame, or leaves the text alone.
Tried(X, b, d, rq, wi, k, m, p, l, r) ==
    /\ p.ok => Received(X, b, d, wi, k, m, p, l, r)
    /\ ~p.ok => p.packet = rq

\* The next frame is found when all of it has arrived, and the text is left alone before.
LEMMA FrameReceived ==
    ASSUME NEW X, NEW b, NEW g, NEW sn, NEW st, Stream(X, b, g, sn, st), NEW hd, NEW cs,
           Protocol(sn, hd, TRUE, cs), NEW k \in Nat, k = Len(hd), k < Len(sn), NEW d, NEW rq, NEW wi,
           Cut(X, d, rq, wi), AtMessage(X, b, d, rq, k), NEW m, m = sn[k + 1],
           NEW p, p = ParsePacket(rq), NEW l, l = Len(g[k + 1]), NEW r, r = ResetRqst(p.packet, l)
    PROVE  Tried(X, b, d, rq, wi, k, m, p, l, r)
<1>1. /\ Placed(X, b, g, m, k + 1) /\ Agree(rq, g[k + 1])
      /\ g[k + 1] \in Seq(Cells) /\ k + 1 \in 1..Len(sn)
  BY NextAgrees
<1>2. m.kind \in AllOpcodes
  <2>1. k + 1 > Len(hd)
    OBVIOUS
  <2> QED
    BY <1>1, <2>1 DEF Protocol
<1>3. IsFrame(g[k + 1], m)
  BY <1>1, <1>2, KindTells
<1>4. PICK op, payload, key :
         /\ op \in AllOpcodes /\ IsPayload(payload) /\ IsKey(key)
         /\ g[k + 1] = Layout(op, payload, key)
         /\ m = [kind |-> op, data |-> payload]
  BY <1>3 DEF IsFrame
<1>5. PICK seg, n, start : seg = g[k + 1] /\ n = Len(payload) /\ start = HeadLen(n) + Len(key)
  OBVIOUS
<1>6. Agree(rq, seg) /\ seg = Layout(op, payload, key) /\ l = Len(seg)
  BY <1>1, <1>4, <1>5
<1>7. /\ start \in Nat /\ l = start + n
      /\ Len(rq) < l => p = [ok |-> FALSE, packet |-> rq]
      /\ Len(rq) >= l => Unpacked(p, rq, op, payload, key, start, n)
  BY <1>4, <1>5, <1>6, ParseFrame
<1>8. Len(rq) \in Nat /\ l \in Nat /\ n \in Nat
  <2>1. Len(rq) \in Nat
    BY CutLens
  <2>2. l \in Nat
    BY <1>1, <1>5, <1>6
  <2>3. n \in Nat
    BY <1>4, <1>5 DEF IsPayload
  <2> QED
    BY <2>1, <2>2, <2>3
<1>9. CASE Len(rq) < l
  BY <1>7, <1>9 DEF Tried
<1>10. CASE Len(rq) >= l
  <2>1. /\ p.ok
        /\ p.header = [whole |-> TRUE, opcode |-> op, start |-> start, key |-> key, length |-> n]
        /\ p.packet \in Seq(Cells) /\ Len(p.packet) = Len(rq)
        /\ SubSeq(p.packet, start + 1, start + n) = payload
        /\ \A i \in 1..Len(rq) : i > start + n => p.packet[i] = rq[i]
    BY <1>7, <1>10 DEF Unpacked
  <2>2. p.header.opcode = op /\ p.header.start = start /\ p.header.length = n
    BY <2>1
  <2>3. PICK t, kind : t = p.packet /\ kind = op
    OBVIOUS
  <2>4. op \notin {"form", "get"}
    BY <1>4 DEF AllOpcodes, TEXT, BIN, CLOSE, PING, PONG
  <2>5. Behind(X, b, g, d + l, r, wi, k + 1, kind)
    <3>1. /\ t \in Seq(Cells) /\ Len(t) = Len(rq) /\ l <= Len(rq) /\ r = ResetRqst(t, l)
          /\ Kept(t, rq, l, kind)
      BY <1>7, <1>8, <1>10, <2>1, <2>3 DEF Kept
    <3>2. kind = sn[k + 1].kind /\ (kind = "form" => k + 1 = Len(sn))
      BY <1>4, <2>3, <2>4
    <3>3. /\ Stream(X, b, g, sn, st) /\ Cut(X, d, rq, wi) /\ k \in Nat /\ k < Len(sn)
          /\ AtMessage(X, b, d, rq, k) /\ l = Len(g[k + 1])
      OBVIOUS
    <3> QED
      BY ONLY <3>1, <3>2, <3>3, MessageDone
  <2>6. Cut(X, d + l, r, wi) /\ AtMessage(X, b, d + l, r, k + 1)
    BY <2>3, <2>4, <2>5 DEF Behind
  <2> QED
    BY <1>4, <1>7, <2>1, <2>2, <2>6 DEF Received, Tried
<1> QED
  BY <1>8, <1>9, <1>10

\* process_websocket: the next frame goes to the callback, and is answered.
LEMMA ProcessWebsocketInv ==
    ASSUME Inv, ProcessWebsocket
    PROVE  Inv'
<1>1. Flags /\ Protocol(sent, taken, websocket, closeSent) /\ Outputs /\ Quiet
  BY DEF Inv
<1>2. websocket = TRUE /\ busy = TRUE /\ conn # "gone"
  BY <1>1 DEF ProcessWebsocket, Flags
<1>3. /\ wire' = wire /\ busy' = busy /\ websocket' = websocket /\ sent' = sent /\ stray' = stray
  BY DEF ProcessWebsocket
<1>4. PICK p, h : p = ParsePacket(rqst) /\ h = p.header
  OBVIOUS
<1>5. PICK payload : payload = SubSeq(p.packet, h.start + 1, h.start + h.length)
  OBVIOUS
<1>6. /\ p.ok
      /\ taken' = Append(taken, [kind |-> h.opcode, data |-> payload])
      /\ calls' = (IF h.opcode = TEXT THEN Append(calls, [kind |-> h.opcode, data |-> payload])
                                    ELSE calls)
      /\ conn' = (IF h.opcode = CLOSE THEN "closed" ELSE conn)
      /\ replies' = replies \o Reply(h.opcode, payload)
      /\ closeSent' = (closeSent \/ h.opcode = CLOSE)
      /\ rqst' = ResetRqst(p.packet, h.start + h.length)
  BY <1>4, <1>5 DEF ProcessWebsocket
<1>7. PICK X, b, g, d : /\ Stream(X, b, g, sent, stray)
                        /\ Place(X, b, g, d, rqst, wire, Len(taken), TRUE, TRUE)
  BY <1>2 DEF Inv, OnTheWay
<1>8. PICK k : k = Len(taken)
  OBVIOUS
<1>9. IsSeq(sent) /\ IsSeq(taken)
  BY <1>1, <1>7 DEF Stream, Protocol
<1>10. Len(sent) \in Nat /\ k \in Nat /\ k <= Len(sent)
  BY <1>1, <1>8, <1>9, Counts
<1>11. Protocol(sent, taken, TRUE, closeSent)
  BY <1>1, <1>2
<1>12. Cut(X, d, rqst, wire) /\ AtMessage(X, b, d, rqst, k)
  BY <1>7, <1>8 DEF Place
<1>13. k < Len(sent)
  <2>1. ASSUME k = Len(sent) PROVE FALSE
    <3>1. rqst = <<>>
      BY <1>7, <1>12, <2>1, NothingLeft
    <3>2. p.ok = FALSE
      BY <1>4, <3>1, EmptyPacket
    <3> QED
      BY <1>6, <3>2
  <2> QED
    BY <1>10, <2>1
<1>22. conn = "open"
  BY <1>1, <1>2, <1>8, <1>10, <1>13 DEF Quiet
<1>14. PICK m, l, r : m = sent[k + 1] /\ l = Len(g[k + 1]) /\ r = ResetRqst(p.packet, l)
  OBVIOUS
<1>15. Received(X, b, d, wire, k, m, p, l, r)
  <2>1. /\ Stream(X, b, g, sent, stray) /\ Protocol(sent, taken, TRUE, closeSent)
        /\ k \in Nat /\ k = Len(taken) /\ k < Len(sent) /\ p = ParsePacket(rqst)
    BY <1>4, <1>7, <1>8, <1>10, <1>11, <1>13
  <2>2. Tried(X, b, d, rqst, wire, k, m, p, l, r)
    BY ONLY <1>12, <1>14, <2>1, FrameReceived
  <2> QED
    BY <1>6, <2>2 DEF Tried
<1>16. /\ h.opcode \in AllOpcodes /\ l = h.start + h.length /\ IsPayload(payload)
       /\ m = [kind |-> h.opcode, data |-> payload]
       /\ Cut(X, d + l, r, wire) /\ AtMessage(X, b, d + l, r, k + 1)
  BY <1>4, <1>5, <1>15 DEF Received
<1>17. /\ taken' = Append(taken, m) /\ rqst' = r /\ m.kind = h.opcode
       /\ closeSent' = (closeSent \/ m.kind = CLOSE)
       /\ calls' = (IF m.kind = TEXT THEN Append(calls, m) ELSE calls)
       /\ conn' = (IF m.kind = CLOSE THEN "closed" ELSE conn)
  BY <1>6, <1>14, <1>16
<1>18. Protocol(sent, taken, websocket, closeSent)' /\ ~closeSent
  <2>1. PICK t : t = (TRUE \/ m.kind = "upgrade")
    OBVIOUS
  <2>2. Len(taken) < Len(sent) /\ m = sent[Len(taken) + 1]
    BY <1>8, <1>13, <1>14
  <2>3. m.kind # "upgrade"
    BY <1>16, <1>17 DEF AllOpcodes, TEXT, BIN, CLOSE, PING, PONG
  <2>4. Protocol(sent, Append(taken, m), t, closeSent') /\ ~closeSent
    BY <1>9, <1>11, <1>17, <2>1, <2>2, <2>3, ProtocolHandle
  <2>5. t = websocket'
    BY <1>2, <1>3, <2>1
  <2> QED
    BY <1>3, <1>17, <2>4, <2>5
<1>19. Outputs'
  <2>1. closeSent = FALSE
    BY <1>1, <1>18 DEF Flags
  <2>2. PICK s : s = Reply(h.opcode, payload)
    OBVIOUS
  <2>3. s = IF m.kind \in ToAnswer THEN <<Output(m, ToAnswer)>> ELSE <<>>
    BY <1>16, <1>22, <2>1, <2>2, ReplyAnswers, OutputKinds
  <2>4. OutputsOf(Append(taken, m), replies \o s, ToAnswer)
    BY <1>1, <2>3, OutputsStep DEF Outputs
  <2>5. PICK u : u = IF m.kind \in ToCall THEN <<Output(m, ToCall)>> ELSE <<>>
    OBVIOUS
  <2>6. OutputsOf(Append(taken, m), calls \o u, ToCall)
    BY <1>1, <2>5, OutputsStep DEF Outputs
  <2>7. m.kind \in ToCall <=> m.kind = TEXT
    BY <1>16, <1>17 DEF ToCall, AllOpcodes, TEXT, BIN, CLOSE, PING, PONG
  <2>8. u = IF m.kind = TEXT THEN <<m>> ELSE <<>>
    BY <2>5, <2>7, OutputKinds
  <2>9. IsSeq(calls)
    BY <1>1 DEF Outputs, OutputsOf
  <2>10. calls \o <<>> = calls /\ calls \o <<m>> = Append(calls, m)
    BY <2>9 DEF IsSeq
  <2>11. calls \o u = calls'
    BY <1>17, <2>8, <2>10
  <2> QED
    BY <1>6, <1>17, <2>2, <2>4, <2>6, <2>11 DEF Outputs
<1>20. OnTheWay'
  <2>1. Len(taken') = k + 1
    BY <1>8, <1>9, <1>17, Appended DEF Longer
  <2>2. Place(X, b, g, d + l, r, wire, k + 1, TRUE, TRUE)
    BY <1>16 DEF Place
  <2>3. /\ Stream(X, b, g, sent', stray')
        /\ Place(X, b, g, d + l, rqst', wire', Len(taken'), websocket', busy')
    BY <1>2, <1>3, <1>7, <1>17, <2>1, <2>2
  <2> QED
    BY <2>3 DEF OnTheWay
<1>21. Flags'
  <2>1. closeSent' \in BOOLEAN /\ conn' \in {"open", "closed"}
    BY <1>6, <1>22
  <2> QED
    BY <1>1, <1>3, <2>1 DEF Flags
<1>23. Quiet'
  <2>1. Len(taken') = k + 1
    BY <1>8, <1>9, <1>17, Appended DEF Longer
  <2>2. m.kind = CLOSE => k + 1 = Len(sent)
    <3>1. k + 1 \in 1..Len(sent)
      BY <1>10, <1>13
    <3> QED
      BY <1>11, <1>14, <3>1 DEF Protocol
  <2>3. conn' # "open" => k + 1 = Len(sent')
    BY <1>3, <1>17, <1>22, <2>2
  <2> QED
    BY <2>1, <2>3 DEF Quiet
<1> QED
  BY <1>18, <1>19, <1>20, <1>21, <1>23 DEF Inv

\* What the parser leaves of a text that holds no complete request stands in the
\* stream where the text stood, or behind the newline.
LEMMA RequestWaits ==
    ASSUME NEW X, NEW b, NEW g, NEW sn, NEW st, Stream(X, b, g, sn, st), NEW hd, NEW cs,
           Protocol(sn, hd, FALSE, cs), NEW k, k = Len(hd), NEW d, NEW rq, NEW wi,
           Place(X, b, g, d, rq, wi, k, FALSE, TRUE), ~Complete(rq), ~ParseRequest(rq).loops,
           NEW r, r = ParseRequest(rq).rqst
    PROVE  \E e : Place(X, b, g, e, r, wi, k, FALSE, FALSE)
<1>1. /\ Cut(X, d, rq, wi)
      /\ AtMessage(X, b, d, rq, k) \/ AtNewline(X, b, g, d, rq, k, TRUE)
  BY DEF Place
<1>2. X \in Seq(Cells) /\ IsSeq(sn)
  BY DEF Stream
<1>3. Len(sn) \in Nat /\ k \in Nat /\ k <= Len(sn)
  BY <1>2, Counts
<1>4. rq = <<>> => r = rq
  BY NothingRead
<1>5. CASE AtMessage(X, b, d, rq, k)
  <2>1. r = rq
    <3>1. CASE k = Len(sn)
      BY <1>1, <1>4, <1>5, <3>1, NothingLeft
    <3>2. CASE k # Len(sn)
      <4>1. k < Len(sn)
        BY <1>3, <3>2
      <4>2. PICK i, m, seg : i = k + 1 /\ m = sn[i] /\ seg = g[i]
        OBVIOUS
      <4>3. Placed(X, b, g, m, i) /\ Agree(rq, seg) /\ i \in 1..Len(sn) /\ i \in Nat
        BY <1>1, <1>3, <1>5, <4>1, <4>2, NextAgrees
      <4>4. m.kind \in HttpKinds
        BY <4>2, <4>3 DEF Protocol
      <4>5. IsRequest(seg, m, i)
        BY <4>2, <4>3, <4>4, KindTells
      <4>6. PICK kind, body : /\ kind \in HttpKinds /\ (kind = "form" => IsForm(body))
                              /\ seg = Lines(kind, i, body)
        BY <4>5 DEF IsRequest
      <4> QED
        BY <4>3, <4>6, RequestRead
    <3> QED
      BY <3>1, <3>2
  <2> QED
    BY <1>1, <1>5, <2>1 DEF Place
<1>6. CASE AtNewline(X, b, g, d, rq, k, TRUE)
  <2>1. CASE rq = <<>>
    <3>1. \A i \in 1..0 : FALSE
      OBVIOUS
    <3>2. Same(X, d, rq)
      BY <2>1, <3>1 DEF Same
    <3>3. AtNewline(X, b, g, d, rq, k, FALSE)
      BY <1>6, <3>2 DEF AtNewline
    <3> QED
      BY <1>1, <1>4, <2>1, <3>3 DEF Place
  <2>2. CASE rq # <<>>
    <3>1. rq \in Seq(Cells) /\ Len(rq) >= 1
      BY <1>1, <2>2 DEF Cut
    <3>2. r = SubSeq(rq, 2, Len(rq))
      <4>1. CASE Same(X, d, rq)
        <5>1. rq[1] = <<"crlf", 0>> /\ (Len(rq) >= 2 => rq[2][1] \in Method)
          BY <1>1, <1>6, <3>1, <4>1, NewlineText
        <5> QED
          BY <3>1, <5>1, NewlineRead
      <4>2. CASE ~Same(X, d, rq)
        <5>1. rq = << <<"nul", 0>> >>
          BY <1>6, <4>2 DEF AtNewline
        <5>2. Len(rq) = 1
          BY <5>1
        <5>3. SubSeq(rq, 2, 1) = <<>>
          BY <3>1
        <5> QED
          BY <5>1, <5>2, <5>3, NothingRead
      <4> QED
        BY <4>1, <4>2
    <3>3. Cut(X, d + 1, r, wi) /\ AtMessage(X, b, d + 1, r, k)
      BY <1>1, <1>2, <1>6, <3>1, <3>2, NewlineDone
    <3> QED
      BY <3>3 DEF Place
  <2> QED
    BY <2>1, <2>2
<1> QED
  BY <1>1, <1>5, <1>6

\* What ParsePacket leaves of a text that holds no frame yet is the text.
LEMMA FrameWaits ==
    ASSUME NEW X, NEW b, NEW g, NEW sn, NEW st, Stream(X, b, g, sn, st), NEW hd, NEW cs,
           Protocol(sn, hd, TRUE, cs), NEW k, k = Len(hd), NEW d, NEW rq, NEW wi, NEW bz,
           Place(X, b, g, d, rq, wi, k, TRUE, bz), ~ParsePacket(rq).ok
    PROVE  ParsePacket(rq).packet = rq /\ Place(X, b, g, d, rq, wi, k, TRUE, FALSE)
<1>1. Cut(X, d, rq, wi) /\ AtMessage(X, b, d, rq, k)
  BY DEF Place
<1>2. IsSeq(sn)
  BY DEF Stream
<1>3. Len(sn) \in Nat /\ k \in Nat /\ k <= Len(sn)
  BY <1>2, Counts
<1>4. ParsePacket(rq).packet = rq
  <2>1. CASE k = Len(sn)
    <3>1. rq = <<>>
      BY <1>1, <2>1, NothingLeft
    <3> QED
      BY <3>1, EmptyPacket
  <2>2. CASE k # Len(sn)
    <3>1. k < Len(sn)
      BY <1>3, <2>2
    <3>2. PICK m, p, l, r : /\ m = sn[k + 1] /\ p = ParsePacket(rq) /\ l = Len(g[k + 1])
                            /\ r = ResetRqst(p.packet, l)
      OBVIOUS
    <3>3. Stream(X, b, g, sn, st) /\ Protocol(sn, hd, TRUE, cs) /\ k \in Nat /\ k = Len(hd)
      BY <1>3
    <3>4. Tried(X, b, d, rq, wi, k, m, p, l, r)
      BY ONLY <1>1, <3>1, <3>2, <3>3, FrameReceived
    <3> QED
      BY <3>2, <3>4 DEF Tried
  <2> QED
    BY <2>1, <2>2
<1> QED
  BY <1>1, <1>4 DEF Place

\* tcp_server_recv returns, and leaves what it could not use for the next segment.
LEMMA ReturnInv ==
    ASSUME Inv, Return
    PROVE  Inv'
<1>1. Flags /\ Protocol(sent, taken, websocket, closeSent) /\ Outputs
  BY DEF Inv
<1>2. /\ busy = TRUE /\ busy' = FALSE /\ wire' = wire /\ websocket' = websocket
      /\ closeSent' = closeSent /\ replies' = replies /\ sent' = sent /\ taken' = taken
      /\ stray' = stray /\ conn' = conn /\ calls' = calls /\ conn # "gone"
  BY <1>1 DEF Return, Flags
<1>3. PICK X, b, g, d : /\ Stream(X, b, g, sent, stray)
                        /\ Place(X, b, g, d, rqst, wire, Len(taken), websocket, TRUE)
  BY <1>2 DEF Inv, OnTheWay
<1>4. PICK k : k = Len(taken)
  OBVIOUS
<1>5. \E e : Place(X, b, g, e, rqst', wire, k, websocket, FALSE)
  <2>1. CASE websocket = FALSE
    <3>1. ~ParseRequest(rqst).complete /\ ~ParseRequest(rqst).loops /\ rqst' = ParseRequest(rqst).rqst
      BY <2>1 DEF Return
    <3>2. ~Complete(rqst)
      <4>1. ParseRequest(rqst).complete <=> Complete(rqst)
        BY DEF ParseRequest
      <4> QED
        BY <3>1, <4>1
    <3>3. Protocol(sent, taken, FALSE, closeSent) /\ Place(X, b, g, d, rqst, wire, k, FALSE, TRUE)
      BY <1>1, <1>3, <1>4, <2>1
    <3>4. \E e : Place(X, b, g, e, rqst', wire, k, FALSE, FALSE)
      BY <1>3, <1>4, <3>1, <3>2, <3>3, RequestWaits
    <3> QED
      BY <2>1, <3>4
  <2>2. CASE websocket = TRUE
    <3>1. ~ParsePacket(rqst).ok /\ rqst' = ParsePacket(rqst).packet
      BY <2>2 DEF Return
    <3>2. Protocol(sent, taken, TRUE, closeSent) /\ Place(X, b, g, d, rqst, wire, k, TRUE, TRUE)
      BY <1>1, <1>3, <1>4, <2>2
    <3>3. rqst' = rqst /\ Place(X, b, g, d, rqst, wire, k, TRUE, FALSE)
      BY <1>3, <1>4, <3>1, <3>2, FrameWaits
    <3> QED
      BY <2>2, <3>3
  <2> QED
    BY <1>1, <2>1, <2>2 DEF Flags
<1>6. OnTheWay'
  <2>1. PICK e : Place(X, b, g, e, rqst', wire, k, websocket, FALSE)
    BY <1>5
  <2>2. /\ Stream(X, b, g, sent', stray')
        /\ Place(X, b, g, e, rqst', wire', Len(taken'), websocket', busy')
    BY <1>2, <1>3, <1>4, <2>1
  <2> QED
    BY <2>2 DEF OnTheWay
<1>7. Flags' /\ Quiet' /\ Outputs'
  BY <1>1, <1>2 DEF Flags, Quiet, Outputs, Inv
<1> QED
  BY <1>1, <1>2, <1>6, <1>7 DEF Inv

\* The client is deleted: nothing of what was sent is on the way any more.
LEMMA GoneInv ==
    ASSUME Inv, Gone
    PROVE  Inv'
<1>1. Flags /\ Protocol(sent, taken, websocket, closeSent) /\ Outputs /\ Quiet
  BY DEF Inv
<1>2. /\ conn = "closed" /\ conn' = "gone" /\ busy = FALSE /\ busy' = FALSE
      /\ websocket' = websocket /\ closeSent' = closeSent /\ replies' = replies
      /\ sent' = sent /\ taken' = taken /\ calls' = calls /\ stray' = stray
  BY <1>1 DEF Gone, Flags
<1>3. Flags' /\ Quiet' /\ Outputs'
  BY <1>1, <1>2 DEF Flags, Quiet, Outputs
<1>4. OnTheWay'
  BY <1>2 DEF OnTheWay
<1> QED
  BY <1>1, <1>2, <1>3, <1>4 DEF Inv

\* Every step keeps the invariant.
LEMMA NextInv ==
    ASSUME Strays \subseteq {"crlf"}, Inv, [Next]_vars
    PROVE  Inv'
<1>1. ASSUME NEW kind \in Requests, SendRequest(kind, <<>>) PROVE Inv'
  <2>1. kind \in HttpKinds /\ kind # "form"
    BY RequestsAssumption DEF HttpKinds
  <2> QED
    BY <1>1, <2>1, RequestInv
<1>2. ASSUME NEW body \in Forms, SendRequest("form", body) PROVE Inv'
  <2>1. IsForm(body) /\ "form" \in HttpKinds
    BY FormsAssumption DEF IsForm, HttpKinds
  <2> QED
    BY <1>2, <2>1, RequestInv
<1>3. ASSUME NEW opcode \in Opcodes, NEW payload \in Payloads, SendFrame(opcode, payload) PROVE Inv'
  BY <1>3, FrameInv
<1>4. ASSUME NEW kind \in Strays, SendStray(kind) PROVE Inv'
  <2>1. kind = "crlf"
    OBVIOUS
  <2> QED
    BY <1>4, <2>1, StrayInv
<1>5. ASSUME NEW n \in 1..Len(wire), Recv(n) PROVE Inv'
  BY <1>5, RecvInv
<1>6. CASE ProcessRqst
  BY <1>6, ProcessRqstInv
<1>7. CASE ProcessWebsocket
  BY <1>7, ProcessWebsocketInv
<1>8. CASE Return
  BY <1>8, ReturnInv
<1>9. CASE Gone
  BY <1>9, GoneInv
<1>10. CASE UNCHANGED vars
  BY <1>10 DEF Inv, Flags, Quiet, Outputs, OnTheWay, vars
<1> QED
  BY <1>1, <1>2, <1>3, <1>4, <1>5, <1>6, <1>7, <1>8, <1>9, <1>10 DEF Next, ServerStep

\* The invariant says that the server took what was sent, that the callbacks got
\* what is meant for them, and the client its answers.
LEMMA InvDelivers == Inv => Delivered
<1> SUFFICES ASSUME Inv PROVE Delivered
  OBVIOUS
<1>1. Protocol(sent, taken, websocket, closeSent) /\ Outputs
  BY DEF Inv
<1>2. Flags
  BY DEF Inv
<1>3. IsSeq(sent) /\ IsSeq(taken)
  BY <1>1, <1>2 DEF Flags, Protocol
<1>4. PICK S, U : sent \in Seq(S) /\ taken \in Seq(U)
  BY <1>3 DEF IsSeq
<1>5. PICK k \in Nat : k = Len(taken) /\ k <= Len(sent) /\ \A i \in 1..k : taken[i] = sent[i]
  BY <1>1, <1>4 DEF Protocol
<1>6. IsPrefix(taken, sent)
  <2>1. PICK u, v : u = SubSeq(taken, 0 + 1, k) /\ v = SubSeq(sent, 0 + 1, k)
    OBVIOUS
  <2>2. Len(sent) \in Nat /\ 0 <= k /\ k <= Len(taken)
    BY <1>4, <1>5
  <2>3. u \in Seq(U) /\ Slice(u, taken, 0, k)
    BY <1>4, <1>5, <2>1, <2>2, Parting
  <2>4. v \in Seq(S) /\ Slice(v, sent, 0, k)
    BY <1>4, <1>5, <2>1, <2>2, Parting
  <2>5. Len(u) = k /\ Len(v) = k /\ \A i \in 1..k : u[i] = taken[i] /\ v[i] = sent[i]
    BY <2>3, <2>4 DEF Slice
  <2>6. u = v
    BY <1>5, <2>3, <2>4, <2>5, SameSeq
  <2> QED
    BY <1>5, <2>1, <2>6 DEF IsPrefix
<1>7. ASSUME NEW n, NEW K PROVE NumberOf(n, K) = CountOf(taken, n, K)
  BY DEF NumberOf, CountOf
<1>8. Called
  <2>1. ASSUME NEW i \in 1..Len(taken), taken[i].kind \in ToCall
        PROVE  calls[CountOf(taken, i, ToCall)] = taken[i]
    BY <1>1, <2>1, OutputKinds DEF Outputs, OutputsOf
  <2> QED
    BY <1>1, <1>7, <2>1 DEF Called, Outputs, OutputsOf
<1>9. Answered
  <2>1. ASSUME NEW i \in 1..Len(taken), taken[i].kind \in ToAnswer
        PROVE  replies[CountOf(taken, i, ToAnswer)] = AnswerTo(taken[i])
    BY <1>1, <2>1, OutputKinds DEF Outputs, OutputsOf
  <2> QED
    BY <1>1, <1>7, <2>1 DEF Answered, AnswerTo, Outputs, OutputsOf
<1> QED
  BY <1>6, <1>8, <1>9 DEF Delivered

\* For every set of requests, forms, payloads and masking key, and however TCP cuts
\* the bytes into segments, tcp_server_recv takes from the text what the client
\* sent: requests and frames whole and in order, forms with all their values, frames
\* unmasked once.  The application's callbacks get every request and text message
\* and nothing else, in order; binary frames reach nobody.  The client gets a pong
\* for every ping and one close frame for its own.  A stray newline between requests
\* may close the connection, but it changes none of this.
THEOREM ReceiveDelivered ==
    ASSUME Strays \subseteq {"crlf"}
    PROVE  Spec => []Delivered
<1>1. Init => Inv
  BY InitInv
<1>2. Inv /\ [Next]_vars => Inv'
  BY NextInv
<1>3. Inv => Delivered
  BY InvDelivers
<1> QED
  BY <1>1, <1>2, <1>3, PTL DEF Spec
=============================================================================
