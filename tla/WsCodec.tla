------------------------------- MODULE WsCodec -------------------------------
(***************************************************************************)
(* Websocket frames (network/ws.cpp).  A frame is a sequence: the opcode,  *)
(* the length code with the mask bit, up to eight digits of the length,    *)
(* the masking key, the payload.  The limits are those of the code scaled  *)
(* down together; FIN is always 1 and RSV 0.                               *)
(***************************************************************************)
EXTENDS Binary, Sequences

CONSTANTS
    Len16,   \* 126: the length code of a two digit length
    Len64,   \* 127: the length code of an eight digit length
    Bits     \* 8: bits of a byte

\* Values of a byte.
Digit == Pow2[Bits]

ASSUME BitsAssumption == Bits \in Nat \ {0}
ASSUME CodesAssumption == Len16 \in 1..Digit /\ Len64 = Len16 + 1

KeyLen == 4
MaskBit == Len64 + 1

\* WebSocketOpCode
TEXT == "text"
BIN == "bin"
CLOSE == "close"
PING == "ping"
PONG == "pong"

\* The lowest k digits of a number, and the number of four digits.
Digits(n, k) == [i \in 1..k |-> (n \div Pow2[Bits * (k - i)]) % Digit]
Joined(d) == ((d[1] * Digit + d[2]) * Digit + d[3]) * Digit + d[4]

\* The exclusive or of two bytes.
Xor(a, b) == Number({k \in 0..(Bits - 1) : BitOf(a, k) # BitOf(b, k)}, Bits)

\* A payload masked, or unmasked.
Masked(s, key) == [i \in DOMAIN s |-> Xor(s[i], key[((i - 1) % KeyLen) + 1])]

LengthCode(n) == IF n < Len16 THEN n ELSE IF n < Digit * Digit THEN Len16 ELSE Len64

\* BuildPacket.  A payload is masked when it has a key and is not empty.
BuildPacket(opcode, payload, key) ==
    LET n == Len(payload)
        code == LengthCode(n)
        mask == key # <<>> /\ n > 0
    IN <<opcode, code + (IF mask THEN MaskBit ELSE 0)>>
       \o (IF code = Len16 THEN Digits(n, 2) ELSE <<>>)
       \o (IF code = Len64 THEN <<0, 0, 0, 0>> \o Digits(n, 4) ELSE <<>>)
       \o (IF mask THEN key \o Masked(payload, key) ELSE payload)

\* The header of a packet.  start is where the payload begins; whole says that
\* all of the header has arrived, and then length is that of the payload.
Header(packet) ==
    LET code == packet[2] % MaskBit
        keyAt == 2 + (IF code = Len16 THEN 2 ELSE IF code = Len64 THEN 8 ELSE 0)
        start == keyAt + (IF packet[2] >= MaskBit THEN KeyLen ELSE 0)
    IN IF Len(packet) < 2 \/ Len(packet) < start THEN [whole |-> FALSE]
       ELSE [whole |-> TRUE, opcode |-> packet[1], start |-> start,
             key |-> SubSeq(packet, keyAt + 1, start),
             length |-> IF code = Len16 THEN packet[3] * Digit + packet[4]
                        ELSE IF code = Len64 THEN Joined(SubSeq(packet, 7, 10))
                        ELSE code]

\* A packet of which the n numbers after the header are unmasked in place.
Decrypted(packet, h, n) ==
    LET payload == SubSeq(packet, h.start + 1, h.start + n)
    IN IF h.key = <<>> THEN packet
       ELSE SubSeq(packet, 1, h.start) \o Masked(payload, h.key)
            \o SubSeq(packet, h.start + n + 1, Len(packet))

\* Mutant of ParsePacket: what has arrived of the payload is decrypted before
\* the length is tested, and again when more arrives.
ParsePacketEarly(packet) ==
    LET h == Header(packet)
        have == Len(packet) - h.start
    IN IF ~h.whole THEN [ok |-> FALSE, packet |-> packet]
       ELSE IF have < h.length THEN [ok |-> FALSE, packet |-> Decrypted(packet, h, have)]
       ELSE [ok |-> TRUE, header |-> h, packet |-> Decrypted(packet, h, h.length)]

\* ParsePacket.  ok is WEBSOCKET_SUCCESS; packet is the text, with the payload
\* decrypted when all of it has arrived.
ParsePacket(packet) ==
    LET h == Header(packet)
    IN IF ~h.whole THEN [ok |-> FALSE, packet |-> packet]
       ELSE IF Len(packet) < h.start + h.length THEN [ok |-> FALSE, packet |-> packet]
       ELSE [ok |-> TRUE, header |-> h, packet |-> Decrypted(packet, h, h.length)]
=============================================================================
