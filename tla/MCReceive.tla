------------------------------ MODULE MCReceive ------------------------------
EXTENDS Receive

KeyValue == <<1, 2, 3, 0>>

\* k=v, k= and two items of which the first has no value.
Text(v) == <<"text", v>>
Eq == <<"eq", 0>>
Amp == <<"amp", 0>>
FormsValue == {<<Text(1), Eq, Text(2)>>,
               <<Text(1), Eq, Amp, Text(2), Eq, Text(3)>>,
               <<Text(1), Eq, Text(2), Amp, Text(3), Eq>>}

\* Nothing, and payloads of the three encodings of the length with their limits.
Run(n) == [i \in 1..n |-> i % Digit]
PayloadsValue == {Run(n) : n \in {0, Len16 - 1, Len16, Digit * Digit - 1, Digit * Digit}}

OpcodesValue == {TEXT, BIN, PING, CLOSE}
=============================================================================
