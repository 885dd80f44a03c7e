----------------------------- MODULE ByteStream -----------------------------
(***************************************************************************)
(* What the web server promises the application about one connection: the  *)
(* bytes it accepts leave in the order of acceptance, each exactly once;   *)
(* it accepts bytes only until it begins to close; and a connection that   *)
(* it closes itself has delivered everything it accepted.  A connection    *)
(* that is lost to the peer or to an error promises no more than that      *)
(* what has left is a prefix of what was accepted.                         *)
(***************************************************************************)
EXTENDS Integers, Sequences

VARIABLES
    accepted,   \* number of bytes accepted from the application
    wire,       \* the bytes handed to the network, as stream positions
    acked,      \* number of bytes the peer has acknowledged
    phase       \* "open", "closing", "closed" or "lost"

vars == <<accepted, wire, acked, phase>>

\* The bytes lo+1 .. hi of the stream.
Span(lo, hi) == [i \in 1..(hi - lo) |-> lo + i]

Init == accepted = 0 /\ wire = <<>> /\ acked = 0 /\ phase = "open"

\* One event: bytes may be accepted, acknowledged and written, in that order
\* of possibility, and the connection may begin to close.
Transfer ==
    /\ phase \in {"open", "closing"}
    /\ phase' \in {"open", "closing"} /\ (phase = "closing" => phase' = "closing")
    /\ accepted' \in Nat /\ accepted' >= accepted
    /\ phase = "closing" => accepted' = accepted
    /\ \E hi \in Len(wire)..accepted' : wire' = wire \o Span(Len(wire), hi)
    /\ acked' \in acked..Len(wire)

\* The server ends the connection: only from here, and with nothing left.
Finish ==
    /\ phase \in {"open", "closing"} /\ phase' = "closed"
    /\ UNCHANGED <<accepted, wire>>
    /\ Len(wire) = accepted /\ acked' = accepted

\* The peer or an error ends the connection.
Lose ==
    /\ phase \in {"open", "closing"} /\ phase' = "lost"
    /\ UNCHANGED <<accepted, wire, acked>>

Next == Transfer \/ Finish \/ Lose

Spec == Init /\ [][Next]_vars
=============================================================================
