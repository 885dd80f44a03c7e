-------------------------------- MODULE Parts --------------------------------
(***************************************************************************)
(* The parts of the library that share no state with any other: the        *)
(* button, the LED, sound, the log file, the DHCP server and the browser's *)
(* socket.  A behaviour is one of one of them, named by part; the others   *)
(* stay as they began.                                                     *)
(***************************************************************************)
EXTENDS Button, Led, Sound, FileLogger, DhcpServer, BrowserSocket

VARIABLE part

vars == <<part, button, led, sound, log, dhcp, browser>>

Names == {"button", "led", "sound", "log", "dhcp", "browser"}

Init ==
    /\ part \in Names
    /\ ButtonInit /\ LedInit /\ SoundInit /\ LogInit /\ DhcpInit /\ SocketInit
    /\ part # "button" => ~down
    /\ part # "led" => lit
    /\ part # "sound" => datasz = CHOOSE n \in DataSizes : TRUE
    /\ part # "browser" => patient

Next ==
    /\ UNCHANGED part
    /\ \/ part = "button" /\ ButtonNext /\ UNCHANGED <<led, sound, log, dhcp, browser>>
       \/ part = "led" /\ LedNext /\ UNCHANGED <<button, sound, log, dhcp, browser>>
       \/ part = "sound" /\ SoundNext /\ UNCHANGED <<button, led, log, dhcp, browser>>
       \/ part = "log" /\ LogNext /\ UNCHANGED <<button, led, sound, dhcp, browser>>
       \/ part = "dhcp" /\ DhcpNext /\ UNCHANGED <<button, led, sound, log, browser>>
       \/ part = "browser" /\ SocketNext /\ UNCHANGED <<button, led, sound, log, dhcp>>

Spec == Init /\ [][Next]_vars /\ SoundFairness /\ SocketFairness

\* Every part is in one of its states.
TypeOK ==
    /\ part \in Names
    /\ ButtonTypeOK /\ LedTypeOK /\ SoundTypeOK /\ LogTypeOK /\ DhcpTypeOK /\ SocketTypeOK
=============================================================================
