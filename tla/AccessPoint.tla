---------------------------- MODULE AccessPoint ----------------------------
(***************************************************************************)
(* The access point of the web server (network/web.cpp): the application   *)
(* asks for it with enable_ap, whose two assignments the 500 ms timer may  *)
(* interrupt, and check_wifi, called by the timer, starts and stops it     *)
(* together with the DHCP server.  The rest of check_wifi has state of its *)
(* own (WifiStation), so it does not appear here.                          *)
(***************************************************************************)
EXTENDS Integers

CONSTANTS
    Names,            \* names the application gives the access point
    Empty,            \* the empty name ap_name_ starts with
    Torn,             \* what ap_name_ reads as while it is being assigned
    Off,              \* the radio is not in access point mode
    Minutes,          \* periods the application asks for
    TicksPerMinute,   \* 60 * 2 in the code
    MaxRequests,      \* bound: calls of enable_ap
    DhcpOutcomes      \* whether dhcp_server_init gets its socket

ASSUME MinutesAssumption ==
    /\ Minutes \subseteq Nat
    /\ TicksPerMinute \in Nat \ {0}
    /\ MaxRequests \in Nat
ASSUME NamesAssumption == Names \cap {Empty, Torn, Off} = {} /\ Off \notin {Empty, Torn}
ASSUME DhcpAssumption == DhcpOutcomes \subseteq BOOLEAN

VARIABLES
    ap_active, ap_requested, ap_name,   \* members of WEB
    radio,       \* the network the radio serves: Off, or its name
    sockets,     \* sockets the DHCP server holds
    call,        \* where enable_ap is: done, minutes set, or name half assigned
    name,        \* its argument
    requests,    \* calls of enable_ap so far
    asked,       \* ghost: the minutes of the last request served
    served       \* ghost: ticks since then, up to one more than they come to

apVars == <<ap_active, ap_requested, ap_name, radio, sockets, call, name,
          requests, asked, served>>

ApInit ==
    /\ ap_active = 0 /\ ap_requested = 0 /\ ap_name = Empty
    /\ radio = Off /\ sockets = 0
    /\ call = "done" /\ name = Empty /\ requests = 0
    /\ asked = 0 /\ served = 0

-----------------------------------------------------------------------------
\* enable_ap: the minutes first, then the name.
EnableMinutes(m, n) ==
    /\ call = "done" /\ requests < MaxRequests
    /\ ap_requested' = m
    /\ call' = "minutes" /\ name' = n /\ requests' = requests + 1
    /\ UNCHANGED <<ap_active, ap_name, radio, sockets, asked, served>>

EnableName ==
    /\ \/ call = "minutes" /\ ap_name' = Torn /\ call' = "assigning"
       \/ call = "assigning" /\ ap_name' = name /\ call' = "done"
    /\ UNCHANGED <<ap_active, ap_requested, radio, sockets, name, requests, asked, served>>

\* Mutants of Left: the count runs on below zero; it stands still; the period
\* is over one tick early.
LeftBelow == ap_active - 1
LeftStill == ap_active
LeftShort == IF ap_active > 2 THEN ap_active - 1 ELSE 0
\* The ticks left once check_wifi has counted this one.
Left == IF ap_active > 0 THEN ap_active - 1 ELSE 0

\* stop_ap is due, and start_ap with the access point off, in this tick.
Stops == ap_active > 0 /\ Left = 0

\* Mutant of Starts: start_ap does not look whether it is already active.
StartsAlways == ap_requested > 0
Starts == ap_requested > 0 /\ Left = 0

\* Mutant of Granted: a request while active adds to the time left.
GrantedMore == ap_active + ap_requested * TicksPerMinute
Granted == ap_requested * TicksPerMinute

\* stop_ap, then start_ap, each with the DHCP server; deinit frees a socket
\* only if init got one.
ApTick(dhcp) ==
    /\ ap_active' = IF ap_requested > 0 THEN Granted ELSE Left
    /\ ap_requested' = 0
    /\ radio' = IF Starts THEN ap_name ELSE IF Stops THEN Off ELSE radio
    /\ LET kept == IF Stops /\ sockets > 0 THEN sockets - 1 ELSE sockets
       IN  sockets' = IF Starts /\ dhcp THEN kept + 1 ELSE kept
    /\ asked' = IF ap_requested > 0 THEN ap_requested ELSE asked
    /\ served' = IF ap_requested > 0 \/ radio = Off THEN 0
                 ELSE IF served > asked * TicksPerMinute THEN served ELSE served + 1
    /\ UNCHANGED <<ap_name, call, name, requests>>

ApOther == (\E m \in Minutes, n \in Names : EnableMinutes(m, n)) \/ EnableName

ApNext == ApOther \/ (\E dhcp \in DhcpOutcomes : ApTick(dhcp))

ApSpec == ApInit /\ [][ApNext]_apVars

-----------------------------------------------------------------------------
(* Properties                                                               *)

\* Counters are never negative, and names are names.
ApTypeOK ==
    /\ {ap_active, ap_requested, sockets, requests, asked, served} \subseteq Nat
    /\ ap_name \in Names \cup {Empty, Torn} /\ radio \in Names \cup {Empty, Torn, Off}
    /\ call \in {"done", "minutes", "assigning"} /\ name \in Names \cup {Empty}

\* The radio is in access point mode exactly while is_ap_active says so, and
\* stop_ap and start_ap leave the DHCP server with one socket or none.
RadioMatches ==
    /\ (radio # Off) = (ap_active > 0)
    /\ sockets <= 1
    /\ radio = Off => sockets = 0

\* The access point is not cut short: it stops only after the full period of
\* the last request, whatever tick or request came in between.
FullPeriod ==
    [][radio # Off /\ radio' = Off => served' = asked * TicksPerMinute]_apVars

\* Once the application stops asking, the access point stops.
TurnsOff == <>[](radio = Off)
=============================================================================
