---------------------------- MODULE WifiStation ----------------------------
(***************************************************************************)
(* The web server's connection to a WiFi network (network/web.cpp): the    *)
(* 500 ms timer's check_wifi compares the status of the radio with the one *)
(* it saw last, tells the application and, some time after the network was *)
(* lost, connects again.  connect_to_wifi and update_wifi are the          *)
(* application's.                                                          *)
(*                                                                         *)
(* The radio (cyw43) is external: asked to connect it joins, which ends in *)
(* a link or in a failure; a link may be lost at any time; it does not     *)
(* join again by itself.                                                   *)
(***************************************************************************)
EXTENDS Integers

CONSTANTS
    Configs,           \* host name, network and password, taken together
    NoNetwork,         \* a configuration without a network
    Interval,          \* reconnect_interval_, 600 in the code
    Addresses,         \* addresses the station may be given
    NoAddress,
    ConnectOutcomes,   \* results of cyw43_arch_wifi_connect_async, for the
    RetryOutcomes,     \* application and for the timer
    SlowJoin           \* joining takes longer than one period of the timer

ASSUME ConfigsAssumption == NoNetwork \notin Configs /\ NoAddress \notin Addresses
ASSUME IntervalAssumption == Interval \in Nat \ {0}
ASSUME OutcomesAssumption == ConnectOutcomes \cup RetryOutcomes \subseteq BOOLEAN
ASSUME SlowJoinAssumption == SlowJoin \in BOOLEAN

Initializing == {"join", "noip"}
Lost == {"down", "fail", "nonet"}
Status == Initializing \cup Lost \cup {"up", "badauth"}

VARIABLES
    link, addr,            \* the radio: cyw43_tcpip_link_status, netif address
    config,                \* hostname_, wifi_ssid_, wifi_pwd_
    wifi_state, wifi_addr, reconnect_time,   \* members of WEB
    notice                 \* what the application was told last

stationVars == <<link, addr, config, wifi_state, wifi_addr, reconnect_time, notice>>

\* send_notice of check_wifi and of update_wifi for a state
Notice(state) == IF state \in Initializing THEN "initializing"
                 ELSE IF state = "up" THEN "connected" ELSE "disconnected"

StationInit ==
    /\ link = "down" /\ addr = NoAddress
    /\ config = NoNetwork
    /\ wifi_state = "down" /\ wifi_addr = NoAddress /\ reconnect_time = 0
    /\ notice = "none"

-----------------------------------------------------------------------------
(* The application                                                          *)

\* cyw43_arch_wifi_connect_async from link status l.
Connect(c, l, ok) ==
    /\ config' = c
    /\ link' = IF c # NoNetwork /\ ok THEN "join" ELSE l
    /\ addr' = IF (c # NoNetwork /\ ok) \/ l = "down" THEN NoAddress ELSE addr

ConnectToWifi(c, ok) ==
    /\ Connect(c, link, ok)
    /\ UNCHANGED <<wifi_state, wifi_addr, reconnect_time, notice>>

\* update_wifi with a change: cyw43_wifi_leave and connect_to_wifi.
UpdateWifi(c, ok) ==
    /\ c # config
    /\ Connect(c, "down", ok)
    /\ UNCHANGED <<wifi_state, wifi_addr, reconnect_time, notice>>

\* update_wifi without one tells the application what wifi_state_ says.
UpdateSame ==
    /\ notice' = Notice(wifi_state)
    /\ UNCHANGED <<link, addr, config, wifi_state, wifi_addr, reconnect_time>>

-----------------------------------------------------------------------------
(* The timer                                                                *)

Changed == link # wifi_state \/ addr # wifi_addr

\* Mutant of Armed: the time is left as it is.
ArmedNever == IF Changed /\ link = "up" THEN 0 ELSE reconnect_time
\* reconnect_time_ after the switch of check_wifi.
Armed == IF ~Changed THEN reconnect_time
         ELSE IF link = "up" THEN 0
         ELSE IF link \in Lost THEN Interval
         ELSE reconnect_time

\* The time is over, and the network still lost.
Due == Armed = 1 /\ link \in Lost /\ config # NoNetwork

\* Mutant of Told: the notice is sent before wifi_state_ is assigned.
ToldBefore == IF Changed THEN Notice(wifi_state) ELSE notice
\* The notice check_wifi sends, if any.
Told == IF Changed THEN Notice(link) ELSE notice

\* check_wifi
StationTick(ok) ==
    /\ wifi_state' = link /\ wifi_addr' = addr
    /\ notice' = Told
    /\ reconnect_time' = IF Armed > 0 THEN Armed - 1 ELSE 0
    /\ IF Due THEN Connect(config, link, ok) ELSE UNCHANGED <<link, addr, config>>

-----------------------------------------------------------------------------
(* The radio                                                                *)

JoinEnds ==
    /\ link = "join" /\ (SlowJoin => wifi_state = "join")
    /\ link' \in {"noip", "fail", "nonet", "badauth"}
    /\ UNCHANGED addr

AddressComes ==
    /\ link \in {"noip", "up"}
    /\ link' = "up" /\ addr' \in Addresses \ {addr}

LinkLost ==
    /\ link \in {"noip", "up"}
    /\ link' = "down" /\ addr' = NoAddress

Radio ==
    /\ JoinEnds \/ AddressComes \/ LinkLost
    /\ UNCHANGED <<config, wifi_state, wifi_addr, reconnect_time, notice>>

StationOther ==
    \/ \E c \in Configs \cup {NoNetwork}, ok \in ConnectOutcomes :
          ConnectToWifi(c, ok) \/ UpdateWifi(c, ok)
    \/ UpdateSame
    \/ Radio

StationNext == StationOther \/ (\E ok \in RetryOutcomes : StationTick(ok))

StationSpec == StationInit /\ [][StationNext]_stationVars

\* The timer runs for ever, and a radio that is asked again and again to connect
\* does so at last.
StationFairness ==
    /\ WF_stationVars(\E ok \in RetryOutcomes : StationTick(ok))
    /\ SF_stationVars(Due /\ StationTick(TRUE))

StationFairSpec == StationSpec /\ StationFairness

-----------------------------------------------------------------------------
(* Properties                                                               *)

\* The states the members of WEB can be in.
StationTypeOK ==
    /\ {link, wifi_state} \subseteq Status
    /\ {addr, wifi_addr} \subseteq Addresses \cup {NoAddress}
    /\ config \in Configs \cup {NoNetwork}
    /\ reconnect_time \in 0..(Interval - 1)
    /\ notice \in {"none", "initializing", "connected", "disconnected"}

\* A lost network is tried again, whenever it was lost, for as long as there
\* is one to connect to: reconnect_time_ is the "Time until retry of
\* connection", every reconnect_interval_ ("Timer intervals for retry (5
\* min)", network/web.h:217-218).
Retries == (link \in Lost /\ config # NoNetwork)
             ~> (link \notin Lost \/ config = NoNetwork)

\* A link that stays up is reported as connected in the end.
NoticeSettles == <>[](link = "up") => <>[](notice = "connected")
=============================================================================
