------------------------------ MODULE WebTimer ------------------------------
(***************************************************************************)
(* The web server's 500 ms timer (network/web.cpp, timer_callback) with    *)
(* the three parts it drives: the WiFi connection, the access point and    *)
(* the scans.  One tick is one step of all three; the application and the  *)
(* radio act in between.                                                   *)
(***************************************************************************)
EXTENDS WifiStation, AccessPoint, WifiScan

vars == <<stationVars, apVars, scanVars>>

Init == StationInit /\ ApInit /\ ScanInit

\* timer_callback: check_wifi and check_scan_finished
Tick(ok, dhcp) == StationTick(ok) /\ ApTick(dhcp) /\ ScanTick
Ticks == \E ok \in RetryOutcomes, dhcp \in DhcpOutcomes : Tick(ok, dhcp)

Next ==
    \/ Ticks
    \/ StationOther /\ UNCHANGED <<apVars, scanVars>>
    \/ ApOther /\ UNCHANGED <<stationVars, scanVars>>
    \/ ScanOther /\ UNCHANGED <<stationVars, apVars>>

\* add_repeating_timer_ms: the timer runs for ever.  A radio that is asked again
\* and again to connect does so at last, and a scan ends.
Fairness ==
    /\ WF_vars(Ticks)
    /\ SF_vars(Due /\ \E dhcp \in DhcpOutcomes : Tick(TRUE, dhcp))
    /\ WF_vars(ScanEnds /\ UNCHANGED <<stationVars, apVars>>)

Spec == Init /\ [][Next]_vars /\ Fairness

\* The state of the three parts keeps its type; counts stay in their ranges.
TypeOK == StationTypeOK /\ ApTypeOK /\ ScanTypeOK
=============================================================================
