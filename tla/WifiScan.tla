------------------------------ MODULE WifiScan ------------------------------
(***************************************************************************)
(* Scanning for WiFi networks (network/web.cpp): clients ask with          *)
(* scan_wifi, requests that meet a running scan share it, and the 500 ms   *)
(* timer's check_scan_finished calls everybody back.  The radio (cyw43) is *)
(* external: a scan finds networks and ends by itself, at any time between *)
(* two ticks of the timer.                                                 *)
(***************************************************************************)
EXTENDS Integers, Sequences, Functions

CONSTANTS
    Clients,        \* who asks for scans
    Networks,       \* networks in reach
    ScanOutcomes    \* results of cyw43_wifi_scan, which scan_wifi ignores

ASSUME ScanAssumption == ScanOutcomes \subseteq BOOLEAN

VARIABLES
    active,    \* cyw43_wifi_scan_active
    scans,     \* scans_: the clients to call back
    ssids,     \* ssids_: the networks found
    waiting,   \* ghost: clients that asked and were not called back
    lost,      \* ghost: those of them that scan_wifi threw out of scans_
    found,     \* ghost: the networks found by the scan to report
    overrun    \* ghost: it began before the timer reported the one before it

scanVars == <<active, scans, ssids, waiting, lost, found, overrun>>

ScanInit ==
    /\ active = FALSE /\ scans = <<>> /\ ssids = {}
    /\ waiting = {} /\ lost = {} /\ found = {} /\ overrun = FALSE

-----------------------------------------------------------------------------
\* Mutant of Joined: the running scan is not looked at.
JoinedNever(c) == <<c>>
\* scans_ after scan_wifi: a new scan begins a new list.
Joined(c) == IF active THEN Append(scans, c) ELSE <<c>>

\* scan_wifi.  A client asks again once it was called back, or in vain.  Between
\* the end of a scan and the tick that reports it, a request begins another
\* scan and throws out the clients of the first, whose networks stay in ssids_.
ScanWifi(c, ok) ==
    /\ c \notin Range(scans)
    /\ scans' = Joined(c)
    /\ active' = (active \/ ok)
    /\ found' = IF active THEN found ELSE {}
    /\ waiting' = waiting \cup {c}
    /\ lost' = (IF active THEN lost ELSE lost \cup Range(scans)) \ {c}
    /\ overrun' = (overrun \/ (~active /\ scans # <<>>))
    /\ UNCHANGED ssids

\* scan_cb
Result(n) ==
    /\ active
    /\ ssids' = ssids \cup {n} /\ found' = found \cup {n}
    /\ UNCHANGED <<active, scans, waiting, lost, overrun>>

ScanEnds ==
    /\ active
    /\ active' = FALSE
    /\ UNCHANGED <<scans, ssids, waiting, lost, found, overrun>>

\* Mutant of Kept: the networks stay.
KeptNetworks == [ssids |-> ssids, scans |-> <<>>]
\* What check_scan_finished leaves in ssids_ and scans_ after the callbacks.
Kept == [ssids |-> {}, scans |-> <<>>]

\* check_scan_finished calls the clients back once no scan is running.
Finished == scans # <<>> /\ ~active

ScanTick ==
    /\ waiting' = IF Finished THEN waiting \ Range(scans) ELSE waiting
    /\ scans' = IF Finished THEN Kept.scans ELSE scans
    /\ ssids' = IF Finished THEN Kept.ssids ELSE ssids
    /\ found' = IF Finished THEN {} ELSE found
    /\ overrun' = (overrun /\ ~Finished)
    /\ UNCHANGED <<active, lost>>

ScanOther ==
    \/ \E c \in Clients, ok \in ScanOutcomes : ScanWifi(c, ok)
    \/ \E n \in Networks : Result(n)
    \/ ScanEnds

ScanNext == ScanOther \/ ScanTick

ScanSpec == ScanInit /\ [][ScanNext]_scanVars

\* The timer runs for ever and a scan ends.
ScanFairSpec ==
    /\ ScanSpec
    /\ WF_scanVars(ScanTick)
    /\ WF_scanVars(ScanEnds)

-----------------------------------------------------------------------------
(* Properties                                                               *)

\* A client is in the list at most once, only while it waits, and not when its
\* request was thrown out.
ScanTypeOK ==
    /\ active \in BOOLEAN /\ overrun \in BOOLEAN
    /\ scans \in Seq(waiting) /\ IsInjective(scans)
    /\ ssids \subseteq Networks /\ found \subseteq Networks
    /\ waiting \subseteq Clients /\ lost \subseteq waiting \ Range(scans)

\* check_scan_finished hands over everything the last scan found, and nothing of
\* an earlier one unless the last scan began before the earlier was reported.
ResultsFresh ==
    Finished => /\ found \subseteq ssids
                /\ ~overrun => ssids = found

\* A request is called back, whether it began the scan or joined one that was
\* running, unless another request begins a new scan before the tick.
AnsweredOrDropped ==
    \A c \in Clients : c \in waiting ~> c \notin waiting \/ c \in lost

\* "Callback function for completion of scan": every request of scan_wifi is
\* called back.  It does not hold: the request that begins a new scan before
\* the tick clears the list.
EveryScanAnswered == \A c \in Clients : c \in waiting ~> c \notin waiting
=============================================================================
