--------------------------- MODULE WebTimerProofs ---------------------------
(***************************************************************************)
(* What the 500 ms timer keeps of the WiFi connection, the access point    *)
(* and the scans, for every set of names, periods, networks and clients.   *)
(* Each part has an inductive invariant over its own variables; a step of  *)
(* WebTimer is a step of a part, or a tick of all three.                   *)
(***************************************************************************)
EXTENDS WebTimer, TLAPS

-----------------------------------------------------------------------------
(* The access point                                                         *)

\* The time left and the time served make up the period that was asked for.
PeriodKept == ap_active > 0 => served + ap_active = asked * TicksPerMinute

ApInv == ApTypeOK /\ RadioMatches /\ PeriodKept

\* A period of some minutes has some ticks, and none has none.
LEMMA PeriodTicks ==
    ASSUME NEW m \in Nat
    PROVE  /\ m * TicksPerMinute \in Nat
           /\ m > 0 => m * TicksPerMinute > 0
BY MinutesAssumption

\* The server starts without an access point.
LEMMA ApStart == ApInit => ApInv
<1> SUFFICES ASSUME ApInit PROVE ApInv
  OBVIOUS
<1>1. ApTypeOK
  BY DEF ApInit, ApTypeOK
<1> QED
  BY <1>1 DEF ApInit, ApInv, RadioMatches, PeriodKept

\* enable_ap, between two ticks or interrupted by one, leaves the radio alone.
LEMMA ApAsked == ApInv /\ ApOther => ApInv'
<1> SUFFICES ASSUME ApInv, ApOther PROVE ApInv'
  OBVIOUS
<1> USE DEF ApInv, ApTypeOK, RadioMatches, PeriodKept
<1>1. ASSUME NEW m \in Minutes, NEW n \in Names, EnableMinutes(m, n)
      PROVE  ApInv'
  BY <1>1, MinutesAssumption DEF EnableMinutes
<1>2. CASE EnableName
  BY <1>2 DEF EnableName
<1> QED
  BY <1>1, <1>2 DEF ApOther

\* A tick of the timer: stop_ap and start_ap together with the DHCP server.
LEMMA ApTicks ==
    ASSUME ApInv, NEW dhcp \in DhcpOutcomes, ApTick(dhcp)
    PROVE  /\ ApInv'
           /\ radio # Off /\ radio' = Off => served' = asked * TicksPerMinute
<1>1. /\ ap_active \in Nat /\ ap_requested \in Nat /\ sockets \in Nat
      /\ requests \in Nat /\ asked \in Nat /\ served \in Nat
      /\ Left \in Nat /\ Granted \in Nat
      /\ ap_requested > 0 => Granted > 0
      /\ asked * TicksPerMinute \in Nat
  BY PeriodTicks DEF ApInv, ApTypeOK, Left, Granted
<1>2. ap_name # Off /\ dhcp \in BOOLEAN
  BY NamesAssumption, DhcpAssumption DEF ApInv, ApTypeOK
<1>3. ApTypeOK'
  BY <1>1 DEF ApInv, ApTypeOK, ApTick
<1>4. RadioMatches'
  <2>1. (radio' # Off) = (ap_active' > 0)
    BY <1>1, <1>2 DEF ApInv, ApTick, RadioMatches, Starts, Stops, Left
  <2>2. sockets' <= 1 /\ (radio' = Off => sockets' = 0)
    BY <1>1, <1>2 DEF ApInv, ApTick, RadioMatches, Starts, Stops, Left
  <2> QED
    BY <2>1, <2>2 DEF RadioMatches
<1>5. PeriodKept'
  <2>1. CASE ap_requested > 0
    BY <1>1, <2>1 DEF ApTick, PeriodKept, Granted
  <2>2. CASE ~(ap_requested > 0)
    BY <1>1, <2>2 DEF ApInv, ApTick, RadioMatches, PeriodKept, Left
  <2> QED
    BY <2>1, <2>2
<1>6. radio # Off /\ radio' = Off => served' = asked * TicksPerMinute
  BY <1>1, <1>2 DEF ApInv, ApTick, RadioMatches, PeriodKept, Starts, Stops, Left
<1> QED
  BY <1>3, <1>4, <1>5, <1>6 DEF ApInv

-----------------------------------------------------------------------------
(* The scans                                                                *)

\* While somebody is to be called back the list holds what the scan has found
\* so far, and no more if the scan began with an empty list; when there is
\* nobody the list is empty, no scan runs and none was overrun.
ListFresh ==
    /\ scans # <<>> => found \subseteq ssids
    /\ scans # <<>> /\ ~overrun => ssids = found
    /\ scans = <<>> => ssids = {} /\ ~active /\ ~overrun

\* The server starts without a scan.
LEMMA ScanStart == ScanInit => ScanTypeOK /\ ListFresh
<1>1. <<>> \in Seq({}) /\ IsInjective(<<>>)
  BY DEF IsInjective
<1> QED
  BY <1>1 DEF ScanInit, ScanTypeOK, ListFresh

\* Who is in a list to which one more is added.
LEMMA AppendRange ==
    ASSUME NEW S, NEW s \in Seq(S), NEW e
    PROVE  Range(Append(s, e)) = Range(s) \cup {e}
<1> DEFINE t == Append(s, e)
<1>1. s \in Seq(S \cup {e}) /\ e \in S \cup {e}
  OBVIOUS
<1>2. /\ DOMAIN s = 1..Len(s) /\ DOMAIN t = 1..(Len(s) + 1) /\ Len(s) \in Nat
      /\ t[Len(s) + 1] = e /\ \A i \in 1..Len(s) : t[i] = s[i]
  BY <1>1
<1> QED
  BY <1>2 DEF Range

\* A step of scan_wifi or of the radio keeps the list of clients to call back.
LEMMA ScanAskedType == ScanTypeOK /\ ScanOther => ScanTypeOK'
<1> SUFFICES ASSUME ScanTypeOK, ScanOther PROVE ScanTypeOK'
  OBVIOUS
<1> USE DEF ScanTypeOK, IsInjective
<1>1. ASSUME NEW c \in Clients, NEW ok \in ScanOutcomes, ScanWifi(c, ok)
      PROVE  ScanTypeOK'
  <2>1. active' \in BOOLEAN /\ overrun' \in BOOLEAN
    BY <1>1, ScanAssumption DEF ScanWifi
  <2>2. Range(scans) \subseteq waiting
    BY DEF Range
  <2>3. CASE active
    <3>1. /\ scans' = Append(scans, c) /\ waiting' = waiting \cup {c}
          /\ c \notin Range(scans) /\ lost' = lost \ {c}
      BY <1>1, <2>3 DEF ScanWifi, Joined
    <3>2. scans \in Seq(waiting') /\ scans' \in Seq(waiting')
      BY <3>1
    <3>3. \A i \in DOMAIN scans : scans[i] # c
      BY <3>1 DEF Range
    <3>4. IsInjective(scans')
      BY <3>1, <3>3
    <3>5. Range(scans') = Range(scans) \cup {c}
      BY <3>1, AppendRange
    <3>6. lost' \subseteq waiting' \ Range(scans')
      BY <3>1, <3>5
    <3> QED
      BY <1>1, <2>1, <2>3, <3>2, <3>4, <3>6 DEF ScanWifi
  <2>4. CASE ~active
    <3>1. /\ scans' = <<c>> /\ waiting' = waiting \cup {c}
          /\ lost' = (lost \cup Range(scans)) \ {c}
      BY <1>1, <2>4 DEF ScanWifi, Joined
    <3>2. scans' \in Seq(waiting') /\ IsInjective(scans')
      BY <3>1
    <3>3. Range(scans') = {c}
      BY <3>1 DEF Range
    <3>4. lost' \subseteq waiting' \ Range(scans')
      BY <2>2, <3>1, <3>3
    <3> QED
      BY <1>1, <2>1, <2>4, <3>2, <3>4 DEF ScanWifi
  <2> QED
    BY <2>3, <2>4
<1>2. ASSUME NEW n \in Networks, Result(n)
      PROVE  ScanTypeOK'
  BY <1>2 DEF Result
<1>3. CASE ScanEnds
  BY <1>3 DEF ScanEnds
<1> QED
  BY <1>1, <1>2, <1>3 DEF ScanOther

\* A tick: everybody in the list is called back, or nobody.
LEMMA ScanTicksType == ScanTypeOK /\ ScanTick => ScanTypeOK'
<1> SUFFICES ASSUME ScanTypeOK, ScanTick PROVE ScanTypeOK'
  OBVIOUS
<1>1. CASE Finished
  <2>1. /\ scans' = <<>> /\ ssids' = {} /\ waiting' = waiting \ Range(scans)
        /\ found' = {} /\ lost' = lost /\ active' = active /\ overrun' = FALSE
    BY <1>1 DEF ScanTypeOK, ScanTick, Kept
  <2>2. scans' \in Seq(waiting') /\ IsInjective(scans') /\ Range(scans') = {}
    BY <2>1 DEF IsInjective, Range
  <2> QED
    BY <2>1, <2>2 DEF ScanTypeOK
<1>2. CASE ~Finished
  BY <1>2 DEF ScanTypeOK, ScanTick
<1> QED
  BY <1>1, <1>2

\* The list of networks is emptied with the list of clients, so the next scan
\* begins with an empty one, unless somebody asks between the end of a scan and
\* the tick that reports it.
LEMMA ScanFreshStep ==
    ASSUME ListFresh, ScanOther \/ ScanTick
    PROVE  ListFresh'
<1> USE DEF ListFresh
<1>1. ASSUME NEW c \in Clients, NEW ok \in ScanOutcomes, ScanWifi(c, ok)
      PROVE  ListFresh'
  <2>1. scans' # <<>>
    BY <1>1 DEF ScanWifi, Joined
  <2> QED
    BY <1>1, <2>1 DEF ScanWifi
<1>2. ASSUME NEW n \in Networks, Result(n)
      PROVE  ListFresh'
  BY <1>2 DEF Result
<1>3. CASE ScanEnds
  BY <1>3 DEF ScanEnds
<1>4. CASE ScanTick
  BY <1>4 DEF ScanTick, Finished, Kept
<1> QED
  BY <1>1, <1>2, <1>3, <1>4 DEF ScanOther

-----------------------------------------------------------------------------
(* The WiFi connection                                                      *)

\* The server starts without a network.
LEMMA StationStart == StationInit => StationTypeOK
BY IntervalAssumption DEF StationInit, StationTypeOK, Status, Lost

\* connect_to_wifi, update_wifi and the radio.
LEMMA StationOtherType == StationTypeOK /\ StationOther => StationTypeOK'
<1> SUFFICES ASSUME StationTypeOK, StationOther PROVE StationTypeOK'
  OBVIOUS
<1> USE DEF StationTypeOK, Status, Initializing, Lost
<1>1. ASSUME NEW c \in Configs \cup {NoNetwork}, NEW ok \in ConnectOutcomes,
             ConnectToWifi(c, ok) \/ UpdateWifi(c, ok)
      PROVE  StationTypeOK'
  BY <1>1 DEF ConnectToWifi, UpdateWifi, Connect
<1>2. CASE UpdateSame
  BY <1>2 DEF UpdateSame, Notice
<1>3. CASE Radio
  BY <1>3 DEF Radio, JoinEnds, AddressComes, LinkLost
<1> QED
  BY <1>1, <1>2, <1>3 DEF StationOther

\* check_wifi.
LEMMA StationTicksType ==
    ASSUME StationTypeOK, NEW ok \in RetryOutcomes, StationTick(ok)
    PROVE  StationTypeOK'
<1> USE DEF StationTypeOK, Status, Initializing, Lost
<1>1. Armed \in 0..Interval
  BY IntervalAssumption DEF Armed
<1>2. reconnect_time' \in 0..(Interval - 1)
  BY <1>1, IntervalAssumption DEF StationTick
<1>3. notice' \in {"none", "initializing", "connected", "disconnected"}
  BY DEF StationTick, Told, Notice
<1>4. /\ link' \in Status /\ addr' \in Addresses \cup {NoAddress}
      /\ config' \in Configs \cup {NoNetwork}
  BY DEF StationTick, Connect
<1> QED
  BY <1>2, <1>3, <1>4 DEF StationTick

-----------------------------------------------------------------------------
(* The timer                                                                *)

TimerInv == StationTypeOK /\ ApInv /\ ScanTypeOK

\* A step of the application, the radio or the timer, or none.
LEMMA TimerStep == TimerInv /\ [Next]_vars => TimerInv'
<1> SUFFICES ASSUME TimerInv, [Next]_vars PROVE TimerInv'
  OBVIOUS
<1> USE DEF TimerInv
<1>1. ASSUME NEW ok \in RetryOutcomes, NEW dhcp \in DhcpOutcomes, Tick(ok, dhcp)
      PROVE  TimerInv'
  BY <1>1, StationTicksType, ApTicks, ScanTicksType DEF Tick
<1>2. ASSUME UNCHANGED stationVars
      PROVE  StationTypeOK'
  BY <1>2 DEF stationVars, StationTypeOK
<1>3. ASSUME UNCHANGED apVars
      PROVE  ApInv'
  BY <1>3 DEF apVars, ApInv, ApTypeOK, RadioMatches, PeriodKept
<1>4. ASSUME UNCHANGED scanVars
      PROVE  ScanTypeOK'
  BY <1>4 DEF scanVars, ScanTypeOK
<1>5. CASE StationOther /\ UNCHANGED <<apVars, scanVars>>
  BY <1>3, <1>4, <1>5, StationOtherType
<1>6. CASE ApOther /\ UNCHANGED <<stationVars, scanVars>>
  BY <1>2, <1>4, <1>6, ApAsked
<1>7. CASE ScanOther /\ UNCHANGED <<stationVars, apVars>>
  BY <1>2, <1>3, <1>7, ScanAskedType
<1>8. CASE UNCHANGED vars
  BY <1>2, <1>3, <1>4, <1>8 DEF vars
<1> QED
  BY <1>1, <1>5, <1>6, <1>7, <1>8 DEF Next, Ticks

\* The inductive invariant of the timer and its three parts.
THEOREM TimerInvariance == Spec => []TimerInv
<1>1. Init => TimerInv
  BY StationStart, ApStart, ScanStart DEF Init, TimerInv
<1> QED
  BY <1>1, TimerStep, PTL DEF Spec

\* The members of WEB that the timer works on keep their types.
THEOREM TimerType == Spec => []TypeOK
<1>1. TimerInv => TypeOK
  BY DEF TimerInv, ApInv, TypeOK
<1> QED
  BY <1>1, TimerInvariance, PTL

\* is_ap_active says whether the radio serves a network, and the DHCP server
\* holds at most one socket and none without the access point, whenever
\* enable_ap is called and whether or not dhcp_server_init gets its socket.
THEOREM ApFollowsRadio == Spec => []RadioMatches
<1>1. TimerInv => RadioMatches
  BY DEF TimerInv, ApInv
<1> QED
  BY <1>1, TimerInvariance, PTL

\* stop_ap comes exactly at the end of the period of the last enable_ap.
THEOREM ApFullPeriod == Spec => FullPeriod
<1>1. TimerInv /\ [Next]_vars
        => [radio # Off /\ radio' = Off => served' = asked * TicksPerMinute]_apVars
  <2> SUFFICES ASSUME TimerInv, [Next]_vars, radio # Off, radio' = Off
               PROVE  served' = asked * TicksPerMinute
    OBVIOUS
  <2>1. ASSUME NEW ok \in RetryOutcomes, NEW dhcp \in DhcpOutcomes, Tick(ok, dhcp)
        PROVE  served' = asked * TicksPerMinute
    BY <2>1, ApTicks DEF Tick, TimerInv
  <2>2. CASE ApOther
    BY <2>2 DEF ApOther, EnableMinutes, EnableName
  <2>3. CASE UNCHANGED apVars
    BY <2>3 DEF apVars
  <2> QED
    BY <2>1, <2>2, <2>3 DEF Next, Ticks, vars
<1> QED
  BY <1>1, TimerInvariance, PTL DEF Spec, FullPeriod

\* check_scan_finished hands every client all the networks of the last scan, and
\* none of an earlier one unless scan_wifi was called between the end of that
\* one and its tick.
THEOREM ScanReportsFresh == Spec => []ResultsFresh
<1>1. Init => ListFresh
  BY ScanStart DEF Init
<1>2. ListFresh /\ [Next]_vars => ListFresh'
  <2> SUFFICES ASSUME ListFresh, [Next]_vars PROVE ListFresh'
    OBVIOUS
  <2>1. CASE ScanOther \/ ScanTick
    BY <2>1, ScanFreshStep
  <2>2. CASE UNCHANGED scanVars
    BY <2>2 DEF scanVars, ListFresh
  <2> QED
    BY <2>1, <2>2 DEF Next, Ticks, Tick, vars
<1>3. ListFresh => ResultsFresh
  BY DEF ListFresh, ResultsFresh, Finished
<1> QED
  BY <1>1, <1>2, <1>3, PTL DEF Spec
=============================================================================
