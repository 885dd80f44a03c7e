---------------------------- MODULE BrowserSocket ----------------------------
(***************************************************************************)
(* The browser's side of a websocket (network/websocket.js): one variable  *)
(* ws for the socket in use, and handlers that every socket has and that   *)
(* look at that variable when their event comes, which may be after        *)
(* another socket took its place.                                          *)
(*                                                                         *)
(* Events are tasks of the browser, so a handler is one step.  The network *)
(* fails at most MaxFails times.  An application is patient when it opens  *)
(* a connection only where there is no socket.  The check 250 ms after an  *)
(* attempt finds nothing that onopen has not seen, and is left out.        *)
(***************************************************************************)
EXTENDS Integers

CONSTANTS
    NoSocket,    \* undefined
    MaxSockets,  \* bound: sockets at a time
    MaxFails,    \* bound: failures of the network
    MaxCalls     \* bound: calls of the application and changes of visibility

ASSUME SocketAssumption ==
    {MaxSockets, MaxFails, MaxCalls} \subseteq Nat /\ NoSocket \notin Nat

VARIABLES
    ws,          \* the socket in use
    state,       \* readyState of every socket
    opened,      \* opened_
    closed,      \* closed_
    suspended,   \* suspended_
    retrying,    \* timer_ is set
    patient,     \* the application is patient
    fails, calls \* what is left of the bounds

browser == <<ws, state, opened, closed, suspended, retrying, patient, fails, calls>>
page == <<closed, suspended, retrying>>

Sockets == 1..MaxSockets
Live == {"connecting", "open"}

SocketInit ==
    /\ ws = NoSocket /\ state = [s \in Sockets |-> "closed"]
    /\ opened = FALSE /\ closed = TRUE /\ suspended = FALSE /\ retrying = FALSE
    /\ patient \in BOOLEAN /\ fails = MaxFails /\ calls = MaxCalls

-----------------------------------------------------------------------------
\* close() of the socket in use, if there is one: its event comes later, and is
\* an error when it was not open yet.
Close ==
    IF ws = NoSocket THEN state
    ELSE [state EXCEPT ![ws] = CASE @ = "connecting" -> "failing"
                                 [] @ = "open" -> "closing"
                                 [] OTHER -> @]

\* Mutant of OpenWS: no timer is started to connect again.
OpenWSOnce ==
    \E s \in Sockets :
        /\ state[s] = "closed" /\ s # ws
        /\ ws' = s /\ state' = [Close EXCEPT ![s] = "connecting"]
        /\ opened' = FALSE /\ closed' = FALSE /\ UNCHANGED retrying
\* openWS: close the old socket, and a new one in its place.
OpenWS ==
    \E s \in Sockets :
        /\ state[s] = "closed" /\ s # ws
        /\ ws' = s /\ state' = [Close EXCEPT ![s] = "connecting"]
        /\ opened' = FALSE /\ closed' = FALSE /\ retrying' = TRUE

\* The application opens and closes the connection.
AppOpen ==
    /\ calls > 0 /\ calls' = calls - 1
    /\ patient => \A s \in Sockets : state[s] = "closed"
    /\ OpenWS
    /\ UNCHANGED <<suspended, patient, fails>>

\* closeWS
AppClose ==
    /\ calls > 0 /\ calls' = calls - 1
    /\ closed' = TRUE
    /\ state' = Close
    /\ opened' = FALSE
    /\ UNCHANGED <<ws, suspended, retrying, patient, fails>>

\* Mutant of Retry: it does not look whether there is a socket.
RetryAlways ==
    /\ retrying
    /\ ~suspended /\ ~closed
    /\ OpenWS
    /\ UNCHANGED <<suspended, patient, fails, calls>>
\* The interval timer: retryConnection.  Its ten seconds are longer than the
\* error of a socket that was closed early takes.
Retry ==
    /\ retrying
    /\ \A s \in Sockets : state[s] # "failing"
    /\ ~suspended /\ ~closed /\ ws = NoSocket
    /\ OpenWS
    /\ UNCHANGED <<suspended, patient, fails, calls>>

\* onvisibilitychange: the page is hidden, or shown again with a retry.
Hide ==
    /\ calls > 0 /\ calls' = calls - 1
    /\ retrying /\ ~suspended
    /\ suspended' = TRUE
    /\ state' = Close /\ opened' = FALSE
    /\ UNCHANGED <<ws, closed, retrying, patient, fails>>
Show ==
    /\ suspended
    /\ suspended' = FALSE
    /\ \/ ~closed /\ ws = NoSocket /\ OpenWS
       \/ (closed \/ ws # NoSocket) /\ UNCHANGED <<ws, state, opened, closed, retrying>>
    /\ UNCHANGED <<patient, fails, calls>>

-----------------------------------------------------------------------------
(* Events of a socket *)

\* onopen with checkOpenState, which fails where there is no socket in use.
OnOpen(s) ==
    /\ state[s] = "connecting"
    /\ state' = [state EXCEPT ![s] = "open"]
    /\ opened' = (opened \/ (ws # NoSocket /\ state'[ws] = "open"))
    /\ UNCHANGED <<ws, page, patient, fails, calls>>

\* onclose of a socket that was closed by either side.
OnClose(s) ==
    /\ state[s] = "closing"
    /\ state' = [state EXCEPT ![s] = "closed"]
    /\ ws' = NoSocket /\ opened' = FALSE
    /\ UNCHANGED <<page, patient, fails, calls>>

\* A connection that fails has onerror, which closes the socket in use and whose
\* retry still finds it there, and then onclose.
Failed(s) ==
    /\ state' = [t \in Sockets |-> IF t = s THEN "closed" ELSE Close[t]]
    /\ ws' = NoSocket /\ opened' = FALSE

\* The error of a socket that was closed before it was open.
OnClosedEarly(s) ==
    /\ state[s] = "failing"
    /\ Failed(s)
    /\ UNCHANGED <<page, patient, fails, calls>>

\* The network fails, or the server closes the connection.
OnError(s) ==
    /\ fails > 0 /\ fails' = fails - 1
    /\ state[s] \in Live
    /\ Failed(s)
    /\ UNCHANGED <<page, patient, calls>>
PeerCloses(s) ==
    /\ fails > 0 /\ fails' = fails - 1
    /\ state[s] = "open"
    /\ state' = [state EXCEPT ![s] = "closing"]
    /\ UNCHANGED <<ws, opened, page, patient, calls>>

SocketNext ==
    \/ AppOpen \/ AppClose \/ Retry \/ Hide \/ Show
    \/ \E s \in Sockets : \/ OnOpen(s) \/ OnClose(s) \/ OnClosedEarly(s)
                          \/ OnError(s) \/ PeerCloses(s)

\* The timer runs; a connection attempt and a closing handshake come to an end.
SocketFairness ==
    /\ WF_browser(Retry)
    /\ \A s \in Sockets : /\ WF_browser(OnOpen(s))
                          /\ WF_browser(OnClose(s)) /\ WF_browser(OnClosedEarly(s))
SocketSpec == SocketInit /\ [][SocketNext]_browser /\ SocketFairness

-----------------------------------------------------------------------------
(* Properties                                                               *)

SocketTypeOK ==
    /\ ws \in Sockets \cup {NoSocket}
    /\ state \in [Sockets -> Live \cup {"closing", "failing", "closed"}]
    /\ {opened, closed, suspended, retrying, patient} \subseteq BOOLEAN
    /\ fails \in 0..MaxFails /\ calls \in 0..MaxCalls

\* A connection that was opened and not closed by the application comes back
\* after errors, disconnects and a hidden page that is shown again, also when the
\* events of an old socket come late (websocket.js: "the connection will automtically continue to
\* be reopened in case of errors or disconnects").
Reconnects == <>[](closed \/ suspended) \/ <>[]opened

\* With a patient application every live socket is the one in use: no second
\* connection that nobody closes, and whose messages come twice.
OneSocket == patient => \A s \in Sockets : state[s] \in Live => s = ws
=============================================================================
