--------------------------- MODULE UseWebSocket ---------------------------
(***************************************************************************)
(* frontend/src/hooks/useWebSocket.js: how the dashboard keeps its         *)
(* connection.  Sockets open, break and close at the network's pace; the   *)
(* hook's callbacks run one at a time, each to its end.  The back-off only *)
(* sets when a timer fires, not whether, and is left out; so are the       *)
(* messages (module Feed).                                                 *)
(***************************************************************************)
EXTENDS Naturals, FiniteSets

CONSTANTS
    Socket,         \* WebSocket objects; a closed one stands for a new one
    None,
    MaxFaults,      \* bound on connections that fail or break
    MaxRemounts     \* bound on runs of the cleanup and the effect on the same refs

ASSUME HookAssumption ==
    /\ MaxFaults \in Nat
    /\ MaxRemounts \in Nat
    /\ IsFiniteSet(Socket)
    /\ None \notin Socket

VARIABLES
    mounted,    \* mountedRef.current
    wsRef,      \* wsRef.current
    readyState, \* readyState[s]
    timer,      \* the timer reconnectTimer.current names is pending
    lostTimers, \* pending timers it no longer names
    status,     \* connectionStatus of the store
    faults,
    remounts

vars == <<mounted, wsRef, readyState, timer, lostTimers, status, faults, remounts>>

Init ==
    /\ mounted = FALSE
    /\ wsRef = None
    /\ readyState = [s \in Socket |-> "closed"]
    /\ timer = FALSE
    /\ lostTimers = 0
    /\ status = "disconnected"
    /\ faults = 0
    /\ remounts = 0

-----------------------------------------------------------------------------
(* The effect and its timers *)

\* Mutant of MustConnect: any socket the hook ever had stops a second connection.
MustConnectOnce(ready) == wsRef = None

\* Only an OPEN socket stops a second connection.
MustConnect(ready) == wsRef = None \/ ready[wsRef] # "open"

\* connect() of a mounted component whose sockets are in the states ready.
Connect(ready) ==
    IF MustConnect(ready)
    THEN \E s \in Socket :
            /\ ready[s] = "closed"
            /\ wsRef' = s
            /\ readyState' = [ready EXCEPT ![s] = "connecting"]
            /\ status' = "connecting"
    ELSE /\ readyState' = ready
         /\ UNCHANGED <<wsRef, status>>

\* The effect runs for the first time.
Mount ==
    /\ wsRef = None
    /\ mounted' = TRUE
    /\ Connect(readyState)
    /\ UNCHANGED <<timer, lostTimers, faults, remounts>>

\* The sockets after s.close(); the close event comes later.
Closing(s) ==
    [readyState EXCEPT ![s] = IF @ \in {"connecting", "open"} THEN "closing" ELSE @]

\* The cleanup: clearTimeout reaches only the last timer, close only the last socket.
Unmount ==
    /\ mounted
    /\ mounted' = FALSE
    /\ timer' = FALSE
    /\ readyState' = Closing(wsRef)
    /\ UNCHANGED <<wsRef, lostTimers, status, faults, remounts>>

\* React runs the cleanup and the effect again (StrictMode at the start, a refresh later).
Remount ==
    /\ mounted
    /\ remounts < MaxRemounts
    /\ remounts' = remounts + 1
    /\ timer' = FALSE
    /\ Connect(Closing(wsRef))
    /\ UNCHANGED <<mounted, lostTimers, faults>>

\* A timer calls connect, which returns if the component is not mounted.
TimerFires ==
    /\ \/ timer /\ timer' = FALSE /\ UNCHANGED lostTimers
       \/ lostTimers > 0 /\ lostTimers' = lostTimers - 1 /\ UNCHANGED timer
    /\ IF mounted THEN Connect(readyState) ELSE UNCHANGED <<wsRef, readyState, status>>
    /\ UNCHANGED <<mounted, faults, remounts>>

-----------------------------------------------------------------------------
(* The events of a socket *)

\* Mutant of Opened: the state of the socket is shown.
OpenedAsReadyState(s) ==
    /\ readyState[s] = "connecting"
    /\ readyState' = [readyState EXCEPT ![s] = IF mounted THEN "open" ELSE "closing"]
    /\ status' = readyState'[s]
    /\ UNCHANGED <<mounted, wsRef, timer, lostTimers, faults, remounts>>

\* onopen
Opened(s) ==
    /\ readyState[s] = "connecting"
    /\ readyState' = [readyState EXCEPT ![s] = IF mounted THEN "open" ELSE "closing"]
    /\ status' = IF mounted THEN "connected" ELSE status
    /\ UNCHANGED <<mounted, wsRef, timer, lostTimers, faults, remounts>>

\* Mutants of OnClose: the status stays; onerror has set a timer of its own before; no
\* timer is set.
OnCloseSilent(s) ==
    IF mounted
    THEN /\ timer' = TRUE
         /\ lostTimers' = lostTimers + (IF timer THEN 1 ELSE 0)
         /\ UNCHANGED status
    ELSE UNCHANGED <<status, timer, lostTimers>>
OnErrorAndClose(s) ==
    IF mounted
    THEN /\ status' = "disconnected"
         /\ timer' = TRUE
         /\ lostTimers' = lostTimers + (IF timer THEN 2 ELSE 1)
    ELSE UNCHANGED <<status, timer, lostTimers>>
OnCloseOnly(s) ==
    /\ status' = IF mounted THEN "disconnected" ELSE status
    /\ UNCHANGED <<timer, lostTimers>>

\* onclose: the new timer replaces the one that may still be pending.
OnClose(s) ==
    IF mounted
    THEN /\ status' = "disconnected"
         /\ timer' = TRUE
         /\ lostTimers' = lostTimers + (IF timer THEN 1 ELSE 0)
    ELSE UNCHANGED <<status, timer, lostTimers>>

\* The closing handshake is over, or the connection fails (onerror, then onclose).
Closed(s) ==
    /\ \/ readyState[s] = "closing" /\ UNCHANGED faults
       \/ readyState[s] \in {"connecting", "open"} /\ faults < MaxFaults /\ faults' = faults + 1
    /\ readyState' = [readyState EXCEPT ![s] = "closed"]
    /\ OnClose(s)
    /\ UNCHANGED <<mounted, wsRef, remounts>>

-----------------------------------------------------------------------------
Next ==
    \/ Mount \/ Unmount \/ Remount \/ TimerFires
    \/ \E s \in Socket : Opened(s) \/ Closed(s)

\* Timers fire, and a socket that connects or closes gets there.
Fairness ==
    /\ WF_vars(TimerFires)
    /\ \A s \in Socket : WF_vars(Opened(s)) /\ WF_vars(readyState[s] = "closing" /\ Closed(s))

Spec == Init /\ [][Next]_vars /\ Fairness

-----------------------------------------------------------------------------
TypeOK ==
    /\ mounted \in BOOLEAN
    /\ wsRef \in Socket \union {None}
    /\ readyState \in [Socket -> {"closed", "connecting", "open", "closing"}]
    /\ timer \in BOOLEAN
    /\ lostTimers \in Nat
    /\ status \in {"disconnected", "connecting", "connected"}
    /\ faults \in 0..MaxFaults
    /\ remounts \in 0..MaxRemounts

Open == {s \in Socket : readyState[s] = "open"}
Live == {s \in Socket : readyState[s] # "closed"}
Timers == lostTimers + (IF timer THEN 1 ELSE 0)

\* A mounted dashboard never gives up: it has a socket that is not closed, or a timer
\* that will connect, whichever sockets were replaced, broke or closed late.
NeverStranded == mounted => Live # {} \/ Timers > 0

\* Connections do not multiply by themselves: sockets and pending timers together are
\* one, and one more for every remount, however often the connection fails (onclose sets
\* a timer without looking at the one that is pending).
ChainsBounded == Cardinality(Live) + Timers <= 1 + remounts

\* "connected" is shown only while a socket is open or closing, although replaced sockets
\* open and close late; and without remounts an open socket is always shown as connected.
StatusTrue ==
    mounted => /\ status = "connected" => \E s \in Live : readyState[s] # "connecting"
               /\ remounts = 0 /\ Open # {} => status = "connected"

\* After the last failure a mounted dashboard is connected for good, and one that was
\* unmounted in the end has no timer left.
Reconnects == <>[](IF mounted THEN Open # {} ELSE Timers = 0)
=============================================================================
