------------------------- MODULE UseWebSocketProofs -------------------------
(***************************************************************************)
(* Proofs about UseWebSocket, for any number of sockets, failures and      *)
(* remounts.                                                               *)
(***************************************************************************)
EXTENDS UseWebSocket, FiniteSetTheorems, TLAPS

States == {"closed", "connecting", "open", "closing"}

\* Before the effect runs for the first time the hook has nothing.
Fresh == wsRef = None => ~mounted /\ Live = {} /\ Timers = 0

HookInv == TypeOK /\ Fresh /\ ChainsBounded /\ NeverStranded /\ StatusTrue

-----------------------------------------------------------------------------
\* The number of live sockets is a number, and zero only without sockets.
LEMMA LiveCount ==
    /\ IsFiniteSet(Live) /\ Cardinality(Live) \in Nat
    /\ Cardinality(Live) = 0 <=> Live = {}
<1>1. IsFiniteSet(Live)
  BY FS_Subset, HookAssumption DEF Live
<1>2. QED
  BY <1>1, FS_CardinalityType, FS_EmptySet

\* One socket more, one socket less.
LEMMA LiveMore ==
    ASSUME NEW s \in Socket, s \notin Live, Live' = Live \union {s}
    PROVE  Cardinality(Live') = Cardinality(Live) + 1
BY LiveCount, FS_AddElement

LEMMA LiveLess ==
    ASSUME NEW s \in Socket, s \in Live, Live' = Live \ {s}
    PROVE  Cardinality(Live') = Cardinality(Live) - 1
BY LiveCount, FS_RemoveElement

\* connect() either finds an open socket and changes nothing, or adds one that connects.
LEMMA ConnectFacts ==
    ASSUME NEW ready \in [Socket -> States], {s \in Socket : ready[s] # "closed"} = Live,
           wsRef \in Socket \union {None}, Connect(ready)
    PROVE  /\ readyState' \in [Socket -> States]
           /\ wsRef' \in Socket
           /\ Open' = {s \in Socket : ready[s] = "open"}
           /\ Live' # {}
           /\ \A s \in Live : readyState'[s] = ready[s]
           /\ \/ /\ UNCHANGED <<wsRef, status>> /\ readyState' = ready /\ Live' = Live
                 /\ wsRef \in Socket /\ ready[wsRef] = "open"
              \/ /\ status' = "connecting"
                 /\ \E s \in Socket : s \notin Live /\ Live' = Live \union {s}
<1>1. CASE MustConnect(ready)
  <2>1. PICK s \in Socket : /\ ready[s] = "closed" /\ wsRef' = s /\ status' = "connecting"
                            /\ readyState' = [ready EXCEPT ![s] = "connecting"]
    BY <1>1 DEF Connect
  <2>2. readyState' \in [Socket -> States]
    BY <2>1 DEF States
  <2>3. s \notin Live
    BY <2>1
  <2>4. \A z \in Socket : readyState'[z] = IF z = s THEN "connecting" ELSE ready[z]
    BY <2>1
  <2>5. Live' = Live \union {s}
    <3>1. Live' = {z \in Socket : readyState'[z] # "closed"}
      BY DEF Live
    <3>2. QED
      BY <2>1, <2>4, <3>1
  <2>6. Open' = {z \in Socket : ready[z] = "open"}
    <3>1. Open' = {z \in Socket : readyState'[z] = "open"}
      BY DEF Open
    <3>2. QED
      BY <2>1, <2>4, <3>1
  <2>7. \A z \in Live : readyState'[z] = ready[z]
    BY <2>1, <2>3, <2>4 DEF Live
  <2>8. QED
    BY <2>1, <2>2, <2>3, <2>5, <2>6, <2>7
<1>2. CASE ~MustConnect(ready)
  <2>1. wsRef \in Socket /\ ready[wsRef] = "open" /\ readyState' = ready
        /\ UNCHANGED <<wsRef, status>>
    BY <1>2 DEF Connect, MustConnect
  <2>2. Live' = Live /\ Open' = {s \in Socket : ready[s] = "open"}
    BY <2>1 DEF Live, Open
  <2>3. QED
    BY <2>1, <2>2
<1>3. QED
  BY <1>1, <1>2

\* close() changes no socket from or to "closed", and opens none.
LEMMA ClosingFacts ==
    ASSUME TypeOK, wsRef \in Socket
    PROVE  /\ Closing(wsRef) \in [Socket -> States]
           /\ {s \in Socket : Closing(wsRef)[s] # "closed"} = Live
           /\ Closing(wsRef)[wsRef] # "open"
           /\ \A s \in Socket : \/ Closing(wsRef)[s] = readyState[s]
                                \/ Closing(wsRef)[s] = "closing"
BY DEF TypeOK, Closing, States, Live

\* Without remounts a pending timer excludes any socket.
LEMMA SingleChain ==
    ASSUME TypeOK, ChainsBounded, remounts = 0
    PROVE  /\ Timers > 0 => Live = {}
           /\ \A s, z \in Live : s = z
<1>1. Cardinality(Live) \in Nat /\ Timers \in Nat /\ Cardinality(Live) + Timers <= 1
  BY LiveCount DEF TypeOK, ChainsBounded, Timers
<1>2. Timers > 0 => Live = {}
  BY <1>1, LiveCount
<1>3. ASSUME NEW s \in Live, NEW z \in Live, s # z PROVE FALSE
  <2>1. Cardinality({s, z}) = 2
    <3>1. IsFiniteSet({s}) /\ Cardinality({s}) = 1
      BY FS_Singleton
    <3>2. {s, z} = {s} \union {z} /\ z \notin {s}
      BY <1>3
    <3>3. QED
      BY <3>1, <3>2, FS_AddElement
  <2>2. Cardinality({s, z}) <= Cardinality(Live)
    BY LiveCount, FS_Subset
  <2>3. QED
    BY <1>1, <2>1, <2>2
<1>4. QED
  BY <1>2, <1>3

-----------------------------------------------------------------------------
LEMMA HookInit == Init => HookInv
<1> SUFFICES ASSUME Init PROVE HookInv
  OBVIOUS
<1>1. TypeOK
  <2>1. 0 \in 0..MaxFaults /\ 0 \in 0..MaxRemounts /\ 0 \in Nat
    BY HookAssumption
  <2>2. readyState \in [Socket -> {"closed", "connecting", "open", "closing"}]
    BY DEF Init
  <2>3. QED
    BY <2>1, <2>2 DEF Init, TypeOK
<1>2. Live = {} /\ Open = {} /\ Timers = 0
  BY DEF Init, Live, Open, Timers
<1>3. Cardinality(Live) = 0
  BY <1>2, LiveCount
<1>4. QED
  BY <1>1, <1>2, <1>3 DEF Init, HookInv, Fresh, ChainsBounded, NeverStranded, StatusTrue

\* The steps that run the effect, the cleanup or a timer.
LEMMA EffectStep ==
    ASSUME HookInv, Mount \/ Unmount \/ Remount \/ TimerFires
    PROVE  HookInv'
<1>0. TypeOK /\ Fresh /\ ChainsBounded /\ NeverStranded /\ StatusTrue
  BY DEF HookInv
<1>1. /\ readyState \in [Socket -> States] /\ wsRef \in Socket \union {None}
      /\ timer \in BOOLEAN /\ lostTimers \in Nat /\ remounts \in Nat
      /\ Timers \in Nat /\ Cardinality(Live) \in Nat
      /\ Cardinality(Live) + Timers <= 1 + remounts
  BY <1>0, LiveCount, HookAssumption DEF TypeOK, States, Timers, ChainsBounded
<1>2. {s \in Socket : readyState[s] # "closed"} = Live
      /\ {s \in Socket : readyState[s] = "open"} = Open
  BY DEF Live, Open
<1>3. ASSUME NEW ready \in [Socket -> States], {s \in Socket : ready[s] # "closed"} = Live,
             Connect(ready)
      PROVE  /\ readyState' \in [Socket -> States] /\ wsRef' \in Socket /\ Live' # {}
             /\ Cardinality(Live') \in {Cardinality(Live), Cardinality(Live) + 1}
             /\ status' \in {status, "connecting"}
  BY <1>1, <1>3, ConnectFacts, LiveMore
<1>4. CASE Mount
  <2>1. Connect(readyState) /\ mounted' = TRUE /\ UNCHANGED <<timer, lostTimers, faults, remounts>>
        /\ wsRef = None
    BY <1>4 DEF Mount
  <2>2. ~mounted /\ Live = {} /\ Timers = 0
    BY <1>0, <2>1 DEF Fresh
  <2>3. /\ readyState' \in [Socket -> States] /\ wsRef' \in Socket /\ Live' # {}
        /\ Cardinality(Live') \in {Cardinality(Live), Cardinality(Live) + 1}
        /\ status' = "connecting"
        /\ Open' = Open
    BY <1>1, <1>2, <1>3, <2>1, ConnectFacts, HookAssumption
  <2>4. TypeOK'
    BY <1>0, <2>1, <2>3 DEF TypeOK, States
  <2>5. Timers' = 0 /\ Cardinality(Live) = 0
    BY <2>1, <2>2, LiveCount DEF Timers
  <2>6. ChainsBounded'
    BY <1>1, <2>1, <2>3, <2>5 DEF ChainsBounded
  <2>7. Open' = {}
    BY <2>2, <2>3 DEF Open, Live
  <2>8. QED
    BY <2>1, <2>3, <2>4, <2>6, <2>7, HookAssumption
       DEF HookInv, Fresh, NeverStranded, StatusTrue
<1>5. CASE Unmount
  <2>1. /\ mounted' = FALSE /\ timer' = FALSE /\ readyState' = Closing(wsRef)
        /\ wsRef \in Socket
        /\ UNCHANGED <<wsRef, lostTimers, status, faults, remounts>>
    BY <1>0, <1>1, <1>5 DEF Unmount, Fresh
  <2>2. readyState' \in [Socket -> States] /\ Live' = Live
    BY <1>0, <2>1, ClosingFacts DEF Live
  <2>3. Timers' \in Nat /\ Timers' <= Timers
    BY <1>1, <2>1 DEF Timers
  <2>4. ChainsBounded'
    BY <1>1, <2>1, <2>2, <2>3 DEF ChainsBounded
  <2>5. TypeOK'
    BY <1>0, <2>1, <2>2 DEF TypeOK, States
  <2>6. QED
    BY <2>1, <2>4, <2>5, HookAssumption DEF HookInv, Fresh, NeverStranded, StatusTrue
<1>6. CASE Remount
  <2>1. /\ mounted /\ remounts' = remounts + 1 /\ timer' = FALSE /\ Connect(Closing(wsRef))
        /\ remounts < MaxRemounts
        /\ UNCHANGED <<mounted, lostTimers, faults>> /\ wsRef \in Socket
    BY <1>0, <1>1, <1>6 DEF Remount, Fresh
  <2>2. /\ Closing(wsRef) \in [Socket -> States]
        /\ {s \in Socket : Closing(wsRef)[s] # "closed"} = Live
        /\ Closing(wsRef)[wsRef] # "open"
    BY <1>0, <2>1, ClosingFacts
  <2>3. /\ readyState' \in [Socket -> States] /\ wsRef' \in Socket /\ Live' # {}
        /\ Cardinality(Live') \in {Cardinality(Live), Cardinality(Live) + 1}
    BY <1>3, <2>1, <2>2
  <2>4. status' = "connecting"
    BY <1>1, <2>1, <2>2, ConnectFacts
  <2>5. TypeOK'
    <3>1. remounts' \in 0..MaxRemounts
      BY <1>1, <2>1, HookAssumption
    <3>2. QED
      BY <1>0, <2>1, <2>3, <2>4, <3>1 DEF TypeOK, States
  <2>6. Timers' \in Nat /\ Timers' <= Timers
    BY <1>1, <2>1 DEF Timers
  <2>7. ChainsBounded'
    BY <1>1, <2>1, <2>3, <2>6 DEF ChainsBounded
  <2>8. remounts' # 0
    BY <1>1, <2>1
  <2>9. QED
    BY <2>1, <2>3, <2>4, <2>5, <2>7, <2>8, HookAssumption
       DEF HookInv, Fresh, NeverStranded, StatusTrue
<1>7. CASE TimerFires
  <2>1. /\ Timers > 0 /\ Timers' = Timers - 1
        /\ timer' \in BOOLEAN /\ lostTimers' \in Nat
        /\ UNCHANGED <<mounted, faults, remounts>>
    <3>1. CASE timer /\ timer' = FALSE /\ UNCHANGED lostTimers
      <4>1. Timers = lostTimers + 1 /\ Timers' = lostTimers'
        BY <1>1, <3>1 DEF Timers
      <4>2. lostTimers' = lostTimers
        BY <3>1
      <4>3. Timers > 0 /\ Timers' = Timers - 1 /\ lostTimers' \in Nat
        BY <1>1, <4>1, <4>2
      <4>4. timer' \in BOOLEAN
        BY <3>1
      <4>5. QED
        BY <1>7, <4>3, <4>4 DEF TimerFires
    <3>2. CASE lostTimers > 0 /\ lostTimers' = lostTimers - 1 /\ UNCHANGED timer
      <4>1. lostTimers' \in Nat
        BY <1>1, <3>2
      <4>2. Timers > 0 /\ Timers' = Timers - 1
        BY <1>1, <3>2 DEF Timers
      <4>3. QED
        BY <1>1, <1>7, <3>2, <4>1, <4>2 DEF TimerFires
    <3>3. QED
      BY <1>7, <3>1, <3>2 DEF TimerFires
  <2>2. wsRef \in Socket
    BY <1>0, <1>1, <2>1 DEF Fresh
  <2>3. CASE mounted
    <3>1. Connect(readyState)
      BY <1>7, <2>3 DEF TimerFires
    <3>2. /\ readyState' \in [Socket -> States] /\ wsRef' \in Socket /\ Live' # {}
          /\ Cardinality(Live') \in {Cardinality(Live), Cardinality(Live) + 1}
          /\ status' \in {status, "connecting"}
      BY <1>1, <1>2, <1>3, <3>1
    <3>3. TypeOK'
      BY <1>0, <2>1, <3>2 DEF TypeOK, States
    <3>4. ChainsBounded'
      BY <1>1, <2>1, <3>2 DEF ChainsBounded
    <3>5. Open' = Open /\ \A s \in Live : readyState'[s] = readyState[s]
      BY <1>1, <1>2, <3>1, ConnectFacts
    <3>6. Live \subseteq Live'
      BY <3>5 DEF Live
    <3>7. remounts = 0 => Open' = {}
      <4>1. remounts = 0 => Live = {}
        BY <1>0, <2>1, SingleChain
      <4>2. QED
        BY <3>5, <4>1 DEF Open, Live
    <3>8. status' = "connected" => \E s \in Live' : readyState'[s] # "connecting"
      <4>1. SUFFICES ASSUME status' = "connected"
                     PROVE  \E s \in Live' : readyState'[s] # "connecting"
        OBVIOUS
      <4>2. status = "connected"
        BY <3>2, <4>1
      <4>3. PICK s \in Live : readyState[s] # "connecting"
        BY <1>0, <2>3, <4>2 DEF StatusTrue
      <4>4. QED
        BY <3>5, <3>6, <4>3
    <3>9. QED
      BY <2>1, <2>3, <3>2, <3>3, <3>4, <3>7, <3>8, HookAssumption
         DEF HookInv, Fresh, NeverStranded, StatusTrue
  <2>4. CASE ~mounted
    <3>1. UNCHANGED <<wsRef, readyState, status>>
      BY <1>7, <2>4 DEF TimerFires
    <3>2. TypeOK' /\ Live' = Live
      BY <1>0, <2>1, <3>1 DEF TypeOK, Live
    <3>3. ChainsBounded'
      BY <1>1, <2>1, <3>2 DEF ChainsBounded
    <3>4. QED
      BY <2>1, <2>2, <2>4, <3>1, <3>2, <3>3, HookAssumption
         DEF HookInv, Fresh, NeverStranded, StatusTrue
  <2>5. QED
    BY <2>3, <2>4
<1>8. QED
  BY <1>4, <1>5, <1>6, <1>7

\* The events of a socket.
LEMMA SocketStep ==
    ASSUME HookInv, NEW s \in Socket, Opened(s) \/ Closed(s)
    PROVE  HookInv'
<1>0. TypeOK /\ Fresh /\ ChainsBounded /\ NeverStranded /\ StatusTrue
  BY DEF HookInv
<1>1. /\ readyState \in [Socket -> States] /\ wsRef \in Socket \union {None}
      /\ timer \in BOOLEAN /\ lostTimers \in Nat /\ remounts \in Nat /\ faults \in Nat
      /\ Timers \in Nat /\ Cardinality(Live) \in Nat
      /\ Cardinality(Live) + Timers <= 1 + remounts
  BY <1>0, LiveCount, HookAssumption DEF TypeOK, States, Timers, ChainsBounded
<1>2. s \in Live
  BY DEF Opened, Closed, Live
<1>3. wsRef \in Socket
  BY <1>0, <1>1, <1>2 DEF Fresh
<1>4. CASE Opened(s)
  <2>1. /\ readyState' = [readyState EXCEPT ![s] = IF mounted THEN "open" ELSE "closing"]
        /\ status' = IF mounted THEN "connected" ELSE status
        /\ UNCHANGED <<mounted, wsRef, timer, lostTimers, faults, remounts>>
    BY <1>4 DEF Opened
  <2>2. readyState' \in [Socket -> States] /\ Live' = Live /\ Timers' = Timers
    BY <1>1, <1>2, <2>1 DEF Live, States, Timers
  <2>3. TypeOK'
    BY <1>0, <2>1, <2>2 DEF TypeOK, States
  <2>4. ChainsBounded'
    BY <1>0, <2>1, <2>2 DEF ChainsBounded
  <2>5. mounted => readyState'[s] = "open"
    BY <1>1, <2>1
  <2>6. QED
    BY <1>2, <1>3, <2>1, <2>2, <2>3, <2>4, <2>5, HookAssumption
       DEF HookInv, Fresh, NeverStranded, StatusTrue
<1>5. CASE Closed(s)
  <2>1. /\ readyState' = [readyState EXCEPT ![s] = "closed"]
        /\ OnClose(s)
        /\ UNCHANGED <<mounted, wsRef, remounts>>
        /\ faults' \in 0..MaxFaults
    BY <1>0, <1>1, <1>5, HookAssumption DEF Closed, TypeOK
  <2>2. readyState' \in [Socket -> States] /\ Live' = Live \ {s}
    BY <1>1, <2>1 DEF Live, States
  <2>3. Cardinality(Live') = Cardinality(Live) - 1
    BY <1>2, <2>2, LiveLess
  <2>4. CASE mounted
    <3>1. /\ status' = "disconnected" /\ timer' = TRUE
          /\ lostTimers' = lostTimers + (IF timer THEN 1 ELSE 0)
      BY <2>1, <2>4 DEF OnClose
    <3>2. lostTimers' \in Nat /\ Timers' = Timers + 1
      BY <1>1, <3>1 DEF Timers
    <3>3. TypeOK'
      BY <1>0, <2>1, <2>2, <3>1, <3>2 DEF TypeOK, States
    <3>4. ChainsBounded'
      BY <1>1, <2>1, <2>3, <3>2 DEF ChainsBounded
    <3>5. remounts = 0 => Open' = {}
      <4>1. remounts = 0 => Live' = {}
        BY <1>0, <1>2, <2>2, SingleChain
      <4>2. QED
        BY <4>1 DEF Open, Live
    <3>6. QED
      BY <1>1, <1>3, <2>1, <2>4, <3>1, <3>2, <3>3, <3>4, <3>5, HookAssumption
         DEF HookInv, Fresh, NeverStranded, StatusTrue
  <2>5. CASE ~mounted
    <3>1. UNCHANGED <<status, timer, lostTimers>>
      BY <2>1, <2>5 DEF OnClose
    <3>2. TypeOK' /\ Timers' = Timers
      BY <1>0, <2>1, <2>2, <3>1 DEF TypeOK, States, Timers
    <3>3. ChainsBounded'
      BY <1>1, <2>1, <2>3, <3>2 DEF ChainsBounded
    <3>4. QED
      BY <1>3, <2>1, <2>5, <3>1, <3>2, <3>3, HookAssumption
         DEF HookInv, Fresh, NeverStranded, StatusTrue
  <2>6. QED
    BY <2>4, <2>5
<1>6. QED
  BY <1>4, <1>5

LEMMA HookInvariant == Spec => []HookInv
<1>1. HookInv /\ [Next]_vars => HookInv'
  <2> SUFFICES ASSUME HookInv, [Next]_vars PROVE HookInv'
    OBVIOUS
  <2>1. CASE UNCHANGED vars
    BY <2>1 DEF vars, HookInv, TypeOK, Fresh, ChainsBounded, NeverStranded, StatusTrue,
                Live, Open, Timers
  <2>2. CASE Next
    BY <2>2, EffectStep, SocketStep DEF Next
  <2>3. QED
    BY <2>1, <2>2
<1>2. QED
  BY <1>1, HookInit, PTL DEF Spec

-----------------------------------------------------------------------------
\* The hook's refs, sockets and status have their types, for any number of sockets.
THEOREM HookTypeCorrect == Spec => []TypeOK
<1>1. HookInv => TypeOK
  BY DEF HookInv
<1>2. QED
  BY <1>1, HookInvariant, PTL

\* A mounted dashboard always has a socket that is not closed or a timer that will
\* connect, for any number of failures and remounts (connect, onclose).
THEOREM NeverStrandedHolds == Spec => []NeverStranded
<1>1. HookInv => NeverStranded
  BY DEF HookInv
<1>2. QED
  BY <1>1, HookInvariant, PTL

\* Sockets and pending timers together never exceed one plus the number of remounts, for
\* any number of failures (onclose, which does not look at a pending timer).
THEOREM ChainsBoundedHolds == Spec => []ChainsBounded
<1>1. HookInv => ChainsBounded
  BY DEF HookInv
<1>2. QED
  BY <1>1, HookInvariant, PTL

\* The status shown is true in the sense of StatusTrue, for any number of failures and
\* remounts (setConnectionStatus in connect, onopen and onclose).
THEOREM StatusTrueHolds == Spec => []StatusTrue
<1>1. HookInv => StatusTrue
  BY DEF HookInv
<1>2. QED
  BY <1>1, HookInvariant, PTL
=============================================================================
