-------------------------------- MODULE Feed --------------------------------
(***************************************************************************)
(* The live feed from the task store to the dashboards: the monitor and    *)
(* the connection manager, composed with the clients, which connect, break *)
(* off at any moment, and apply what they are sent to the tasks they show  *)
(* (frontend/src/store/useStore.js).                                       *)
(***************************************************************************)
EXTENDS Monitor

VARIABLE view   \* view[c]: the tasks client c shows

vars == <<managerVars, monitorVars, view>>

NoTasks == [t \in {} |-> 0]

Init ==
    /\ ManagerInit
    /\ MonitorInit
    /\ view = [c \in Conn |-> NoTasks]

\* Mutant of Applied: an update does not overwrite a task that is known already.
AppliedUnderneath(message, tasks) ==
    [t \in DOMAIN message.tasks \union DOMAIN tasks |->
        IF t \in DOMAIN tasks /\ message.type = "task_update" THEN tasks[t]
        ELSE message.tasks[t]]

\* setAllTasks replaces the tasks, updateTask overwrites one.
Applied(message, tasks) ==
    IF message.type = "initial_state" THEN message.tasks
    ELSE [t \in DOMAIN message.tasks \union DOMAIN tasks |->
            IF t \in DOMAIN message.tasks THEN message.tasks[t] ELSE tasks[t]]

\* handleMessage
HandleMessage(c) ==
    /\ chan[c] # <<>>
    /\ view' = [view EXCEPT ![c] = Applied(Head(chan[c]), @)]
    /\ chan' = [chan EXCEPT ![c] = Tail(@)]
    /\ UNCHANGED <<active, up, endpoint, hello, waiting, bc, historyVars, monitorVars>>

\* A client connects, for the first time or again.  What it showed before does not
\* matter: the initial state will replace it.
Join(c) ==
    /\ Accept(c, Message("initial_state", store))
    /\ view' = [view EXCEPT ![c] = NoTasks]
    /\ UNCHANGED monitorVars

Emissions ==
    /\ \/ \E t \in Task : UpdateSilently(t) \/ \E e \in Emitter : Emit(e, t)
       \/ \E e \in Emitter : EmitTaskUpdate(e)
       \/ EmitMetrics
       \/ EmitWorkerUpdate
    /\ UNCHANGED view

Serve(c) ==
    /\ Resume(c) \/ Greet(c) \/ EndpointEnds(c) \/ EndpointFails(c) \/ Break(c)
    /\ UNCHANGED <<monitorVars, view>>

Next == Emissions \/ \E c \in Conn : Serve(c) \/ Join(c) \/ HandleMessage(c)

Spec == Init /\ [][Next]_vars

-----------------------------------------------------------------------------
\* A broadcast sends nothing twice to a client: the clients ahead of its index have not
\* been written to, however the list changed since it started (broadcast).
NeverTwice ==
    \A e \in Emitter : bc[e] # None =>
        \A i \in (bc[e].pos + 1)..Len(active) : active[i] \notin bc[e].sent

\* manager.py:42 "Broadcast an event to all connected clients.": of the clients that are
\* connected all those up to the broadcast's index were written to.
EveryClientReached ==
    \A e \in Emitter : bc[e] # None =>
        \A i \in 1..Len(active) : i <= bc[e].pos => active[i] \in bc[e].sent

\* Client c has handled all that was sent to it, and nothing is on its way.
AtRest(c) ==
    /\ up[c]
    /\ endpoint[c] = "receiving"
    /\ chan[c] = <<>>
    /\ \A e \in Emitter : bc[e] = None

\* A client at rest shows no task older than its last announcement, whenever it connected
\* and however the coroutines that broadcast overlap.  Two things break this, and only
\* for some tasks: a client that left while the task was being announced, which makes the
\* announcement pass over another one or come after a later one, and an announcement that
\* reached the client before its initial state.  Whatever came before, the next
\* announcement of the task repairs it, in the first case if none is under way when it
\* starts (broadcast; the endpoint's order of connect, reads and initial_state;
\* setAllTasks, updateTask).
CaughtUp ==
    \A c \in Conn, t \in Task :
        AtRest(c) /\ t \notin disturbed /\ <<c, t>> \notin overtaken =>
            t \in DOMAIN view[c] /\ view[c][t] >= announced[t]

\* Every client that is connected is listed: the broadcasts and the endpoints, which take
\* clients off the list, some long after a send to them has failed, take off none whose
\* connection stands and that would wait for events for ever (broadcast's cleanup,
\* disconnect, websocket_endpoint).
ConnectedIsListed == \A c \in Conn : up[c] => c \in ToSet(active)
=============================================================================
