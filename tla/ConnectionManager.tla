------------------------- MODULE ConnectionManager -------------------------
(***************************************************************************)
(* backend/websocket/manager.py and the /ws endpoint of main.py: the list  *)
(* of active connections, the endpoint coroutine of every connection, and  *)
(* the broadcasts that walk over the list while it changes.                *)
(*                                                                         *)
(* send_text writes the message and then suspends until the client has     *)
(* taken enough of what was written, or not at all; coroutines suspended   *)
(* on one connection resume in the order of their sends (the server's      *)
(* lock around that wait; external).  A send that does not suspend is one  *)
(* that resumes at once.                                                   *)
(***************************************************************************)
EXTENDS Naturals, Sequences, SequencesExt

CONSTANTS
    Conn,       \* connections; one that both sides have forgotten is used again
    Emitter,    \* coroutines that broadcast
    None

VARIABLES
    active,     \* _active_connections
    up,         \* up[c]: the connection stands
    endpoint,   \* endpoint[c]: where websocket_endpoint of c is suspended
    hello,      \* hello[c]: the initial state that waits to be sent to c
    chan,       \* chan[c]: messages written to c that the client has not handled
    waiting,    \* waiting[c]: the coroutines suspended in a send to c
    bc,         \* bc[e]: the broadcast of e: message, index, clients written to, failed sends
    disturbed,  \* history: the tasks whose announcement was under way when a client left,
                \* until one is announced again with no older announcement under way
    overtaken   \* history: <<c, t>> when c was last told of t before its initial state

historyVars == <<disturbed, overtaken>>

managerVars == <<active, up, endpoint, hello, chan, waiting, bc, historyVars>>

ManagerInit ==
    /\ active = <<>>
    /\ up = [c \in Conn |-> FALSE]
    /\ endpoint = [c \in Conn |-> "none"]
    /\ hello = [c \in Conn |-> None]
    /\ chan = [c \in Conn |-> <<>>]
    /\ waiting = [c \in Conn |-> <<>>]
    /\ bc = [e \in Emitter |-> None]
    /\ disturbed = {}
    /\ overtaken = {}

\* message reaches c, unless its connection is broken.  One that carries no task is not
\* followed any further.
Written(c, message) ==
    IF up[c] /\ message # None THEN [chan EXCEPT ![c] = Append(@, message)] ELSE chan

\* The tasks that message sets, and those that the broadcast of e does.
TasksOf(message) == IF message = None THEN {} ELSE DOMAIN message.tasks

UnderWay(e) == IF bc[e] = None THEN {} ELSE TasksOf(bc[e].message)

-----------------------------------------------------------------------------
(* connect, disconnect *)

\* Mutant of Joined: a new client goes to the front of the list.
JoinedInFront(c) == <<c>> \o active

Joined(c) == Append(active, c)

\* The list s without the clients of S, the others in their order.
Without(s, S) ==
    LET kept[i \in 0..Len(s)] ==
            IF i = 0 THEN <<>>
            ELSE IF s[i] \in S THEN kept[i - 1] ELSE Append(kept[i - 1], s[i])
    IN  kept[Len(s)]

\* The clients of S are disconnected.  A broadcast of others that is under way keeps its
\* index.  before is the set of tasks that are disturbed already.
Leave(S, others, before) ==
    /\ active' = Without(active, S)
    /\ disturbed' = before \union (IF active' = active THEN {} ELSE UNION {UnderWay(e) : e \in others})

-----------------------------------------------------------------------------
(* broadcast *)

\* e goes on with broadcast b at index b.pos of the list: it writes to the client there
\* and suspends, or the loop is over and the failed clients are disconnected.
Send(e, b, others, before) ==
    IF b.pos <= Len(active)
    THEN LET c == active[b.pos]
         IN  /\ bc' = [bc EXCEPT ![e] = [b EXCEPT !.sent = @ \union {c}]]
             /\ chan' = Written(c, b.message)
             /\ waiting' = [others EXCEPT ![c] = Append(@, e)]
             /\ LET told == {c} \X TasksOf(b.message)
                IN  overtaken' = IF endpoint[c] = "greeting" THEN overtaken \union told
                                 ELSE overtaken \ told
             /\ disturbed' = before
             /\ UNCHANGED active
    ELSE /\ bc' = [bc EXCEPT ![e] = None]
         /\ Leave(b.dead, Emitter \ {e}, before)
         /\ waiting' = others
         /\ UNCHANGED <<chan, overtaken>>

Broadcast(e, message) ==
    /\ bc[e] = None
    /\ Send(e, [message |-> message, pos |-> 1, sent |-> {}, dead |-> {}], waiting,
            disturbed \ (TasksOf(message) \ UNION {UnderWay(x) : x \in Emitter}))
    /\ UNCHANGED <<up, endpoint, hello>>

\* Mutant of Resume: a send may fail, as one that takes too long, though c stands.
ResumeImpatiently(c) ==
    /\ waiting[c] # <<>>
    /\ LET e == Head(waiting[c])
           failed == {{}, {c}}
       IN  \E f \in failed :
            Send(e, [bc[e] EXCEPT !.pos = @ + 1, !.dead = @ \union f],
                 [waiting EXCEPT ![c] = Tail(@)], disturbed)
    /\ UNCHANGED <<up, endpoint, hello>>

\* The first coroutine suspended on c resumes, with an exception if c is broken and the
\* server has noticed.
Resume(c) ==
    /\ waiting[c] # <<>>
    /\ LET e == Head(waiting[c])
           failed == IF up[c] THEN {{}} ELSE {{}, {c}}
       IN  \E f \in failed :
            Send(e, [bc[e] EXCEPT !.pos = @ + 1, !.dead = @ \union f],
                 [waiting EXCEPT ![c] = Tail(@)], disturbed)
    /\ UNCHANGED <<up, endpoint, hello>>

-----------------------------------------------------------------------------
(* websocket_endpoint *)

\* The server has forgotten connection c.
Forgotten(c) ==
    /\ endpoint[c] = "none"
    /\ waiting[c] = <<>>
    /\ \A i \in 1..Len(active) : active[i] # c
    /\ \A e \in Emitter : bc[e] # None => c \notin bc[e].sent

\* connect, and the reads of the store: nothing suspends in between.  initial is what
\* send_personal is to send.
Accept(c, initial) ==
    /\ ~up[c] /\ Forgotten(c)
    /\ up' = [up EXCEPT ![c] = TRUE]
    /\ active' = Joined(c)
    /\ endpoint' = [endpoint EXCEPT ![c] = "greeting"]
    /\ hello' = [hello EXCEPT ![c] = initial]
    /\ overtaken' = {told \in overtaken : told[1] # c}
    /\ UNCHANGED <<chan, waiting, bc, disturbed>>

\* send_personal waits for the end of the handshake (external); a broadcast that comes
\* to c as soon as the handshake is over may be written before the initial state.
Greet(c) ==
    /\ endpoint[c] = "greeting"
    /\ up[c]
    /\ chan' = Written(c, hello[c])
    /\ hello' = [hello EXCEPT ![c] = None]
    /\ endpoint' = [endpoint EXCEPT ![c] = "receiving"]
    /\ UNCHANGED <<active, up, waiting, bc, historyVars>>

\* The send of the initial state fails, or receive_text raises WebSocketDisconnect, the
\* one exception that is handled.
EndpointEnds(c) ==
    /\ endpoint[c] # "none"
    /\ ~up[c]
    /\ Leave({c}, Emitter, disturbed)
    /\ hello' = [hello EXCEPT ![c] = None]
    /\ endpoint' = [endpoint EXCEPT ![c] = "none"]
    /\ UNCHANGED <<up, chan, waiting, bc, overtaken>>

\* receive_text raises anything else: KeyError on a frame that is not text, after which
\* the server closes the connection, or RuntimeError after a broadcast's send to c has
\* failed.  c stays listed.
EndpointFails(c) ==
    /\ endpoint[c] = "receiving"
    /\ up[c] \/ \E e \in Emitter : bc[e] # None /\ c \in bc[e].dead
    /\ up' = [up EXCEPT ![c] = FALSE]
    /\ chan' = [chan EXCEPT ![c] = <<>>]
    /\ endpoint' = [endpoint EXCEPT ![c] = "none"]
    /\ UNCHANGED <<active, hello, waiting, bc, historyVars>>

\* The connection breaks, or the client closes it: it handles no more messages.
Break(c) ==
    /\ up[c]
    /\ up' = [up EXCEPT ![c] = FALSE]
    /\ chan' = [chan EXCEPT ![c] = <<>>]
    /\ UNCHANGED <<active, endpoint, hello, waiting, bc, historyVars>>
=============================================================================
