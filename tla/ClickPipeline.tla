--------------------------- MODULE ClickPipeline ---------------------------
(***************************************************************************)
(* The click analytics of LinkLoom+: the broker's click_events queue       *)
(* (internal/queue/rabbitmq.go; RabbitMQ itself is external) and the       *)
(* worker processes (cmd/worker/main.go, internal/analytics/worker.go).    *)
(*                                                                         *)
(* The consumer sets no prefetch limit: the broker pushes every ready      *)
(* message to a connected worker, and takes back what the worker has not   *)
(* acknowledged when the connection goes.  A worker that loses its         *)
(* connection returns from Start and its process stays: nothing reconnects *)
(* it.  Every goroutine runs in parallel; one action is one call that      *)
(* leaves the process.                                                     *)
(***************************************************************************)
EXTENDS Naturals, Sequences, FiniteSets, SequencesExt, Functions

CONSTANTS
    Event,      \* clicks that may be published
    Worker,     \* worker processes
    None,
    MaxFaults   \* bound on failures and signals

ASSUME PipelineAssumption ==
    /\ IsFiniteSet(Event) /\ None \notin Event
    /\ IsFiniteSet(Worker)
    /\ MaxFaults \in Nat

VARIABLES
    ready,      \* messages of the queue that no worker was sent
    msgs,       \* msgs[w]: messages sent to w that it has not received yet
    wpc,        \* wpc[w]: where Start is, or "down" while w's process does not run
    cur,        \* cur[w]: the click processMessage works on
    connected,  \* connected[w]: w has a channel to the broker
    cancelled,  \* cancelled[w]: main has cancelled the context of Start
    rows,       \* rows[e]: rows of e in the table click_events
    faults

workerVars == <<msgs, wpc, cur, connected, cancelled>>
pipeVars == <<ready, workerVars, rows, faults>>

PipelineInit ==
    /\ ready = <<>>
    /\ msgs = [w \in Worker |-> <<>>]
    /\ wpc = [w \in Worker |-> "down"]
    /\ cur = [w \in Worker |-> None]
    /\ connected = [w \in Worker |-> FALSE]
    /\ cancelled = [w \in Worker |-> FALSE]
    /\ rows = [e \in Event |-> 0]
    /\ faults = 0

Fault ==
    /\ faults < MaxFaults
    /\ faults' = faults + 1

Goto(w, l) == wpc' = [wpc EXCEPT ![w] = l]

\* What the broker takes back from w.
Unacked(w) ==
    IF ~connected[w] THEN <<>>
    ELSE (IF cur[w] = None THEN <<>> ELSE <<cur[w]>>) \o msgs[w]

\* The clicks the broker still holds.
InBroker ==
    ToSet(ready) \union UNION {ToSet(Unacked(w)) : w \in Worker}

-----------------------------------------------------------------------------
(* The broker *)

\* PublishClickEvent of click e arrives: a persistent message of a durable queue.
Enqueue(e) ==
    /\ ready' = Append(ready, e)
    /\ UNCHANGED <<workerVars, rows, faults>>

Deliver(w) ==
    /\ connected[w]
    /\ ready # <<>>
    /\ msgs' = [msgs EXCEPT ![w] = @ \o ready]
    /\ ready' = <<>>
    /\ UNCHANGED <<wpc, cur, connected, cancelled, rows, faults>>

\* The connection of w breaks: its deliveries are dropped and queued again.
LoseConnection(w) ==
    /\ connected[w]
    /\ Fault
    /\ ready' = Unacked(w) \o ready
    /\ msgs' = [msgs EXCEPT ![w] = <<>>]
    /\ connected' = [connected EXCEPT ![w] = FALSE]
    /\ UNCHANGED <<wpc, cur, cancelled, rows>>

-----------------------------------------------------------------------------
(* A worker process *)

\* An operator starts the process: main connects and Start subscribes.
Subscribe(w) ==
    /\ wpc[w] = "down"
    /\ Goto(w, "select")
    /\ connected' = [connected EXCEPT ![w] = TRUE]
    /\ UNCHANGED <<ready, msgs, cur, cancelled, rows, faults>>

\* The select takes a delivery, perhaps also after the context was cancelled: then
\* the insert fails without reaching the database.
Receive(w) ==
    /\ wpc[w] = "select"
    /\ msgs[w] # <<>>
    /\ cur' = [cur EXCEPT ![w] = Head(msgs[w])]
    /\ msgs' = [msgs EXCEPT ![w] = Tail(@)]
    /\ Goto(w, IF cancelled[w] THEN "nack" ELSE "insert")
    /\ UNCHANGED <<ready, connected, cancelled, rows, faults>>

AddRow(e) == rows' = [rows EXCEPT ![e] = @ + 1]

\* Mutant of InsertOk: success too ends in Nack.
InsertOkNacked(w, Insertable) ==
    /\ wpc[w] = "insert"
    /\ cur[w] \in Insertable
    /\ AddRow(cur[w])
    /\ Goto(w, "nack")
    /\ UNCHANGED <<ready, msgs, cur, connected, cancelled, faults>>

InsertOk(w, Insertable) ==
    /\ wpc[w] = "insert"
    /\ cur[w] \in Insertable
    /\ AddRow(cur[w])
    /\ Goto(w, "ack")
    /\ UNCHANGED <<ready, msgs, cur, connected, cancelled, faults>>

\* Mutants of AfterError: the delivery is acknowledged all the same; it is tried
\* again on the spot instead of being queued again.
AckOnError == "ack"
RetryOnError == "insert"

AfterError == "nack"

\* The database refuses the row, for the click's own fault or for another reason.
InsertFails(w, Insertable) ==
    /\ wpc[w] = "insert"
    /\ Goto(w, AfterError)
    /\ IF cur[w] \in Insertable THEN Fault ELSE UNCHANGED faults
    /\ UNCHANGED <<ready, msgs, cur, connected, cancelled, rows>>

\* The row is committed, but Exec reports an error (a lost reply, a cancelled context).
InsertUnsure(w, Insertable) ==
    /\ wpc[w] = "insert"
    /\ cur[w] \in Insertable
    /\ AddRow(cur[w])
    /\ Fault
    /\ Goto(w, AfterError)
    /\ UNCHANGED <<ready, msgs, cur, connected, cancelled>>

\* Ack and Nack(requeue) have no effect on a closed channel, and no error is read.
Settled(w, requeue) ==
    /\ Goto(w, "select")
    /\ cur' = [cur EXCEPT ![w] = None]
    /\ ready' = (IF connected[w] THEN requeue ELSE <<>>) \o ready
    /\ UNCHANGED <<msgs, connected, cancelled, rows, faults>>

Ack(w) == wpc[w] = "ack" /\ Settled(w, <<>>)

\* Mutant of Nack: the delivery is not queued again.
NackDiscarding(w) == wpc[w] = "nack" /\ Settled(w, <<>>)

Nack(w) == wpc[w] = "nack" /\ Settled(w, <<cur[w]>>)

\* msgs is closed, or the context is done.
Return(w) ==
    /\ wpc[w] = "select"
    /\ ~connected[w] \/ cancelled[w]
    /\ Goto(w, "returned")
    /\ UNCHANGED <<ready, msgs, cur, connected, cancelled, rows, faults>>

Signal(w) ==
    /\ wpc[w] # "down"
    /\ ~cancelled[w]
    /\ Fault
    /\ cancelled' = [cancelled EXCEPT ![w] = TRUE]
    /\ UNCHANGED <<ready, msgs, wpc, cur, connected, rows>>

\* The process ends: the broker takes its deliveries back, and an insert that is on its
\* way may still be committed.
Gone(w, Insertable) ==
    /\ wpc[w] # "down"
    /\ Goto(w, "down")
    /\ ready' = Unacked(w) \o ready
    /\ msgs' = [msgs EXCEPT ![w] = <<>>]
    /\ cur' = [cur EXCEPT ![w] = None]
    /\ connected' = [connected EXCEPT ![w] = FALSE]
    /\ cancelled' = [cancelled EXCEPT ![w] = FALSE]
    /\ \/ UNCHANGED rows
       \/ wpc[w] = "insert" /\ cur[w] \in Insertable /\ AddRow(cur[w])

\* One second after the signal; a crash.
Exit(w, Insertable) == cancelled[w] /\ UNCHANGED faults /\ Gone(w, Insertable)
Crash(w, Insertable) == Fault /\ Gone(w, Insertable)
=============================================================================
