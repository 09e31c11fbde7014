---------------------------- MODULE MemoryQueue ----------------------------
(***************************************************************************)
(* backend/queue/memory_queue.py: one topic of InMemoryQueue and the       *)
(* consumers that read it through the shared cursor of their group, from   *)
(* the end of the start-up on (main.py calls start and create_topic before *)
(* anything else).  produce never suspends: the asyncio queues have no     *)
(* bound.  A consumer gives up the event loop where it yields a message    *)
(* and where it sleeps; one action is the code between two such points.    *)
(* A message is its offset in its partition.                               *)
(***************************************************************************)
EXTENDS Integers, Sequences

CONSTANTS
    Consumer,       \* the consume() generators that were called
    Group,          \* Group[c]: the group_id consumer c was called with
    N,              \* num_partitions of the topic
    Partition,      \* the partition arguments of produce
    None,           \* the partition argument when the caller gives none
    MaxMessages     \* bound on total_produced

ASSUME QueueAssumption ==
    /\ N \in Nat \ {0}
    /\ MaxMessages \in Nat
    /\ Partition \subseteq Nat \union {None}
    /\ None \notin Int

VARIABLES
    running,        \* _running
    queues,         \* _queues[topic][p]: the messages waiting in partition p
    offsets,        \* _offsets[topic][p]
    total_produced, \* _total_produced[topic]
    consumer_rr,    \* _consumer_rr[g][topic]: the cursor of group g
    ended,          \* ended[c]: consume() of consumer c has returned
    looks,          \* looks[c]: iterations left of c's pass over the partitions
    taken,          \* history: the messages <<p, offset>> that group g was handed
    waited,         \* history: messages group g took elsewhere while p had one
    late            \* history: messages c was given after stop()

vars == <<running, queues, offsets, total_produced, consumer_rr, ended, looks,
          taken, waited, late>>

Part == 0..(N - 1)
Groups == {Group[c] : c \in Consumer}

Init ==
    /\ running = TRUE
    /\ queues = [p \in Part |-> <<>>]
    /\ offsets = [p \in Part |-> 0]
    /\ total_produced = 0
    /\ consumer_rr = [g \in Groups |-> 0]
    /\ ended = [c \in Consumer |-> FALSE]
    /\ looks = [c \in Consumer |-> 0]
    /\ taken = [g \in Groups |-> {}]
    /\ waited = [g \in Groups |-> [p \in Part |-> 0]]
    /\ late = [c \in Consumer |-> 0]

-----------------------------------------------------------------------------
Stop ==
    /\ running
    /\ running' = FALSE
    /\ UNCHANGED <<queues, offsets, total_produced, consumer_rr, ended, looks,
                   taken, waited, late>>

Produce(partition) ==
    /\ total_produced < MaxMessages
    /\ LET p == (IF partition = None THEN total_produced ELSE partition) % N
       IN  /\ queues' = [queues EXCEPT ![p] = Append(@, offsets[p])]
           /\ offsets' = [offsets EXCEPT ![p] = @ + 1]
    /\ total_produced' = total_produced + 1
    /\ UNCHANGED <<running, consumer_rr, ended, looks, taken, waited, late>>

-----------------------------------------------------------------------------
(* consume *)

\* Mutants of Look: the modulus misses the last partition; the cursor of a consumer
\* that was resumed starts from the first partition again.
LookShort(r, i) == (r + i - 1) % (IF N > 1 THEN N - 1 ELSE 1)
LookFromStart(r, i) == (i - 1) % N

\* The partition the i-th look from cursor r goes to.  The cursor is then one more.
Look(r, i) == (r + i - 1) % N

\* Mutants of Ahead: a stopped consumer begins another pass; a pass has one look more.
AheadPastStop(c) == looks[c] + N
AheadOneMore(c) == looks[c] + (IF running THEN N + 1 ELSE 0)

\* The looks c makes before it sleeps or ends: the rest of its pass and, as _running is
\* read only between two passes, the next one if the queue still runs.
Ahead(c) == looks[c] + (IF running THEN N ELSE 0)

\* The numbers of those looks that find a message.
Hits(c) == {i \in 1..Ahead(c) : queues[Look(consumer_rr[Group[c]], i)] # <<>>}

\* The first hit, the message c yields: in this pass, or in the next one.
Take(c) ==
    \E i \in Hits(c) :
        LET g == Group[c]
            p == Look(consumer_rr[g], i)
        IN  /\ ~ended[c]
            /\ \A j \in Hits(c) : i <= j
            /\ queues' = [queues EXCEPT ![p] = Tail(@)]
            /\ consumer_rr' = [consumer_rr EXCEPT ![g] = p + 1]
            /\ looks' = [looks EXCEPT ![c] = (IF i <= looks[c] THEN looks[c] ELSE Ahead(c)) - i]
            /\ taken' = [taken EXCEPT ![g] = @ \union {<<p, Head(queues[p])>>}]
            /\ waited' = [h \in Groups |-> [q \in Part |->
                            IF q = p \/ queues[q] = <<>> THEN 0
                            ELSE waited[h][q] + (IF h = g THEN 1 ELSE 0)]]
            /\ late' = [late EXCEPT ![c] = @ + (IF running THEN 0 ELSE 1)]
            /\ UNCHANGED <<running, offsets, total_produced, ended>>

\* Without a hit the cursor has moved on, and c sleeps, or it returns after stop().
GiveUp(c) ==
    /\ ~ended[c]
    /\ Hits(c) = {}
    /\ consumer_rr' = [consumer_rr EXCEPT ![Group[c]] =
                          IF Ahead(c) = 0 THEN @ ELSE Look(@, Ahead(c)) + 1]
    /\ looks' = [looks EXCEPT ![c] = 0]
    /\ ended' = [ended EXCEPT ![c] = ~running]
    /\ UNCHANGED <<running, queues, offsets, total_produced, taken, waited, late>>

-----------------------------------------------------------------------------
Next ==
    \/ Stop
    \/ \E partition \in Partition : Produce(partition)
    \/ \E c \in Consumer : Take(c) \/ GiveUp(c)

\* The event loop resumes every consumer: after a yield when its caller asks for the
\* next message, after a sleep when the 0.1 s are over.
Fairness == \A c \in Consumer : WF_vars(Take(c) \/ GiveUp(c))

Spec == Init /\ [][Next]_vars /\ Fairness

-----------------------------------------------------------------------------
TypeOK ==
    /\ running \in BOOLEAN
    /\ queues \in [Part -> Seq(Nat)]
    /\ offsets \in [Part -> Nat]
    /\ total_produced \in Nat
    /\ consumer_rr \in [Groups -> 0..N]
    /\ ended \in [Consumer -> BOOLEAN]
    /\ looks \in [Consumer -> 0..(N - 1)]
    /\ taken \in [Groups -> SUBSET (Part \X Nat)]
    /\ waited \in [Groups -> [Part -> Nat]]
    /\ late \in [Consumer -> Nat]

\* No partition starves: while one has a message, a group takes at most N - 1
\* messages from the others before it takes that one, although its consumers share
\* one cursor and interrupt each other's passes (consume, _consumer_rr).
CursorFair == \A g \in Groups, p \in Part : waited[g][p] < N

\* stop() does not take effect at once, but soon: a consumer inside a pass is given
\* fewer messages than there are partitions before it returns (consume).
StopBounded == \A c \in Consumer : late[c] < N

\* While the queue runs every message is handed out in the end, and after stop()
\* every consumer returns, even one that never finds the queue empty.
AllConsumed ==
    /\ \A p \in Part, o \in 0..(MaxMessages - 1) :
        offsets[p] > o ~> (\E g \in Groups : <<p, o>> \in taken[g]) \/ ~running
    /\ ~running ~> \A c \in Consumer : ended[c]

\* memory_queue.py:4-5 "simulates Kafka semantics", "Supports topics, partitions, consumer
\* groups, and offsets": what one group consumes another still gets, so that a message a
\* group was not handed is still there for it.
GroupsIndependent ==
    \A g \in Groups, p \in Part : \A o \in 0..(offsets[p] - 1) :
        <<p, o>> \in taken[g] \/ \E i \in DOMAIN queues[p] : queues[p][i] = o
=============================================================================
