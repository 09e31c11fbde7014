------------------------------ MODULE LinkLoom ------------------------------
(***************************************************************************)
(* LinkLoom+: the API server (internal/api/handlers.go) over the table     *)
(* links and the Redis cache, composed with the click pipeline.  Handlers  *)
(* run in parallel; one action is one call to the database, the cache or   *)
(* the broker, each of which may fail.                                     *)
(***************************************************************************)
EXTENDS ClickPipeline, FiniteSets

CONSTANTS
    Handler,    \* requests that are handled at the same time
    Code, Url,
    Root        \* where http.Redirect leads when it is given an empty URL

ASSUME LinkLoomAssumption ==
    /\ None \notin Url
    /\ Root \notin Url \union {None}

VARIABLES
    links,      \* links[c]: original_url of short code c, or None
    cache,      \* cache[c]: what Redis holds under c, or None
    hpc,        \* hpc[h]: the call handler h is about to make
    hcode,      \* hcode[h]: the short code of h's request
    longURL,    \* longURL[h]
    redisFailed,\* history: redisFailed[h]: Redis failed in h's request, and h went on
    click       \* click[e]: how far click e got, its code, and whether its values fit the table

apiVars == <<links, cache, hpc, hcode, longURL, redisFailed, click>>
vars == <<pipeVars, apiVars>>

NoClick == [at |-> "unused", code |-> None, fits |-> FALSE]

Init ==
    /\ PipelineInit
    /\ links = [c \in Code |-> None]
    /\ cache = [c \in Code |-> None]
    /\ hpc = [h \in Handler |-> "idle"]
    /\ hcode = [h \in Handler |-> None]
    /\ longURL = [h \in Handler |-> None]
    /\ redisFailed = [h \in Handler |-> FALSE]
    /\ click = [e \in Event |-> NoClick]

\* Handler h goes on to call l with URL u; at "idle" it has answered.
Call(h, l, u) ==
    /\ hpc' = [hpc EXCEPT ![h] = l]
    /\ longURL' = [longURL EXCEPT ![h] = u]
    /\ UNCHANGED <<hcode, redisFailed>>

Answer(h) ==
    /\ hpc' = [hpc EXCEPT ![h] = "idle"]
    /\ hcode' = [hcode EXCEPT ![h] = None]
    /\ longURL' = [longURL EXCEPT ![h] = None]
    /\ redisFailed' = [redisFailed EXCEPT ![h] = FALSE]

-----------------------------------------------------------------------------
(* handleCreateLink *)

\* A request with a valid URL; the code is random, so any code may come up.
CreateLink(h, c, u) ==
    /\ hpc[h] = "idle"
    /\ hpc' = [hpc EXCEPT ![h] = "insert_link"]
    /\ hcode' = [hcode EXCEPT ![h] = c]
    /\ longURL' = [longURL EXCEPT ![h] = u]
    /\ UNCHANGED <<pipeVars, links, cache, redisFailed, click>>

\* Mutant of Free: short_code is not UNIQUE.
FreeAlways(c) == TRUE

\* short_code is UNIQUE.
Free(c) == links[c] = None

InsertLink(h) ==
    /\ hpc[h] = "insert_link"
    /\ Free(hcode[h])
    /\ links' = [links EXCEPT ![hcode[h]] = longURL[h]]
    /\ Call(h, "set", longURL[h])
    /\ UNCHANGED <<pipeVars, cache, click>>

\* The code is taken, or the database fails (and may have committed): status 500.
InsertLinkFails(h) ==
    /\ hpc[h] = "insert_link"
    /\ \/ UNCHANGED links
       \/ /\ Free(hcode[h])
          /\ links' = [links EXCEPT ![hcode[h]] = longURL[h]]
    /\ Answer(h)
    /\ UNCHANGED <<pipeVars, cache, click>>

\* Redis.Set, whose error nobody looks at; the link is answered.
SetCache(h) ==
    /\ hpc[h] = "set"
    /\ cache' \in {cache, [cache EXCEPT ![hcode[h]] = longURL[h]]}
    /\ Answer(h)
    /\ UNCHANGED <<pipeVars, links, click>>

\* The 24 hours of an entry are over, or Redis evicts it.
Expire(c) ==
    /\ cache[c] # None
    /\ cache' = [cache EXCEPT ![c] = None]
    /\ UNCHANGED <<pipeVars, links, hpc, hcode, longURL, redisFailed, click>>

-----------------------------------------------------------------------------
(* handleRedirect *)

\* Bound: a click is left for every redirect that is under way.
ClickLeft ==
    Cardinality({h \in Handler : hpc[h] \in {"get", "select", "fill", "redirect"}})
        < Cardinality({e \in Event : click[e].at = "unused"})

Redirect(h, c) ==
    /\ hpc[h] = "idle"
    /\ ClickLeft
    /\ hpc' = [hpc EXCEPT ![h] = "get"]
    /\ hcode' = [hcode EXCEPT ![h] = c]
    /\ UNCHANGED <<pipeVars, links, cache, longURL, redisFailed, click>>

GetCache(h) ==
    /\ hpc[h] = "get"
    /\ IF cache[hcode[h]] # None THEN Call(h, "redirect", cache[hcode[h]])
                                 ELSE Call(h, "select", None)
    /\ UNCHANGED <<pipeVars, links, cache, click>>

\* Mutant of GoOnWithout: the empty URL is put into the cache.
FillWithout(h) == hpc' = [hpc EXCEPT ![h] = "fill"]

GoOnWithout(h) == hpc' = [hpc EXCEPT ![h] = "redirect"]

\* Redis fails: the error is logged, and the handler goes on with an empty URL.
GetCacheFails(h) ==
    /\ hpc[h] = "get"
    /\ GoOnWithout(h)
    /\ longURL' = [longURL EXCEPT ![h] = Root]
    /\ redisFailed' = [redisFailed EXCEPT ![h] = TRUE]
    /\ UNCHANGED <<pipeVars, links, cache, hcode, click>>

SelectLink(h) ==
    /\ hpc[h] = "select"
    /\ links[hcode[h]] # None
    /\ Call(h, "fill", links[hcode[h]])
    /\ UNCHANGED <<pipeVars, links, cache, click>>

\* No such link, or the database failed: status 404.
NotFound(h) ==
    /\ hpc[h] = "select"
    /\ Answer(h)
    /\ UNCHANGED <<pipeVars, links, cache, click>>

FillCache(h) ==
    /\ hpc[h] = "fill"
    /\ cache' \in {cache, [cache EXCEPT ![hcode[h]] = longURL[h]]}
    /\ Call(h, "redirect", longURL[h])
    /\ UNCHANGED <<pipeVars, links, click>>

\* The redirect is answered, and a goroutine is left to publish the click.  Its values
\* fit the table if the country found has two letters ("Unknown", for a local address,
\* has more), the address is not too long and a partition exists for its month.
SendRedirect(h, e) ==
    /\ hpc[h] = "redirect"
    /\ click[e].at = "unused"
    /\ \E fits \in BOOLEAN :
        click' = [click EXCEPT ![e] = [at |-> "sending", code |-> hcode[h], fits |-> fits]]
    /\ Answer(h)
    /\ UNCHANGED <<pipeVars, links, cache>>

Publish(e) ==
    /\ click[e].at = "sending"
    /\ click' = [click EXCEPT ![e].at = "published"]
    /\ Enqueue(e)
    /\ UNCHANGED <<links, cache, hpc, hcode, longURL, redisFailed>>

\* The publication fails, runs into its two seconds, or its process ends.
LosePublish(e) ==
    /\ click[e].at = "sending"
    /\ click' = [click EXCEPT ![e] = NoClick]
    /\ UNCHANGED <<pipeVars, links, cache, hpc, hcode, longURL, redisFailed>>

-----------------------------------------------------------------------------
\* The clicks the table click_events takes: its foreign key wants the link.
Insertable == {e \in Event : click[e].fits /\ links[click[e].code] # None}

HandlerStep(h) ==
    \/ \E c \in Code : Redirect(h, c) \/ \E u \in Url : CreateLink(h, c, u)
    \/ InsertLink(h) \/ InsertLinkFails(h) \/ SetCache(h)
    \/ GetCache(h) \/ GetCacheFails(h) \/ SelectLink(h) \/ NotFound(h) \/ FillCache(h)
    \/ \E e \in Event : SendRedirect(h, e)

Process(w) ==
    \/ Receive(w)
    \/ InsertOk(w, Insertable) \/ InsertFails(w, Insertable) \/ InsertUnsure(w, Insertable)
    \/ Ack(w) \/ Nack(w) \/ Return(w) \/ Exit(w, Insertable)

PipelineStep(w) ==
    /\ \/ Deliver(w) \/ Process(w)
       \/ Subscribe(w) \/ LoseConnection(w) \/ Signal(w) \/ Crash(w, Insertable)
    /\ UNCHANGED apiVars

Next ==
    \/ \E h \in Handler : HandlerStep(h)
    \/ \E c \in Code : Expire(c)
    \/ \E e \in Event : Publish(e) \/ LosePublish(e)
    \/ \E w \in Worker : PipelineStep(w)

\* The broker delivers, a worker process makes progress while it runs, and one that was
\* told to stop exits.  Nobody has to start a worker.
Fairness ==
    \A w \in Worker : /\ WF_vars(Deliver(w) /\ UNCHANGED apiVars)
                      /\ WF_vars(Process(w) /\ UNCHANGED apiVars)
                      /\ WF_vars(Exit(w, Insertable) /\ UNCHANGED apiVars)

Spec == Init /\ [][Next]_vars /\ Fairness

-----------------------------------------------------------------------------
TypeOK ==
    /\ ready \in Seq(Event)
    /\ msgs \in [Worker -> Seq(Event)]
    /\ wpc \in [Worker -> {"down", "select", "insert", "ack", "nack", "returned"}]
    /\ cur \in [Worker -> Event \union {None}]
    /\ connected \in [Worker -> BOOLEAN]
    /\ cancelled \in [Worker -> BOOLEAN]
    /\ rows \in [Event -> Nat]
    /\ faults \in 0..MaxFaults
    /\ links \in [Code -> Url \union {None}]
    /\ cache \in [Code -> Url \union {None}]
    /\ hpc \in [Handler -> {"idle", "insert_link", "set", "get", "select", "fill", "redirect"}]
    /\ hcode \in [Handler -> Code \union {None}]
    /\ longURL \in [Handler -> Url \union {None, Root}]
    /\ redisFailed \in [Handler -> BOOLEAN]
    /\ click \in [Event -> [at : {"unused", "sending", "published"},
                            code : Code \union {None}, fits : BOOLEAN]]

\* The cache never holds anything but the stored URL of a code, although creations and
\* redirects of one code fill it in parallel and codes may collide (handleCreateLink,
\* handleRedirect: the order of the insert, the select and the two Redis.Set).
CacheCoherent == \A c \in Code : cache[c] # None => cache[c] = links[c]

\* A failing Redis misdirects nobody else: a request in which Redis did not fail is led
\* to the URL stored for its code, although another one in which it did goes on with an
\* empty URL at the same time and with the same cache (handleRedirect, err != nil).
RedirectRight ==
    \A h \in Handler : hpc[h] = "redirect" /\ ~redisFailed[h] =>
        links[hcode[h]] # None /\ longURL[h] = links[hcode[h]]

Published == {e \in Event : click[e].at = "published"}

\* A click the broker accepted is in the broker or has a row: no crash, signal, lost
\* connection or database error, at whatever point of processMessage, loses it.
NoClickLost == \A e \in Published : e \in InBroker \/ rows[e] > 0

Surplus(e) == IF rows[e] > 1 THEN rows[e] - 1 ELSE 0

\* A fault costs at most one row too many in the whole table, although it queues the
\* whole backlog of a worker again (processMessage, the gap between Exec and Ack).
SurplusBounded == SumFunction([e \in Event |-> Surplus(e)]) <= faults

Ledger == INSTANCE ClickLedger WITH
    accepted <- Published, counted <- rows, settled <- Published \ InBroker

\* The pipeline implements the ledger: at least once, settled only when counted.
LedgerSpec == Ledger!LedgerSpec

Steady(w) == connected[w] /\ ~cancelled[w]

\* While some worker stays connected every click that can be inserted is, also one
\* behind clicks that never can be and that come back for ever (processMessage, Nack).
EventuallyCounted ==
    <>[](\E w \in Worker : Steady(w)) =>
        \A e \in Event : e \in Published \intersect Insertable ~> rows[e] > 0
=============================================================================
