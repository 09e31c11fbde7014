--------------------------- MODULE LinkLoomProofs ---------------------------
(***************************************************************************)
(* Proofs about LinkLoom, for any numbers of requests, codes, URLs, clicks *)
(* and worker processes: the cache and the redirects are right, and the    *)
(* click pipeline implements the ledger.                                   *)
(***************************************************************************)
EXTENDS LinkLoom, Sums, TLAPS

-----------------------------------------------------------------------------
(* The API server *)

ApiTypeOK ==
    /\ links \in [Code -> Url \union {None}]
    /\ cache \in [Code -> Url \union {None}]
    /\ hpc \in [Handler -> {"idle", "insert_link", "set", "get", "select", "fill", "redirect"}]
    /\ hcode \in [Handler -> Code \union {None}]
    /\ longURL \in [Handler -> Url \union {None, Root}]
    /\ redisFailed \in [Handler -> BOOLEAN]
    /\ click \in [Event -> [at : {"unused", "sending", "published"},
                            code : Code \union {None}, fits : BOOLEAN]]

\* What a handler knows at each of its calls.
HandlerOK(h) ==
    /\ hpc[h] # "idle" => hcode[h] \in Code
    /\ hpc[h] = "insert_link" => longURL[h] \in Url
    /\ hpc[h] \in {"set", "fill"} =>
            longURL[h] = links[hcode[h]] /\ links[hcode[h]] \in Url
    /\ hpc[h] = "redirect" /\ ~redisFailed[h] =>
            longURL[h] = links[hcode[h]] /\ links[hcode[h]] \in Url

ApiInv == ApiTypeOK /\ CacheCoherent /\ \A h \in Handler : HandlerOK(h)

\* A step of handler h keeps ApiInv if links are only added, the cache is filled from the
\* links, and h knows what it has to.
LEMMA HandlerFrame ==
    ASSUME ApiInv, ApiTypeOK', NEW h \in Handler,
           \A c \in Code : links[c] # None => links'[c] = links[c],
           \A c \in Code : cache'[c] \in {cache[c], links[c], None},
           \A g \in Handler \ {h} :
                /\ hpc'[g] = hpc[g] /\ hcode'[g] = hcode[g]
                /\ longURL'[g] = longURL[g] /\ redisFailed'[g] = redisFailed[g],
           HandlerOK(h)'
    PROVE  ApiInv'
<1>1. CacheCoherent'
  BY DEF ApiInv, CacheCoherent
<1>2. ASSUME NEW g \in Handler PROVE HandlerOK(g)'
  <2>1. CASE g = h
    BY <2>1
  <2>2. CASE g # h
    <3>1. /\ HandlerOK(g) /\ hpc'[g] = hpc[g] /\ hcode'[g] = hcode[g]
          /\ longURL'[g] = longURL[g] /\ redisFailed'[g] = redisFailed[g]
      BY <2>2 DEF ApiInv
    <3>2. hcode[g] \in Code /\ links[hcode[g]] # None => links'[hcode[g]] = links[hcode[g]]
      OBVIOUS
    <3>3. QED
      BY <3>1, <3>2, LinkLoomAssumption DEF HandlerOK
  <2>3. QED
    BY <2>1, <2>2
<1>3. QED
  BY <1>1, <1>2 DEF ApiInv

\* A step of a handler keeps the handlers' invariant and leaves the clicks alone.
LEMMA HandlerKeeps ==
    ASSUME ApiInv, NEW h \in Handler, HandlerStep(h)
    PROVE  ApiInv' /\ UNCHANGED pipeVars /\ Published' = Published
<1>0. ApiTypeOK /\ CacheCoherent /\ HandlerOK(h)
  BY DEF ApiInv
<1> USE DEF ApiTypeOK
<1>1. CASE \E c \in Code : Redirect(h, c)
  <2>1. PICK c \in Code : Redirect(h, c)
    BY <1>1
  <2>2. ApiTypeOK' /\ hpc'[h] = "get" /\ hcode'[h] = c
    BY <1>0, <2>1 DEF Redirect
  <2>3. HandlerOK(h)'
    BY <2>2 DEF HandlerOK
  <2>4. QED
    BY <2>1, <2>2, <2>3, HandlerFrame DEF Redirect, Published
<1>2. CASE \E c \in Code, u \in Url : CreateLink(h, c, u)
  <2>1. PICK c \in Code, u \in Url : CreateLink(h, c, u)
    BY <1>2
  <2>2. ApiTypeOK' /\ hpc'[h] = "insert_link" /\ hcode'[h] = c /\ longURL'[h] = u
    BY <1>0, <2>1 DEF CreateLink
  <2>3. HandlerOK(h)'
    BY <2>2 DEF HandlerOK
  <2>4. QED
    BY <2>1, <2>2, <2>3, HandlerFrame DEF CreateLink, Published
<1>3. CASE InsertLink(h)
  <2>1. hcode[h] \in Code /\ longURL[h] \in Url /\ links[hcode[h]] = None
    BY <1>0, <1>3 DEF InsertLink, HandlerOK, Free
  <2>2. /\ ApiTypeOK' /\ hpc'[h] = "set" /\ hcode'[h] = hcode[h] /\ longURL'[h] = longURL[h]
        /\ links'[hcode[h]] = longURL[h]
    BY <1>0, <1>3, <2>1 DEF InsertLink, Call
  <2>3. HandlerOK(h)'
    BY <2>1, <2>2 DEF HandlerOK
  <2>4. QED
    BY <1>0, <1>3, <2>1, <2>2, <2>3, HandlerFrame DEF InsertLink, Call, Published
<1>4. CASE InsertLinkFails(h)
  <2>1. hcode[h] \in Code /\ longURL[h] \in Url
    BY <1>0, <1>4 DEF InsertLinkFails, HandlerOK
  <2>2. \/ UNCHANGED links
        \/ links[hcode[h]] = None /\ links' = [links EXCEPT ![hcode[h]] = longURL[h]]
    BY <1>4 DEF InsertLinkFails, Free
  <2>3. ApiTypeOK' /\ hpc'[h] = "idle"
    BY <1>0, <1>4, <2>1, <2>2 DEF InsertLinkFails, Answer
  <2>4. HandlerOK(h)'
    BY <2>3 DEF HandlerOK
  <2>5. QED
    BY <1>0, <1>4, <2>1, <2>2, <2>3, <2>4, HandlerFrame DEF InsertLinkFails, Answer, Published
<1>5. CASE SetCache(h)
  <2>1. hcode[h] \in Code /\ longURL[h] = links[hcode[h]] /\ links[hcode[h]] \in Url
    BY <1>0, <1>5 DEF SetCache, HandlerOK
  <2>2. ApiTypeOK' /\ hpc'[h] = "idle" /\ \A c \in Code : cache'[c] \in {cache[c], links[c]}
    BY <1>0, <1>5, <2>1 DEF SetCache, Answer
  <2>3. HandlerOK(h)'
    BY <2>2 DEF HandlerOK
  <2>4. QED
    BY <1>5, <2>2, <2>3, HandlerFrame DEF SetCache, Answer, Published
<1>6. CASE GetCache(h)
  <2>1. hcode[h] \in Code
    BY <1>0, <1>6 DEF GetCache, HandlerOK
  <2>2. CASE cache[hcode[h]] # None
    <3>1. ApiTypeOK' /\ hpc'[h] = "redirect" /\ hcode'[h] = hcode[h]
          /\ longURL'[h] = cache[hcode[h]] /\ links' = links
      BY <1>0, <1>6, <2>1, <2>2 DEF GetCache, Call
    <3>2. HandlerOK(h)'
      BY <1>0, <2>1, <2>2, <3>1 DEF HandlerOK, CacheCoherent
    <3>3. QED
      BY <1>6, <2>2, <3>1, <3>2, HandlerFrame DEF GetCache, Call, Published
  <2>3. CASE cache[hcode[h]] = None
    <3>1. ApiTypeOK' /\ hpc'[h] = "select" /\ hcode'[h] = hcode[h]
      BY <1>0, <1>6, <2>1, <2>3 DEF GetCache, Call
    <3>2. HandlerOK(h)'
      BY <2>1, <3>1 DEF HandlerOK
    <3>3. QED
      BY <1>6, <2>3, <3>1, <3>2, HandlerFrame DEF GetCache, Call, Published
  <2>4. QED
    BY <2>2, <2>3
<1>7. CASE GetCacheFails(h)
  <2>1. hcode[h] \in Code
    BY <1>0, <1>7 DEF GetCacheFails, HandlerOK
  <2>2. ApiTypeOK' /\ hpc'[h] = "redirect" /\ hcode'[h] = hcode[h] /\ redisFailed'[h]
    BY <1>0, <1>7, <2>1 DEF GetCacheFails, GoOnWithout
  <2>3. HandlerOK(h)'
    BY <2>1, <2>2, LinkLoomAssumption DEF HandlerOK
  <2>4. QED
    BY <1>7, <2>2, <2>3, HandlerFrame DEF GetCacheFails, GoOnWithout, Published
<1>8. CASE SelectLink(h)
  <2>1. hcode[h] \in Code /\ links[hcode[h]] \in Url
    BY <1>0, <1>8 DEF SelectLink, HandlerOK
  <2>2. /\ ApiTypeOK' /\ hpc'[h] = "fill" /\ hcode'[h] = hcode[h] /\ links' = links
        /\ longURL'[h] = links[hcode[h]]
    BY <1>0, <1>8, <2>1 DEF SelectLink, Call
  <2>3. HandlerOK(h)'
    BY <2>1, <2>2 DEF HandlerOK
  <2>4. QED
    BY <1>8, <2>2, <2>3, HandlerFrame DEF SelectLink, Call, Published
<1>9. CASE NotFound(h)
  <2>1. ApiTypeOK' /\ hpc'[h] = "idle"
    BY <1>0, <1>9 DEF NotFound, Answer
  <2>2. HandlerOK(h)'
    BY <2>1 DEF HandlerOK
  <2>3. QED
    BY <1>9, <2>1, <2>2, HandlerFrame DEF NotFound, Answer, Published
<1>10. CASE FillCache(h)
  <2>1. hcode[h] \in Code /\ longURL[h] = links[hcode[h]] /\ links[hcode[h]] \in Url
    BY <1>0, <1>10 DEF FillCache, HandlerOK
  <2>2. /\ ApiTypeOK' /\ hpc'[h] = "redirect" /\ hcode'[h] = hcode[h]
        /\ longURL'[h] = longURL[h] /\ links' = links
        /\ \A c \in Code : cache'[c] \in {cache[c], links[c]}
    BY <1>0, <1>10, <2>1 DEF FillCache, Call
  <2>3. HandlerOK(h)'
    BY <2>1, <2>2, LinkLoomAssumption DEF HandlerOK
  <2>4. QED
    BY <1>10, <2>2, <2>3, HandlerFrame DEF FillCache, Call, Published
<1>11. CASE \E e \in Event : SendRedirect(h, e)
  <2>1. PICK e \in Event : SendRedirect(h, e)
    BY <1>11
  <2>2. hcode[h] \in Code
    BY <1>0, <2>1 DEF SendRedirect, HandlerOK
  <2>3. PICK fits \in BOOLEAN :
            click' = [click EXCEPT ![e] = [at |-> "sending", code |-> hcode[h], fits |-> fits]]
    BY <2>1 DEF SendRedirect
  <2>4. ApiTypeOK' /\ hpc'[h] = "idle"
    BY <1>0, <2>1, <2>2, <2>3 DEF SendRedirect, Answer
  <2>5. HandlerOK(h)'
    BY <2>4 DEF HandlerOK
  <2>6. Published' = Published
    BY <1>0, <2>1, <2>3 DEF SendRedirect, Published
  <2>7. QED
    BY <2>1, <2>4, <2>5, <2>6, HandlerFrame DEF SendRedirect, Answer
<1>12. QED
  BY <1>1, <1>2, <1>3, <1>4, <1>5, <1>6, <1>7, <1>8, <1>9, <1>10, <1>11 DEF HandlerStep

\* Steps that leave the handlers, the links and the cache alone.
LEMMA ApiKept ==
    ASSUME ApiInv, ApiTypeOK', UNCHANGED <<links, hpc, hcode, longURL, redisFailed>>,
           \A c \in Code : cache'[c] \in {cache[c], None}
    PROVE  ApiInv'
BY DEF ApiInv, CacheCoherent, HandlerOK

\* Every step keeps ApiInv.
LEMMA ApiStep ==
    ASSUME ApiInv, [Next]_vars
    PROVE  ApiInv'
<1> USE DEF ApiTypeOK
<1>0. ApiTypeOK
  BY DEF ApiInv
<1>1. CASE \E h \in Handler : HandlerStep(h)
  BY <1>1, HandlerKeeps
<1>2. CASE \E c \in Code : Expire(c)
  <2>1. PICK c \in Code : Expire(c)
    BY <1>2
  <2>2. ApiTypeOK' /\ \A d \in Code : cache'[d] \in {cache[d], None}
    BY <1>0, <2>1 DEF Expire
  <2>3. QED
    BY <2>1, <2>2, ApiKept DEF Expire
<1>3. CASE \E e \in Event : Publish(e)
  <2>1. PICK e \in Event : Publish(e)
    BY <1>3
  <2>2. ApiTypeOK' /\ UNCHANGED cache
    BY <1>0, <2>1 DEF Publish
  <2>3. QED
    BY <2>1, <2>2, ApiKept DEF Publish
<1>4. CASE \E e \in Event : LosePublish(e)
  <2>1. PICK e \in Event : LosePublish(e)
    BY <1>4
  <2>2. ApiTypeOK' /\ UNCHANGED cache
    BY <1>0, <2>1 DEF LosePublish, NoClick
  <2>3. QED
    BY <2>1, <2>2, ApiKept DEF LosePublish
<1>5. CASE \E w \in Worker : PipelineStep(w)
  <2>1. UNCHANGED apiVars
    BY <1>5 DEF PipelineStep
  <2>2. ApiTypeOK'
    BY <1>0, <2>1 DEF apiVars
  <2>3. QED
    BY <2>1, <2>2, ApiKept DEF apiVars
<1>6. CASE UNCHANGED vars
  <2>1. UNCHANGED apiVars
    BY <1>6 DEF vars
  <2>2. ApiTypeOK'
    BY <1>0, <2>1 DEF apiVars
  <2>3. QED
    BY <2>1, <2>2, ApiKept DEF apiVars
<1>7. QED
  BY <1>1, <1>2, <1>3, <1>4, <1>5, <1>6 DEF Next

\* ApiInv always holds.
LEMMA ApiInvariant == Spec => []ApiInv
<1>1. Init => ApiInv
  BY LinkLoomAssumption DEF Init, ApiInv, ApiTypeOK, CacheCoherent, HandlerOK, NoClick
<1>2. ApiInv /\ [Next]_vars => ApiInv'
  BY ApiStep
<1>3. QED
  BY <1>1, <1>2, PTL DEF Spec

\* However creations and redirects of one code interleave, the cache holds nothing but
\* the URL stored for the code (handleCreateLink, handleRedirect).
THEOREM CacheCoherentHolds == Spec => []CacheCoherent
<1>1. ApiInv => CacheCoherent
  BY DEF ApiInv
<1>2. QED
  BY <1>1, ApiInvariant, PTL

\* A request in which Redis did not fail is led to the URL stored for its code, however
\* many others go on with an empty URL at the same time (handleRedirect).
THEOREM RedirectRightHolds == Spec => []RedirectRight
<1>1. ApiInv => RedirectRight
  BY LinkLoomAssumption DEF ApiInv, HandlerOK, RedirectRight
<1>2. QED
  BY <1>1, ApiInvariant, PTL

-----------------------------------------------------------------------------
(* The click pipeline *)

\* The elements of two lists put together.
LEMMA SetOfConcat ==
    ASSUME NEW S, NEW s \in Seq(S), NEW t \in Seq(S)
    PROVE  ToSet(s \o t) = ToSet(s) \union ToSet(t)
<1>1. /\ Len(s \o t) = Len(s) + Len(t)
      /\ \A i \in 1..Len(s) : (s \o t)[i] = s[i]
      /\ \A i \in 1..Len(t) : (s \o t)[Len(s) + i] = t[i]
  OBVIOUS
<1>2. /\ DOMAIN s = 1..Len(s) /\ DOMAIN t = 1..Len(t) /\ DOMAIN (s \o t) = 1..Len(s \o t)
      /\ Len(s) \in Nat /\ Len(t) \in Nat
  OBVIOUS
<1>3. ASSUME NEW i \in DOMAIN (s \o t)
      PROVE  i \in DOMAIN s \/ \E j \in DOMAIN t : i = Len(s) + j
  <2>1. i \in 1..(Len(s) + Len(t))
    BY <1>1, <1>2
  <2>2. CASE i > Len(s)
    <3>1. i - Len(s) \in DOMAIN t /\ i = Len(s) + (i - Len(s))
      BY <1>2, <2>1, <2>2
    <3>2. QED
      BY <3>1
  <2>3. QED
    BY <1>2, <2>1, <2>2
<1>4. DOMAIN s \subseteq DOMAIN (s \o t) /\ \A j \in DOMAIN t : Len(s) + j \in DOMAIN (s \o t)
  BY <1>1, <1>2
<1>5. ToSet(s \o t) \subseteq ToSet(s) \union ToSet(t)
  BY <1>1, <1>2, <1>3 DEF ToSet
<1>6. ToSet(s) \union ToSet(t) \subseteq ToSet(s \o t)
  BY <1>1, <1>2, <1>4 DEF ToSet
<1>7. QED
  BY <1>5, <1>6

\* The elements of an empty list and of a list of one.
LEMMA SetOfUnit ==
    ASSUME NEW a
    PROVE  ToSet(<<>>) = {} /\ ToSet(<<a>>) = {a}
BY DEF ToSet

\* The elements of a list with one more in front.
LEMMA SetOfCons ==
    ASSUME NEW S, NEW a \in S, NEW s \in Seq(S)
    PROVE  <<a>> \o s \in Seq(S) /\ ToSet(<<a>> \o s) = {a} \union ToSet(s)
<1>1. <<a>> \in Seq(S) /\ <<a>> \o s \in Seq(S)
  OBVIOUS
<1>2. ToSet(<<a>> \o s) = ToSet(<<a>>) \union ToSet(s)
  BY <1>1, SetOfConcat
<1>3. QED
  BY <1>1, <1>2, SetOfUnit

\* The elements of a list are its head and those of its tail.
LEMMA SetOfTail ==
    ASSUME NEW S, NEW s \in Seq(S), s # <<>>
    PROVE  /\ Head(s) \in S /\ Tail(s) \in Seq(S)
           /\ ToSet(s) = {Head(s)} \union ToSet(Tail(s))
<1>1. Head(s) \in S /\ Tail(s) \in Seq(S) /\ s = <<Head(s)>> \o Tail(s)
  OBVIOUS
<1>2. ToSet(<<Head(s)>> \o Tail(s)) = {Head(s)} \union ToSet(Tail(s))
  BY <1>1, SetOfCons
<1>3. QED
  BY <1>1, <1>2

\* The elements of a list with one more at the end.
LEMMA SetOfAppend ==
    ASSUME NEW S, NEW s \in Seq(S), NEW a \in S
    PROVE  Append(s, a) \in Seq(S) /\ ToSet(Append(s, a)) = ToSet(s) \union {a}
<1>1. <<a>> \in Seq(S) /\ Append(s, a) \in Seq(S) /\ Append(s, a) = s \o <<a>>
  OBVIOUS
<1>2. ToSet(s \o <<a>>) = ToSet(s) \union ToSet(<<a>>)
  BY <1>1, SetOfConcat
<1>3. QED
  BY <1>1, <1>2, SetOfUnit

PipeTypeOK ==
    /\ ready \in Seq(Event)
    /\ msgs \in [Worker -> Seq(Event)]
    /\ wpc \in [Worker -> {"down", "select", "insert", "ack", "nack", "returned"}]
    /\ cur \in [Worker -> Event \union {None}]
    /\ connected \in [Worker -> BOOLEAN]
    /\ cancelled \in [Worker -> BOOLEAN]
    /\ rows \in [Event -> Nat]
    /\ faults \in 0..MaxFaults

\* What a worker knows at each point of Start and processMessage.
PipeOK(w) ==
    /\ wpc[w] = "down" => ~connected[w]
    /\ wpc[w] \in {"down", "select", "returned"} => cur[w] = None
    /\ wpc[w] \in {"insert", "ack", "nack"} => cur[w] \in Published
    /\ wpc[w] = "ack" => rows[cur[w]] > 0
    /\ ~connected[w] => msgs[w] = <<>>
    /\ ToSet(msgs[w]) \subseteq Published

PipeInv ==
    /\ PipeTypeOK
    /\ ToSet(ready) \subseteq Published
    /\ \A w \in Worker : PipeOK(w)

\* The clicks worker w was sent and the broker would take back, and all the broker has.
Held(w) ==
    IF ~connected[w] THEN {}
    ELSE (IF cur[w] = None THEN {} ELSE {cur[w]}) \union ToSet(msgs[w])

HeldByBroker == ToSet(ready) \union UNION {Held(w) : w \in Worker}

\* What the broker takes back from a worker is what the worker held.
LEMMA UnackedIsHeld ==
    ASSUME PipeTypeOK, NEW w \in Worker
    PROVE  Unacked(w) \in Seq(Event) /\ ToSet(Unacked(w)) = Held(w)
<1>1. msgs[w] \in Seq(Event) /\ cur[w] \in Event \union {None} /\ connected[w] \in BOOLEAN
  BY DEF PipeTypeOK
<1>2. CASE ~connected[w]
  <2>1. Unacked(w) = <<>> /\ Held(w) = {} /\ <<>> \in Seq(Event)
    BY <1>2 DEF Unacked, Held
  <2>2. QED
    BY <2>1, SetOfUnit, Zenon
<1>3. CASE connected[w] /\ cur[w] = None
  <2>1. Unacked(w) = <<>> \o msgs[w] /\ <<>> \o msgs[w] = msgs[w]
    BY <1>1, <1>3 DEF Unacked
  <2>2. QED
    BY <1>1, <1>3, <2>1 DEF Held
<1>4. CASE connected[w] /\ cur[w] # None
  <2>1. cur[w] \in Event /\ Unacked(w) = <<cur[w]>> \o msgs[w]
    BY <1>1, <1>4 DEF Unacked
  <2>2. /\ <<cur[w]>> \o msgs[w] \in Seq(Event)
        /\ ToSet(<<cur[w]>> \o msgs[w]) = {cur[w]} \union ToSet(msgs[w])
    BY <1>1, <2>1, SetOfCons
  <2>3. QED
    BY <1>4, <2>1, <2>2 DEF Held
<1>5. QED
  BY <1>1, <1>2, <1>3, <1>4

\* Both ways to say what is in the broker agree.
LEMMA BrokerHolds ==
    ASSUME PipeTypeOK
    PROVE  InBroker = HeldByBroker
<1>1. \A w \in Worker : ToSet(Unacked(w)) = Held(w)
  BY UnackedIsHeld
<1>2. QED
  BY <1>1 DEF InBroker, HeldByBroker

\* A step of worker w that takes no row away has to keep what w knows, no more.
LEMMA PipeFrame ==
    ASSUME PipeInv, PipeTypeOK', NEW w \in Worker,
           ToSet(ready)' \subseteq Published', Published \subseteq Published',
           \A e \in Event : rows[e] > 0 => rows'[e] > 0,
           \A v \in Worker \ {w} :
                /\ msgs'[v] = msgs[v] /\ wpc'[v] = wpc[v] /\ cur'[v] = cur[v]
                /\ connected'[v] = connected[v],
           PipeOK(w)'
    PROVE  PipeInv'
<1>1. ASSUME NEW v \in Worker PROVE PipeOK(v)'
  <2>1. CASE v = w
    BY <2>1
  <2>2. CASE v # w
    <3>1. PipeOK(v) /\ Published \subseteq Event
      BY DEF PipeInv, Published
    <3>2. /\ msgs'[v] = msgs[v] /\ wpc'[v] = wpc[v] /\ cur'[v] = cur[v]
          /\ connected'[v] = connected[v]
      BY <2>2
    <3>3. ToSet(msgs'[v]) = ToSet(msgs[v])
      BY <3>2
    <3>4. QED
      BY <3>1, <3>2, <3>3 DEF PipeOK
  <2>3. QED
    BY <2>1, <2>2
<1>2. QED
  BY <1>1 DEF PipeInv

\* The clicks of E leave the broker in a step of worker w.
LEMMA HeldFrame ==
    ASSUME NEW w \in Worker, NEW E,
           \A v \in Worker \ {w} :
                msgs'[v] = msgs[v] /\ cur'[v] = cur[v] /\ connected'[v] = connected[v],
           ToSet(ready) \union Held(w) = (ToSet(ready)' \union Held(w)') \union E
    PROVE  HeldByBroker = HeldByBroker' \union E
<1>1. \A v \in Worker \ {w} : Held(v)' = Held(v)
  BY DEF Held
<1>2. HeldByBroker = (ToSet(ready) \union Held(w)) \union UNION {Held(v) : v \in Worker \ {w}}
  BY DEF HeldByBroker
<1>3. HeldByBroker' = (ToSet(ready)' \union Held(w)') \union UNION {Held(v)' : v \in Worker \ {w}}
  BY DEF HeldByBroker
<1>4. UNION {Held(v)' : v \in Worker \ {w}} = UNION {Held(v) : v \in Worker \ {w}}
  BY <1>1
<1>5. QED
  BY <1>2, <1>3, <1>4

\* What a step of the pipeline may do to the broker and the table, seen from outside.
Stutters == HeldByBroker' = HeldByBroker /\ rows' = rows

Counts(e) == HeldByBroker' = HeldByBroker /\ rows' = [rows EXCEPT ![e] = @ + 1]

Settles(e) == HeldByBroker = HeldByBroker' \union {e} /\ rows[e] > 0 /\ rows' = rows

Effect == Stutters \/ \E e \in Published : Counts(e) \/ Settles(e)

\* An insert adds a row and takes none away.
LEMMA RowAdded ==
    ASSUME PipeTypeOK, NEW e \in Event, rows' = [rows EXCEPT ![e] = @ + 1]
    PROVE  /\ rows' \in [Event -> Nat] /\ rows'[e] > 0
           /\ \A f \in Event : rows[f] > 0 => rows'[f] > 0
BY DEF PipeTypeOK

\* A step of a worker or of its connection keeps PipeInv and has one of the effects.
LEMMA PipelineKeeps ==
    ASSUME PipeInv, NEW w \in Worker, PipelineStep(w)
    PROVE  PipeInv' /\ Effect
<1>0. PipeTypeOK /\ PipeOK(w) /\ ToSet(ready) \subseteq Published
  BY DEF PipeInv
<1>p. Published' = Published /\ Published \subseteq Event
  BY DEF PipelineStep, apiVars, Published
<1>u. Unacked(w) \in Seq(Event) /\ ToSet(Unacked(w)) = Held(w)
  BY <1>0, UnackedIsHeld
<1>h. Held(w) \subseteq Published
  BY <1>0, <1>p DEF Held, PipeOK, PipeTypeOK
<1>t. /\ ready \in Seq(Event) /\ msgs[w] \in Seq(Event)
      /\ cur[w] \in Event \union {None} /\ connected[w] \in BOOLEAN
  BY <1>0 DEF PipeTypeOK
<1>e. HeldByBroker = HeldByBroker' \union {} => HeldByBroker' = HeldByBroker
  OBVIOUS
<1>1. CASE Deliver(w)
  <2>1. /\ ready' = <<>> /\ msgs' = [msgs EXCEPT ![w] = msgs[w] \o ready]
        /\ UNCHANGED <<wpc, cur, connected, cancelled, rows, faults>> /\ connected[w]
    BY <1>0, <1>1 DEF Deliver, PipeTypeOK
  <2>2. PipeTypeOK' /\ msgs'[w] = msgs[w] \o ready
    BY <1>0, <2>1, <1>t DEF PipeTypeOK
  <2>3. ToSet(msgs[w] \o ready) = ToSet(msgs[w]) \union ToSet(ready)
    BY <1>t, SetOfConcat
  <2>4. ToSet(ready)' = {} /\ ToSet(msgs'[w]) = ToSet(msgs[w]) \union ToSet(ready)
    BY <2>1, <2>2, <2>3, SetOfUnit
  <2>5. PipeOK(w)'
    BY <1>0, <1>p, <2>1, <2>4 DEF PipeOK
  <2>6. PipeInv'
    BY <1>0, <1>p, <2>1, <2>2, <2>4, <2>5, PipeFrame DEF PipeTypeOK
  <2>7. Held(w)' = Held(w) \union ToSet(ready)
    BY <2>1, <2>4 DEF Held
  <2>8. HeldByBroker = HeldByBroker' \union {}
    <3>1. ToSet(ready) \union Held(w) = (ToSet(ready)' \union Held(w)') \union {}
      BY <2>4, <2>7
    <3>2. QED
      BY <1>0, <2>1, <3>1, HeldFrame DEF PipeTypeOK
  <2>9. QED
    BY <1>e, <2>1, <2>6, <2>8 DEF Effect, Stutters
<1>2. CASE Receive(w)
  <2>1. /\ wpc[w] = "select" /\ msgs[w] # <<>> /\ UNCHANGED <<ready, connected, cancelled, rows, faults>>
        /\ cur' = [cur EXCEPT ![w] = Head(msgs[w])] /\ msgs' = [msgs EXCEPT ![w] = Tail(msgs[w])]
        /\ \E l \in {"insert", "nack"} : wpc' = [wpc EXCEPT ![w] = l]
    BY <1>0, <1>2 DEF Receive, PipeTypeOK, Goto
  <2>2. /\ Head(msgs[w]) \in Event /\ Tail(msgs[w]) \in Seq(Event)
        /\ ToSet(msgs[w]) = {Head(msgs[w])} \union ToSet(Tail(msgs[w]))
    BY <1>t, <2>1, SetOfTail
  <2>3. PipeTypeOK' /\ cur'[w] = Head(msgs[w]) /\ msgs'[w] = Tail(msgs[w]) /\ wpc'[w] \in {"insert", "nack"}
    BY <1>0, <2>1, <2>2 DEF PipeTypeOK
  <2>4. connected[w] /\ cur[w] = None /\ Head(msgs[w]) \in Published /\ connected'[w]
    BY <1>0, <2>1, <2>2 DEF PipeOK
  <2>5. PipeOK(w)'
    BY <1>0, <1>p, <2>2, <2>3, <2>4 DEF PipeOK
  <2>6. PipeInv'
    BY <1>0, <1>p, <2>1, <2>3, <2>5, PipeFrame DEF PipeTypeOK
  <2>7. Held(w) = ToSet(msgs[w]) /\ Held(w)' = {Head(msgs[w])} \union ToSet(Tail(msgs[w]))
    BY <2>2, <2>3, <2>4, PipelineAssumption DEF Held
  <2>8. HeldByBroker = HeldByBroker' \union {}
    <3>1. ToSet(ready) \union Held(w) = (ToSet(ready)' \union Held(w)') \union {}
      BY <2>1, <2>2, <2>7
    <3>2. QED
      BY <1>0, <2>1, <3>1, HeldFrame DEF PipeTypeOK
  <2>9. QED
    BY <1>e, <2>1, <2>6, <2>8 DEF Effect, Stutters
<1>3. CASE InsertOk(w, Insertable) \/ InsertUnsure(w, Insertable)
  <2>1. /\ wpc[w] = "insert" /\ rows' = [rows EXCEPT ![cur[w]] = @ + 1]
        /\ UNCHANGED <<ready, msgs, cur, connected, cancelled>> /\ faults' \in 0..MaxFaults
        /\ \E l \in {"ack", "nack"} : wpc' = [wpc EXCEPT ![w] = l]
    BY <1>0, <1>3, PipelineAssumption
       DEF InsertOk, InsertUnsure, AddRow, Goto, AfterError, Fault, PipeTypeOK
  <2>2. cur[w] \in Published
    BY <1>0, <2>1 DEF PipeOK
  <2>3. /\ rows' \in [Event -> Nat] /\ rows'[cur[w]] > 0
        /\ \A f \in Event : rows[f] > 0 => rows'[f] > 0
    BY <1>0, <1>p, <2>1, <2>2, RowAdded
  <2>4. PipeTypeOK' /\ wpc'[w] \in {"ack", "nack"}
    BY <1>0, <2>1, <2>3 DEF PipeTypeOK
  <2>5. PipeOK(w)'
    BY <1>0, <1>p, <2>1, <2>2, <2>3, <2>4 DEF PipeOK
  <2>6. PipeInv'
    BY <1>0, <1>p, <2>1, <2>3, <2>4, <2>5, PipeFrame DEF PipeTypeOK
  <2>7. HeldByBroker' = HeldByBroker
    BY <2>1 DEF HeldByBroker, Held
  <2>8. QED
    BY <2>1, <2>2, <2>6, <2>7 DEF Effect, Counts
<1>4. CASE InsertFails(w, Insertable) \/ Signal(w) \/ Return(w)
  <2>1. /\ UNCHANGED <<ready, msgs, cur, connected, rows>> /\ faults' \in 0..MaxFaults
        /\ cancelled' \in [Worker -> BOOLEAN]
        /\ \/ wpc' = wpc
           \/ wpc[w] = "insert" /\ wpc' = [wpc EXCEPT ![w] = "nack"]
           \/ wpc[w] = "select" /\ wpc' = [wpc EXCEPT ![w] = "returned"]
    <3>1. CASE InsertFails(w, Insertable)
      BY <1>0, <3>1, PipelineAssumption DEF InsertFails, Goto, AfterError, Fault, PipeTypeOK
    <3>2. CASE Signal(w)
      BY <1>0, <3>2, PipelineAssumption DEF Signal, Fault, PipeTypeOK
    <3>3. CASE Return(w)
      BY <1>0, <3>3 DEF Return, Goto, PipeTypeOK
    <3>4. QED
      BY <1>4, <3>1, <3>2, <3>3
  <2>2. PipeTypeOK'
    BY <1>0, <2>1 DEF PipeTypeOK
  <2>3. PipeOK(w)'
    BY <1>0, <1>p, <2>1 DEF PipeOK, PipeTypeOK
  <2>4. PipeInv'
    BY <1>0, <1>p, <2>1, <2>2, <2>3, PipeFrame DEF PipeTypeOK
  <2>5. HeldByBroker' = HeldByBroker
    BY <2>1 DEF HeldByBroker, Held
  <2>6. QED
    BY <2>1, <2>4, <2>5 DEF Effect, Stutters
<1>5. CASE Ack(w)
  <2>1. /\ wpc[w] = "ack" /\ wpc' = [wpc EXCEPT ![w] = "select"] /\ cur' = [cur EXCEPT ![w] = None]
        /\ ready' = ready /\ UNCHANGED <<msgs, connected, cancelled, rows, faults>>
    BY <1>5, <1>t DEF Ack, Settled, Goto
  <2>2. PipeTypeOK' /\ wpc'[w] = "select" /\ cur'[w] = None
    BY <1>0, <2>1 DEF PipeTypeOK
  <2>3. PipeOK(w)'
    BY <1>0, <1>p, <2>1, <2>2 DEF PipeOK
  <2>4. PipeInv'
    BY <1>0, <1>p, <2>1, <2>2, <2>3, PipeFrame DEF PipeTypeOK
  <2>5. cur[w] \in Published /\ rows[cur[w]] > 0 /\ cur[w] # None
    BY <1>0, <1>p, <2>1, PipelineAssumption DEF PipeOK
  <2>6. CASE connected[w]
    <3>1. Held(w) = Held(w)' \union {cur[w]}
      BY <2>1, <2>2, <2>5, <2>6 DEF Held
    <3>2. ToSet(ready) \union Held(w) = (ToSet(ready)' \union Held(w)') \union {cur[w]}
      BY <2>1, <3>1
    <3>3. HeldByBroker = HeldByBroker' \union {cur[w]}
      BY <1>0, <2>1, <3>2, HeldFrame DEF PipeTypeOK
    <3>4. QED
      BY <2>1, <2>4, <2>5, <3>3 DEF Effect, Settles
  <2>7. CASE ~connected[w]
    <3>1. Held(w) = {} /\ Held(w)' = {}
      BY <2>1, <2>7 DEF Held
    <3>2. ToSet(ready) \union Held(w) = (ToSet(ready)' \union Held(w)') \union {}
      BY <2>1, <3>1
    <3>3. HeldByBroker = HeldByBroker' \union {}
      BY <1>0, <2>1, <3>2, HeldFrame DEF PipeTypeOK
    <3>4. QED
      BY <1>e, <2>1, <2>4, <3>3 DEF Effect, Stutters
  <2>8. QED
    BY <2>6, <2>7
<1>6. CASE Nack(w)
  <2>1. /\ wpc[w] = "nack" /\ wpc' = [wpc EXCEPT ![w] = "select"] /\ cur' = [cur EXCEPT ![w] = None]
        /\ ready' = (IF connected[w] THEN <<cur[w]>> ELSE <<>>) \o ready
        /\ UNCHANGED <<msgs, connected, cancelled, rows, faults>>
    BY <1>6 DEF Nack, Settled, Goto
  <2>2. cur[w] \in Published /\ cur[w] \in Event /\ cur[w] # None
    BY <1>0, <1>p, <2>1, PipelineAssumption DEF PipeOK
  <2>3. /\ ready' \in Seq(Event)
        /\ ToSet(ready)' = (IF connected[w] THEN {cur[w]} ELSE {}) \union ToSet(ready)
    <3>1. CASE connected[w]
      <4>1. /\ <<cur[w]>> \o ready \in Seq(Event)
            /\ ToSet(<<cur[w]>> \o ready) = {cur[w]} \union ToSet(ready)
        BY <1>t, <2>2, SetOfCons
      <4>2. ready' = <<cur[w]>> \o ready
        BY <2>1, <3>1
      <4>3. QED
        BY <3>1, <4>1, <4>2
    <3>2. CASE ~connected[w]
      <4>1. ready' = ready
        BY <1>t, <2>1, <3>2
      <4>2. QED
        BY <1>t, <3>2, <4>1
    <3>3. QED
      BY <3>1, <3>2
  <2>4. PipeTypeOK' /\ wpc'[w] = "select" /\ cur'[w] = None
    BY <1>0, <2>1, <2>3 DEF PipeTypeOK
  <2>5. PipeOK(w)'
    BY <1>0, <1>p, <2>1, <2>4 DEF PipeOK
  <2>6. PipeInv'
    BY <1>0, <1>p, <2>1, <2>2, <2>3, <2>4, <2>5, PipeFrame DEF PipeTypeOK
  <2>7. HeldByBroker = HeldByBroker' \union {}
    <3>1. ToSet(ready) \union Held(w) = (ToSet(ready)' \union Held(w)') \union {}
      BY <2>1, <2>2, <2>3, <2>4 DEF Held
    <3>2. QED
      BY <1>0, <2>1, <3>1, HeldFrame DEF PipeTypeOK
  <2>8. QED
    BY <1>e, <2>1, <2>6, <2>7 DEF Effect, Stutters
<1>7. CASE Subscribe(w)
  <2>1. /\ wpc[w] = "down" /\ wpc' = [wpc EXCEPT ![w] = "select"]
        /\ connected' = [connected EXCEPT ![w] = TRUE]
        /\ UNCHANGED <<ready, msgs, cur, cancelled, rows, faults>>
    BY <1>7 DEF Subscribe, Goto
  <2>2. PipeTypeOK' /\ wpc'[w] = "select" /\ connected'[w]
    BY <1>0, <2>1 DEF PipeTypeOK
  <2>3. ~connected[w] /\ cur[w] = None /\ msgs[w] = <<>> /\ ToSet(msgs[w]) = {}
    BY <1>0, <2>1, SetOfUnit DEF PipeOK
  <2>4. PipeOK(w)'
    BY <1>0, <1>p, <2>1, <2>2, <2>3 DEF PipeOK
  <2>5. PipeInv'
    BY <1>0, <1>p, <2>1, <2>2, <2>4, PipeFrame DEF PipeTypeOK
  <2>6. HeldByBroker = HeldByBroker' \union {}
    <3>1. Held(w) = {} /\ Held(w)' = {}
      BY <2>1, <2>2, <2>3 DEF Held
    <3>2. ToSet(ready) \union Held(w) = (ToSet(ready)' \union Held(w)') \union {}
      BY <2>1, <3>1
    <3>3. QED
      BY <1>0, <2>1, <3>2, HeldFrame DEF PipeTypeOK
  <2>7. QED
    BY <1>e, <2>1, <2>5, <2>6 DEF Effect, Stutters
<1>r. /\ Unacked(w) \o ready \in Seq(Event)
      /\ ToSet(Unacked(w) \o ready) = Held(w) \union ToSet(ready)
  BY <1>t, <1>u, SetOfConcat
<1>8. CASE LoseConnection(w)
  <2>1. /\ ready' = Unacked(w) \o ready /\ msgs' = [msgs EXCEPT ![w] = <<>>]
        /\ connected' = [connected EXCEPT ![w] = FALSE] /\ UNCHANGED <<wpc, cur, cancelled, rows>>
        /\ faults' \in 0..MaxFaults
    BY <1>0, <1>8, PipelineAssumption DEF LoseConnection, Fault, PipeTypeOK
  <2>2. PipeTypeOK' /\ msgs'[w] = <<>> /\ ~connected'[w] /\ ToSet(msgs'[w]) = {}
    <3>1. msgs' \in [Worker -> Seq(Event)] /\ msgs'[w] = <<>>
      BY <1>0, <2>1 DEF PipeTypeOK
    <3>2. connected' \in [Worker -> BOOLEAN] /\ ~connected'[w]
      BY <1>0, <2>1 DEF PipeTypeOK
    <3>3. ready' \in Seq(Event)
      BY <1>r, <2>1
    <3>4. ToSet(msgs'[w]) = {}
      BY <3>1, SetOfUnit
    <3>5. QED
      BY <1>0, <2>1, <3>1, <3>2, <3>3, <3>4 DEF PipeTypeOK
  <2>3. PipeOK(w)'
    BY <1>0, <1>p, <2>1, <2>2 DEF PipeOK
  <2>4. ToSet(ready)' = Held(w) \union ToSet(ready)
    BY <1>r, <2>1
  <2>5. PipeInv'
    BY <1>0, <1>p, <1>h, <2>1, <2>2, <2>3, <2>4, PipeFrame DEF PipeTypeOK
  <2>6. HeldByBroker = HeldByBroker' \union {}
    <3>1. Held(w)' = {}
      BY <2>2 DEF Held
    <3>2. ToSet(ready) \union Held(w) = (ToSet(ready)' \union Held(w)') \union {}
      BY <2>4, <3>1
    <3>3. QED
      BY <1>0, <2>1, <3>2, HeldFrame DEF PipeTypeOK
  <2>7. QED
    BY <1>e, <2>1, <2>5, <2>6 DEF Effect, Stutters
<1>9. CASE Exit(w, Insertable) \/ Crash(w, Insertable)
  <2>1. Gone(w, Insertable) /\ faults' \in 0..MaxFaults
    BY <1>0, <1>9, PipelineAssumption DEF Exit, Crash, Fault, PipeTypeOK
  <2>2. /\ wpc' = [wpc EXCEPT ![w] = "down"]
        /\ ready' = Unacked(w) \o ready /\ msgs' = [msgs EXCEPT ![w] = <<>>]
        /\ cur' = [cur EXCEPT ![w] = None] /\ connected' = [connected EXCEPT ![w] = FALSE]
        /\ cancelled' = [cancelled EXCEPT ![w] = FALSE]
        /\ rows' = rows \/ (wpc[w] = "insert" /\ rows' = [rows EXCEPT ![cur[w]] = @ + 1])
    BY <2>1 DEF Gone, Goto, AddRow
  <2>3. wpc[w] = "insert" => cur[w] \in Published
    BY <1>0 DEF PipeOK
  <2>4. rows' \in [Event -> Nat] /\ \A f \in Event : rows[f] > 0 => rows'[f] > 0
    BY <1>0, <1>p, <2>2, <2>3, RowAdded DEF PipeTypeOK
  <2>5. /\ PipeTypeOK' /\ msgs'[w] = <<>> /\ ~connected'[w] /\ ToSet(msgs'[w]) = {}
        /\ wpc'[w] = "down" /\ cur'[w] = None
    <3>1. msgs' \in [Worker -> Seq(Event)] /\ msgs'[w] = <<>>
      BY <1>0, <2>2 DEF PipeTypeOK
    <3>2. connected' \in [Worker -> BOOLEAN] /\ ~connected'[w]
      BY <1>0, <2>2 DEF PipeTypeOK
    <3>3. ready' \in Seq(Event)
      BY <1>r, <2>2
    <3>4. ToSet(msgs'[w]) = {}
      BY <3>1, SetOfUnit
    <3>5. QED
      BY <1>0, <2>1, <2>2, <2>4, <3>1, <3>2, <3>3, <3>4 DEF PipeTypeOK
  <2>6. PipeOK(w)'
    BY <1>p, <2>5 DEF PipeOK
  <2>7. ToSet(ready)' = Held(w) \union ToSet(ready)
    BY <1>r, <2>2
  <2>8. PipeInv'
    BY <1>0, <1>p, <1>h, <2>2, <2>4, <2>5, <2>6, <2>7, PipeFrame DEF PipeTypeOK
  <2>9. HeldByBroker = HeldByBroker' \union {}
    <3>1. Held(w)' = {}
      BY <2>5 DEF Held
    <3>2. ToSet(ready) \union Held(w) = (ToSet(ready)' \union Held(w)') \union {}
      BY <2>7, <3>1
    <3>3. QED
      BY <1>0, <2>2, <3>2, HeldFrame DEF PipeTypeOK
  <2>10. QED
    BY <1>e, <2>2, <2>3, <2>8, <2>9 DEF Effect, Stutters, Counts
<1>10. QED
  BY <1>1, <1>2, <1>3, <1>4, <1>5, <1>6, <1>7, <1>8, <1>9 DEF PipelineStep, Process

\* What leaves the pipeline alone keeps PipeInv.
LEMMA PipeUnchanged ==
    ASSUME PipeInv, UNCHANGED pipeVars, Published' = Published
    PROVE  PipeInv' /\ Stutters
<1>1. UNCHANGED <<ready, msgs, wpc, cur, connected, cancelled, rows, faults>>
  BY DEF pipeVars, workerVars
<1>2. PipeTypeOK'
  BY <1>1 DEF PipeInv, PipeTypeOK
<1>3. \A w \in Worker : PipeOK(w)'
  BY <1>1 DEF PipeInv, PipeOK
<1>4. HeldByBroker' = HeldByBroker
  BY <1>1 DEF HeldByBroker, Held
<1>5. QED
  BY <1>1, <1>2, <1>3, <1>4 DEF PipeInv, Stutters

\* The broker accepts click e.
Accepts(e) ==
    /\ e \notin Published
    /\ Published' = Published \union {e}
    /\ HeldByBroker' = HeldByBroker \union {e}
    /\ rows' = rows

\* A publication keeps PipeInv and accepts a click.
LEMMA PublishKeeps ==
    ASSUME ApiTypeOK, PipeInv, NEW e \in Event, Publish(e)
    PROVE  PipeInv' /\ Accepts(e)
<1>1. /\ click[e].at = "sending" /\ click' = [click EXCEPT ![e].at = "published"]
      /\ ready' = Append(ready, e)
      /\ UNCHANGED <<msgs, wpc, cur, connected, cancelled, rows, faults>>
  BY DEF Publish, Enqueue, workerVars
<1>2. e \notin Published /\ Published' = Published \union {e}
  BY <1>1 DEF ApiTypeOK, Published
<1>3. ready' \in Seq(Event) /\ ToSet(ready)' = ToSet(ready) \union {e}
  BY <1>1, SetOfAppend DEF PipeInv, PipeTypeOK
<1>4. PipeTypeOK'
  BY <1>1, <1>3 DEF PipeInv, PipeTypeOK
<1>5. ASSUME NEW w \in Worker PROVE PipeOK(w)'
  BY <1>1, <1>2 DEF PipeInv, PipeOK
<1>6. HeldByBroker' = HeldByBroker \union {e}
  <2>1. \A w \in Worker : Held(w)' = Held(w)
    BY <1>1 DEF Held
  <2>2. QED
    BY <1>3, <2>1 DEF HeldByBroker
<1>7. QED
  BY <1>1, <1>2, <1>3, <1>4, <1>5, <1>6 DEF PipeInv, Accepts

\* Every step keeps PipeInv, and has an effect or accepts a click.
LEMMA PipeStep ==
    ASSUME ApiInv, PipeInv, [Next]_vars
    PROVE  /\ PipeInv'
           /\ (Published' = Published /\ Effect) \/ \E e \in Event : Accepts(e)
<1>0. ApiTypeOK
  BY DEF ApiInv
<1>1. CASE \E h \in Handler : HandlerStep(h)
  BY <1>1, HandlerKeeps, PipeUnchanged DEF Effect
<1>2. CASE \E c \in Code : Expire(c)
  <2>1. UNCHANGED pipeVars /\ Published' = Published
    BY <1>2 DEF Expire, Published
  <2>2. QED
    BY <2>1, PipeUnchanged DEF Effect
<1>3. CASE \E e \in Event : Publish(e)
  BY <1>0, <1>3, PublishKeeps
<1>4. CASE \E e \in Event : LosePublish(e)
  <2>1. UNCHANGED pipeVars /\ Published' = Published
    BY <1>0, <1>4 DEF LosePublish, Published, NoClick, ApiTypeOK
  <2>2. QED
    BY <2>1, PipeUnchanged DEF Effect
<1>5. CASE \E w \in Worker : PipelineStep(w)
  <2>1. Published' = Published
    BY <1>5 DEF PipelineStep, apiVars, Published
  <2>2. QED
    BY <1>5, <2>1, PipelineKeeps
<1>6. CASE UNCHANGED vars
  <2>1. UNCHANGED pipeVars /\ Published' = Published
    BY <1>6 DEF vars, apiVars, Published
  <2>2. QED
    BY <2>1, PipeUnchanged DEF Effect
<1>7. QED
  BY <1>1, <1>2, <1>3, <1>4, <1>5, <1>6 DEF Next

\* The pipeline starts empty.
LEMMA PipeInit ==
    ASSUME Init
    PROVE  PipeInv /\ Published = {} /\ HeldByBroker = {}
<1>1. /\ ready = <<>> /\ rows = [e \in Event |-> 0] /\ faults = 0
      /\ msgs = [w \in Worker |-> <<>>] /\ wpc = [w \in Worker |-> "down"]
      /\ cur = [w \in Worker |-> None] /\ connected = [w \in Worker |-> FALSE]
      /\ cancelled = [w \in Worker |-> FALSE]
  BY DEF Init, PipelineInit
<1>2. Published = {}
  BY DEF Init, Published, NoClick
<1>3. PipeTypeOK
  BY <1>1, PipelineAssumption DEF PipeTypeOK
<1>4. ToSet(ready) = {} /\ \A w \in Worker : ToSet(msgs[w]) = {}
  BY <1>1, SetOfUnit
<1>5. \A w \in Worker : PipeOK(w) /\ Held(w) = {}
  BY <1>1, <1>4 DEF PipeOK, Held
<1>6. QED
  BY <1>2, <1>3, <1>4, <1>5 DEF PipeInv, HeldByBroker

\* PipeInv always holds.
LEMMA PipeInvariant == Spec => []PipeInv
<1>1. Init => PipeInv
  BY PipeInit
<1>2. ApiInv /\ PipeInv /\ [Next]_vars => PipeInv'
  BY PipeStep
<1>3. QED
  BY <1>1, <1>2, ApiInvariant, PTL DEF Spec

\* Every variable keeps its type.
THEOREM TypeCorrect == Spec => []TypeOK
<1>1. ApiInv /\ PipeInv => TypeOK
  BY DEF ApiInv, ApiTypeOK, PipeInv, PipeTypeOK, TypeOK
<1>2. QED
  BY <1>1, ApiInvariant, PipeInvariant, PTL

\* A click the broker accepted stays in the broker until it has a row, whatever fails
\* and whenever (processMessage, PublishClickEvent).
THEOREM NoClickLostHolds == Spec => []NoClickLost
<1> DEFINE Kept == \A e \in Published : e \in HeldByBroker \/ rows[e] > 0
<1>1. Init => Kept
  BY PipeInit
<1>2. ASSUME ApiInv, PipeInv, [Next]_vars, Kept PROVE Kept'
  <2>0. Published \subseteq Event /\ rows \in [Event -> Nat]
    BY <1>2 DEF Published, PipeInv, PipeTypeOK
  <2>1. CASE Published' = Published /\ Stutters
    BY <1>2, <2>1 DEF Stutters
  <2>2. ASSUME NEW e \in Published, Published' = Published, Counts(e) PROVE Kept'
    BY <1>2, <2>0, <2>2 DEF Counts
  <2>3. ASSUME NEW e \in Published, Published' = Published, Settles(e) PROVE Kept'
    BY <1>2, <2>3 DEF Settles
  <2>4. ASSUME NEW e \in Event, Accepts(e) PROVE Kept'
    BY <1>2, <2>4 DEF Accepts
  <2>5. QED
    BY <1>2, <2>1, <2>2, <2>3, <2>4, PipeStep DEF Effect
<1>3. PipeInv /\ Kept => NoClickLost
  BY BrokerHolds DEF PipeInv, NoClickLost
<1> HIDE DEF Kept
<1>4. QED
  BY <1>1, <1>2, <1>3, ApiInvariant, PipeInvariant, PTL DEF Spec

\* The pipeline implements the ledger: with any number of workers, failing and
\* restarting, a click is settled only once it is counted, and a settled click stays
\* settled (rabbitmq.go, worker.go).
THEOREM ImplementsLedger == Spec => LedgerSpec
<1>1. Init => Ledger!LedgerInit
  BY PipeInit, BrokerHolds DEF Init, PipelineInit, PipeInv, Ledger!LedgerInit
<1>2. PipeInv => InBroker = HeldByBroker
  BY BrokerHolds DEF PipeInv
<1>3. ASSUME ApiInv, PipeInv, [Next]_vars,
             InBroker = HeldByBroker, (InBroker = HeldByBroker)'
      PROVE  [Ledger!LedgerNext]_(Ledger!ledger)
  <2> USE DEF Ledger!LedgerNext, Ledger!ledger
  <2>0. Published \subseteq Event /\ HeldByBroker \subseteq Published
    <3>1. Published \subseteq Event
      BY DEF Published
    <3>2. \A w \in Worker : Held(w) \subseteq Published
      BY <1>3 DEF PipeInv, PipeTypeOK, PipeOK, Held
    <3>3. QED
      BY <1>3, <3>1, <3>2 DEF PipeInv, HeldByBroker
  <2>1. CASE Published' = Published /\ Stutters
    BY <1>3, <2>1 DEF Stutters
  <2>2. ASSUME NEW e \in Published, Published' = Published, Counts(e)
        PROVE  Ledger!LedgerNext
    BY <1>3, <2>0, <2>2 DEF Counts, Ledger!Count
  <2>3. ASSUME NEW e \in Published, Published' = Published, Settles(e)
        PROVE  [Ledger!LedgerNext]_(Ledger!ledger)
    <3>1. CASE e \in HeldByBroker'
      BY <1>3, <2>3, <3>1 DEF Settles
    <3>2. CASE e \notin HeldByBroker'
      <4>1. (Published \ InBroker)' = (Published \ InBroker) \union {e}
        BY <1>3, <2>3, <3>2 DEF Settles
      <4>2. e \in Published \ (Published \ InBroker)
        BY <1>3, <2>3 DEF Settles
      <4>3. Ledger!Settle(e)
        BY <2>3, <4>1, <4>2 DEF Settles, Ledger!Settle
      <4>4. QED
        BY <2>0, <4>3
    <3>3. QED
      BY <3>1, <3>2
  <2>4. ASSUME NEW e \in Event, Accepts(e) PROVE Ledger!LedgerNext
    <3>1. (Published \ InBroker)' = Published \ InBroker
      BY <1>3, <2>0, <2>4 DEF Accepts
    <3>2. Ledger!Accept(e)
      BY <2>4, <3>1 DEF Accepts, Ledger!Accept
    <3>3. QED
      BY <3>2
  <2>5. QED
    BY <1>3, <2>1, <2>2, <2>3, <2>4, PipeStep DEF Effect
<1>4. QED
  BY <1>1, <1>2, <1>3, ApiInvariant, PipeInvariant, PTL
     DEF Spec, LedgerSpec, Ledger!LedgerSpec

-----------------------------------------------------------------------------
(* Rows too many *)

\* The click worker w works on may still be counted from here.
InHand(w) == wpc[w] = "insert" \/ (wpc[w] = "nack" /\ connected[w])

Hand(w) == IF InHand(w) THEN 1 ELSE 0
Stop(w) == IF cancelled[w] THEN 1 ELSE 0

\* What worker w may still add to the table: the messages it was sent, the click in its
\* hand and, once its context is cancelled, the click its exit returns to the queue.
Chances(w) == Len(msgs[w]) + Hand(w) + Stop(w)

ChancesOf == [w \in Worker |-> Chances(w)]

\* Rows and chances of rows: one for every published click and one for every fault.
CountInv ==
    SumFunction(rows) + Len(ready) + SumFunction(ChancesOf) <= Cardinality(Published) + faults

\* What CountInv adds up are natural numbers.
CountTypes ==
    /\ rows \in [Event -> Nat] /\ SumFunction(rows) \in Nat
    /\ ChancesOf \in [Worker -> Nat] /\ SumFunction(ChancesOf) \in Nat
    /\ \A w \in Worker : Chances(w) \in Nat
    /\ Len(ready) \in Nat /\ faults \in Nat
    /\ IsFiniteSet(Published) /\ Cardinality(Published) \in Nat

\* The numbers that CountInv compares are numbers.
LEMMA CountTyped == PipeInv => CountTypes
<1> SUFFICES ASSUME PipeTypeOK PROVE CountTypes
  BY DEF PipeInv
<1>1. rows \in [Event -> Nat] /\ ready \in Seq(Event) /\ faults \in Nat
  BY PipelineAssumption DEF PipeTypeOK
<1>2. \A w \in Worker : Len(msgs[w]) \in Nat
  BY DEF PipeTypeOK
<1>3. \A w \in Worker : Chances(w) \in Nat
  <2>1. ASSUME NEW w \in Worker PROVE Hand(w) \in {0, 1} /\ Stop(w) \in {0, 1}
    BY DEF Hand, Stop
  <2>2. QED
    BY <1>2, <2>1 DEF Chances
<1>4. ChancesOf \in [Worker -> Nat]
  BY <1>3 DEF ChancesOf
<1>5. SumFunction(rows) \in Nat /\ SumFunction(ChancesOf) \in Nat
  BY <1>1, <1>4, PipelineAssumption, SumType
<1>6. IsFiniteSet(Published) /\ Cardinality(Published) \in Nat
  BY PipelineAssumption, FS_Subset, FS_CardinalityType DEF Published
<1>7. Len(ready) \in Nat
  BY <1>1
<1>8. QED
  BY <1>1, <1>3, <1>4, <1>5, <1>6, <1>7 DEF CountTypes

\* A step of worker w pays for the n rows it adds and for what it queues again.
LEMMA CountFrame ==
    ASSUME CountTypes, CountTypes', CountInv, Published' = Published,
           NEW w \in Worker, NEW n \in Nat,
           \A v \in Worker \ {w} : Chances(v)' = Chances(v),
           SumFunction(rows') = SumFunction(rows) + n,
           n + Len(ready') + Chances(w)' + faults <= Len(ready) + Chances(w) + faults'
    PROVE  CountInv'
<1>1. \A v \in Worker \ {w} : ChancesOf'[v] = ChancesOf[v]
  BY DEF ChancesOf
<1>2. ChancesOf'[w] = Chances(w)' /\ ChancesOf[w] = Chances(w)
  BY DEF ChancesOf
<1>3. SumFunction(ChancesOf') + ChancesOf[w] = SumFunction(ChancesOf) + ChancesOf'[w]
  <2>1. ChancesOf \in [Worker -> Nat] /\ ChancesOf' \in [Worker -> Nat] /\ IsFiniteSet(Worker)
    BY PipelineAssumption DEF CountTypes
  <2>2. QED
    BY <1>1, <2>1, SumUpdate
<1>4. /\ SumFunction(rows) \in Nat /\ SumFunction(rows') \in Nat
      /\ SumFunction(ChancesOf) \in Nat /\ SumFunction(ChancesOf') \in Nat
      /\ Chances(w) \in Nat /\ Chances(w)' \in Nat
      /\ Len(ready) \in Nat /\ Len(ready') \in Nat /\ faults \in Nat /\ faults' \in Nat
      /\ Cardinality(Published) \in Nat
  BY DEF CountTypes
<1>5. SumFunction(rows) + Len(ready) + SumFunction(ChancesOf) <= Cardinality(Published) + faults
  BY DEF CountInv
<1>6. SumFunction(ChancesOf') + Chances(w) = SumFunction(ChancesOf) + Chances(w)'
  BY <1>2, <1>3
<1>7. SumFunction(rows') + Len(ready') + SumFunction(ChancesOf')
        <= Cardinality(Published) + faults'
  <2>1. n \in Nat /\ n + Len(ready') + Chances(w)' + faults <= Len(ready) + Chances(w) + faults'
    OBVIOUS
  <2>2. PICK r \in Nat, q \in Nat, q2 \in Nat, s \in Nat, s2 \in Nat, c \in Nat, c2 \in Nat,
             f \in Nat, f2 \in Nat, p \in Nat :
             /\ r = SumFunction(rows) /\ q = Len(ready) /\ q2 = Len(ready')
             /\ s = SumFunction(ChancesOf) /\ s2 = SumFunction(ChancesOf')
             /\ c = Chances(w) /\ c2 = Chances(w)' /\ f = faults /\ f2 = faults'
             /\ p = Cardinality(Published)
    BY <1>4, Zenon
  <2>3. r + q + s <= p + f
    BY <1>5, <2>2
  <2>4. s2 + c = s + c2
    BY <1>6, <2>2
  <2>5. n + q2 + c2 + f <= q + c + f2
    BY <2>1, <2>2
  <2>6. (r + n) + q2 + s2 <= p + f2
    <3>1. n + q2 + c2 + f - c <= q + f2
      BY ONLY <2>5
    <3>2. s2 = s + c2 - c
      BY ONLY <2>4
    <3>3. QED
      BY ONLY <2>3, <3>1, <3>2
  <2>7. QED
    BY <2>2, <2>6
<1>8. QED
  BY <1>7 DEF CountInv

\* A row more in the table.
LEMMA OneRowMore ==
    ASSUME PipeTypeOK, NEW e \in Event, rows' = [rows EXCEPT ![e] = @ + 1]
    PROVE  SumFunction(rows') = SumFunction(rows) + 1
<1>1. rows \in [Event -> Nat] /\ IsFiniteSet(Event)
  BY PipelineAssumption DEF PipeTypeOK
<1>2. SumFunction([rows EXCEPT ![e] = @ + 1]) = SumFunction(rows) + 1
  BY <1>1, SumPlusOne
<1>3. QED
  BY <1>2

\* How much the broker takes back from worker w, and the queue's length after it.
LEMMA TakenBack ==
    ASSUME PipeTypeOK, NEW w \in Worker
    PROVE  Len(Unacked(w) \o ready) = Len(ready) +
             (IF ~connected[w] THEN 0 ELSE (IF cur[w] = None THEN 0 ELSE 1) + Len(msgs[w]))
<1>1. /\ ready \in Seq(Event) /\ msgs[w] \in Seq(Event)
      /\ cur[w] \in Event \union {None} /\ connected[w] \in BOOLEAN
  BY DEF PipeTypeOK
<1>2. Unacked(w) \in Seq(Event)
  BY UnackedIsHeld
<1>3. Len(Unacked(w) \o ready) = Len(Unacked(w)) + Len(ready)
  BY <1>1, <1>2
<1>4. Len(Unacked(w)) =
        IF ~connected[w] THEN 0 ELSE (IF cur[w] = None THEN 0 ELSE 1) + Len(msgs[w])
  <2>1. CASE ~connected[w]
    BY <2>1 DEF Unacked
  <2>2. CASE connected[w] /\ cur[w] = None
    BY <1>1, <2>2 DEF Unacked
  <2>3. CASE connected[w] /\ cur[w] # None
    <3>1. cur[w] \in Event /\ <<cur[w]>> \in Seq(Event)
      BY <1>1, <2>3
    <3>2. Unacked(w) = <<cur[w]>> \o msgs[w]
      BY <2>3 DEF Unacked
    <3>3. Len(<<cur[w]>> \o msgs[w]) = 1 + Len(msgs[w])
      BY <1>1, <3>1
    <3>4. QED
      BY <2>3, <3>2, <3>3
  <2>4. QED
    BY <1>1, <2>1, <2>2, <2>3
<1>5. Len(ready) \in Nat /\ Len(msgs[w]) \in Nat
  BY <1>1
<1>6. CASE ~connected[w]
  BY <1>3, <1>4, <1>5, <1>6
<1>7. CASE connected[w] /\ cur[w] = None
  BY <1>3, <1>4, <1>5, <1>7
<1>8. CASE connected[w] /\ cur[w] # None
  BY <1>3, <1>4, <1>5, <1>8
<1>9. QED
  BY <1>1, <1>6, <1>7, <1>8

\* CountInv survives every step of a worker and of the broker towards it.
LEMMA CountPipeline ==
    ASSUME PipeInv, CountTypes, CountTypes', CountInv, NEW w \in Worker, PipelineStep(w)
    PROVE  CountInv'
<1>0. PipeTypeOK /\ PipeOK(w) /\ Published \subseteq Event
  BY DEF PipeInv, Published
<1>p. Published' = Published
  BY DEF PipelineStep, apiVars, Published
<1>t. /\ ready \in Seq(Event) /\ msgs[w] \in Seq(Event) /\ msgs \in [Worker -> Seq(Event)]
      /\ Len(ready) \in Nat /\ Len(msgs[w]) \in Nat /\ faults \in Nat /\ faults' \in Nat
      /\ cur[w] \in Event \union {None} /\ connected[w] \in BOOLEAN /\ cancelled[w] \in BOOLEAN
      /\ wpc \in [Worker -> {"down", "select", "insert", "ack", "nack", "returned"}]
      /\ connected \in [Worker -> BOOLEAN] /\ cancelled \in [Worker -> BOOLEAN]
      /\ SumFunction(rows) \in Nat
  BY <1>0 DEF PipeTypeOK, CountTypes
<1>f. Fault => faults' = faults + 1
  BY DEF Fault
<1>s. /\ Hand(w) \in {0, 1} /\ Stop(w) \in {0, 1} /\ Hand(w)' \in {0, 1} /\ Stop(w)' \in {0, 1}
      /\ Chances(w) = Len(msgs[w]) + Hand(w) + Stop(w)
      /\ Chances(w)' = Len(msgs'[w]) + Hand(w)' + Stop(w)'
  <2>1. Hand(w) \in {0, 1} /\ Stop(w) \in {0, 1}
    BY DEF Hand, Stop
  <2>2. Hand(w)' \in {0, 1} /\ Stop(w)' \in {0, 1}
    BY DEF Hand, Stop
  <2>3. QED
    BY <2>1, <2>2 DEF Chances
<1>k. ASSUME NEW n \in {0, 1},
             SumFunction(rows') = SumFunction(rows) + n,
             \A v \in Worker \ {w} :
                /\ msgs'[v] = msgs[v] /\ wpc'[v] = wpc[v]
                /\ connected'[v] = connected[v] /\ cancelled'[v] = cancelled[v],
             n + Len(ready') + Chances(w)' + faults <= Len(ready) + Chances(w) + faults'
      PROVE  CountInv'
  <2>1. \A v \in Worker \ {w} : Chances(v)' = Chances(v)
    BY <1>k DEF Chances, Hand, Stop, InHand
  <2>2. QED
    BY <1>k, <1>p, <2>1, CountFrame
<1>r. rows' = rows => SumFunction(rows') = SumFunction(rows) + 0
  BY <1>t
<1>1. CASE Deliver(w)
  <2>1. /\ ready' = <<>> /\ msgs' = [msgs EXCEPT ![w] = msgs[w] \o ready]
        /\ UNCHANGED <<wpc, cur, connected, cancelled, rows, faults>>
    BY <1>1 DEF Deliver
  <2>2. Len(ready') = 0 /\ Len(msgs'[w]) = Len(msgs[w]) + Len(ready)
    BY <1>t, <2>1
  <2>3. 0 + Len(ready') + Chances(w)' + faults <= Len(ready) + Chances(w) + faults'
    <3>1. Hand(w)' = Hand(w) /\ Stop(w)' = Stop(w)
      BY <1>s, <1>t, <2>1, <2>2 DEF Hand, InHand, Stop
    <3>2. QED
      BY <1>s, <1>t, <2>1, <2>2, <3>1
  <2>4. QED
    BY <1>k, <1>r, <1>t, <2>1, <2>3
<1>2. CASE Receive(w)
  <2>1. /\ wpc[w] = "select" /\ msgs[w] # <<>>
        /\ UNCHANGED <<ready, connected, cancelled, rows, faults>>
        /\ msgs' = [msgs EXCEPT ![w] = Tail(msgs[w])]
        /\ wpc' = [wpc EXCEPT ![w] = IF cancelled[w] THEN "nack" ELSE "insert"]
    BY <1>2 DEF Receive, Goto
  <2>2. Len(msgs'[w]) = Len(msgs[w]) - 1
    BY <1>t, <2>1
  <2>3. 0 + Len(ready') + Chances(w)' + faults <= Len(ready) + Chances(w) + faults'
    <3>1. Hand(w) = 0 /\ Hand(w)' <= 1 /\ Stop(w)' = Stop(w)
      BY <1>s, <1>t, <2>1, <2>2 DEF Hand, InHand, Stop
    <3>2. QED
      BY <1>s, <1>t, <2>1, <2>2, <3>1
  <2>4. QED
    BY <1>k, <1>r, <1>t, <2>1, <2>3
<1>3. CASE InsertOk(w, Insertable) \/ InsertUnsure(w, Insertable)
  <2>1. /\ wpc[w] = "insert" /\ rows' = [rows EXCEPT ![cur[w]] = @ + 1]
        /\ UNCHANGED <<ready, msgs, cur, connected, cancelled>>
        /\ \/ wpc' = [wpc EXCEPT ![w] = "ack"] /\ faults' = faults
           \/ wpc' = [wpc EXCEPT ![w] = "nack"] /\ faults' = faults + 1
    BY <1>3, <1>f DEF InsertOk, InsertUnsure, AddRow, Goto, AfterError
  <2>2. cur[w] \in Event
    BY <1>0, <2>1 DEF PipeOK
  <2>3. SumFunction(rows') = SumFunction(rows) + 1
    BY <1>0, <2>1, <2>2, OneRowMore
  <2>4. 1 + Len(ready') + Chances(w)' + faults <= Len(ready) + Chances(w) + faults'
    <3>1. Hand(w) = 1 /\ Stop(w)' = Stop(w) /\ (faults' = faults => Hand(w)' = 0)
      BY <1>s, <1>t, <2>1 DEF Hand, InHand, Stop
    <3>2. QED
      BY <1>s, <1>t, <2>1, <3>1
  <2>5. QED
    BY <1>k, <1>t, <2>1, <2>3, <2>4
<1>4. CASE InsertFails(w, Insertable)
  <2>1. /\ wpc[w] = "insert" /\ wpc' = [wpc EXCEPT ![w] = "nack"]
        /\ UNCHANGED <<ready, msgs, cur, connected, cancelled, rows>>
        /\ faults <= faults'
    BY <1>4, <1>f, <1>t DEF InsertFails, Goto, AfterError
  <2>2. 0 + Len(ready') + Chances(w)' + faults <= Len(ready) + Chances(w) + faults'
    <3>1. Hand(w) = 1 /\ Hand(w)' <= 1 /\ Stop(w)' = Stop(w)
      BY <1>s, <1>t, <2>1 DEF Hand, InHand, Stop
    <3>2. QED
      BY <1>s, <1>t, <2>1, <3>1
  <2>3. QED
    BY <1>k, <1>r, <1>t, <2>1, <2>2
<1>5. CASE Ack(w)
  <2>1. /\ wpc[w] = "ack" /\ wpc' = [wpc EXCEPT ![w] = "select"]
        /\ ready' = ready /\ UNCHANGED <<msgs, connected, cancelled, rows, faults>>
    BY <1>5, <1>t DEF Ack, Settled, Goto
  <2>2. 0 + Len(ready') + Chances(w)' + faults <= Len(ready) + Chances(w) + faults'
    <3>1. Hand(w)' = 0 /\ Stop(w)' = Stop(w)
      BY <1>s, <1>t, <2>1 DEF Hand, InHand, Stop
    <3>2. QED
      BY <1>s, <1>t, <2>1, <3>1
  <2>3. QED
    BY <1>k, <1>r, <1>t, <2>1, <2>2
<1>6. CASE Nack(w)
  <2>1. /\ wpc[w] = "nack" /\ wpc' = [wpc EXCEPT ![w] = "select"]
        /\ ready' = (IF connected[w] THEN <<cur[w]>> ELSE <<>>) \o ready
        /\ UNCHANGED <<msgs, connected, cancelled, rows, faults>>
    BY <1>6 DEF Nack, Settled, Goto
  <2>2. cur[w] \in Event
    BY <1>0, <2>1 DEF PipeOK
  <2>3. Len(ready') = Len(ready) + (IF connected[w] THEN 1 ELSE 0)
    <3>1. CASE connected[w]
      BY <1>t, <2>1, <2>2, <3>1
    <3>2. CASE ~connected[w]
      BY <1>t, <2>1, <3>2
    <3>3. QED
      BY <1>t, <3>1, <3>2
  <2>4. 0 + Len(ready') + Chances(w)' + faults <= Len(ready) + Chances(w) + faults'
    <3>1. Hand(w)' = 0 /\ Stop(w)' = Stop(w) /\ (connected[w] => Hand(w) = 1)
      BY <1>s, <1>t, <2>1, <2>3 DEF Hand, InHand, Stop
    <3>2. QED
      BY <1>s, <1>t, <2>1, <2>3, <3>1
  <2>5. QED
    BY <1>k, <1>r, <1>t, <2>1, <2>4
<1>7. CASE Return(w)
  <2>1. /\ wpc[w] = "select" /\ wpc' = [wpc EXCEPT ![w] = "returned"]
        /\ UNCHANGED <<ready, msgs, connected, cancelled, rows, faults>>
    BY <1>7 DEF Return, Goto
  <2>2. 0 + Len(ready') + Chances(w)' + faults <= Len(ready) + Chances(w) + faults'
    <3>1. Hand(w)' = 0 /\ Stop(w)' = Stop(w)
      BY <1>s, <1>t, <2>1 DEF Hand, InHand, Stop
    <3>2. QED
      BY <1>s, <1>t, <2>1, <3>1
  <2>3. QED
    BY <1>k, <1>r, <1>t, <2>1, <2>2
<1>8. CASE Subscribe(w)
  <2>1. /\ wpc[w] = "down" /\ wpc' = [wpc EXCEPT ![w] = "select"]
        /\ connected' = [connected EXCEPT ![w] = TRUE]
        /\ UNCHANGED <<ready, msgs, cancelled, rows, faults>>
    BY <1>8 DEF Subscribe, Goto
  <2>2. 0 + Len(ready') + Chances(w)' + faults <= Len(ready) + Chances(w) + faults'
    <3>1. Hand(w)' = 0 /\ Stop(w)' = Stop(w)
      BY <1>s, <1>t, <2>1 DEF Hand, InHand, Stop
    <3>2. QED
      BY <1>s, <1>t, <2>1, <3>1
  <2>3. QED
    BY <1>k, <1>r, <1>t, <2>1, <2>2
<1>9. CASE Signal(w)
  <2>1. /\ cancelled' = [cancelled EXCEPT ![w] = TRUE] /\ faults' = faults + 1
        /\ UNCHANGED <<ready, msgs, wpc, connected, rows>>
    BY <1>9, <1>f DEF Signal
  <2>2. 0 + Len(ready') + Chances(w)' + faults <= Len(ready) + Chances(w) + faults'
    <3>1. Hand(w)' = Hand(w) /\ Stop(w)' = 1
      BY <1>s, <1>t, <2>1 DEF Hand, InHand, Stop
    <3>2. QED
      BY <1>s, <1>t, <2>1, <3>1
  <2>3. QED
    BY <1>k, <1>r, <1>t, <2>1, <2>2
<1>10. CASE LoseConnection(w)
  <2>1. /\ connected[w] /\ faults' = faults + 1 /\ ready' = Unacked(w) \o ready
        /\ msgs' = [msgs EXCEPT ![w] = <<>>] /\ connected' = [connected EXCEPT ![w] = FALSE]
        /\ UNCHANGED <<wpc, cur, cancelled, rows>>
    BY <1>10, <1>f DEF LoseConnection
  <2>2. Len(ready') = Len(ready) + (IF cur[w] = None THEN 0 ELSE 1) + Len(msgs[w])
    BY <1>0, <1>t, <2>1, TakenBack
  <2>3. Len(msgs'[w]) = 0 /\ (cur[w] # None => wpc[w] \in {"insert", "ack", "nack"})
    BY <1>0, <1>t, <2>1 DEF PipeOK
  <2>4. 0 + Len(ready') + Chances(w)' + faults <= Len(ready) + Chances(w) + faults'
    <3>1. Hand(w)' <= Hand(w) /\ Stop(w)' = Stop(w) /\ (wpc[w] = "insert" => Hand(w) = 1)
            /\ (wpc[w] = "nack" => Hand(w) = 1 /\ Hand(w)' = 0)
            /\ (wpc[w] = "ack" => Hand(w)' = 0)
      BY <1>s, <1>t, <2>1, <2>2, <2>3 DEF Hand, InHand, Stop
    <3>2. QED
      BY <1>s, <1>t, <2>1, <2>2, <2>3, <3>1
  <2>5. QED
    BY <1>k, <1>r, <1>t, <2>1, <2>4
<1>11. CASE Exit(w, Insertable) \/ Crash(w, Insertable)
  <2>1. /\ wpc' = [wpc EXCEPT ![w] = "down"] /\ ready' = Unacked(w) \o ready
        /\ msgs' = [msgs EXCEPT ![w] = <<>>] /\ connected' = [connected EXCEPT ![w] = FALSE]
        /\ cancelled' = [cancelled EXCEPT ![w] = FALSE]
        /\ (cancelled[w] /\ faults' = faults) \/ faults' = faults + 1
        /\ \/ UNCHANGED rows
           \/ wpc[w] = "insert" /\ rows' = [rows EXCEPT ![cur[w]] = @ + 1]
    BY <1>11, <1>f DEF Exit, Crash, Gone, Goto, AddRow
  <2>2. Len(ready') = Len(ready) +
            (IF ~connected[w] THEN 0 ELSE (IF cur[w] = None THEN 0 ELSE 1) + Len(msgs[w]))
    BY <1>0, <2>1, TakenBack
  <2>3. /\ Len(msgs'[w]) = 0 /\ (cur[w] # None => wpc[w] \in {"insert", "ack", "nack"})
        /\ wpc[w] = "insert" => cur[w] \in Event
    BY <1>0, <1>t, <2>1 DEF PipeOK
  <2>4. Chances(w)' = 0
    <3>1. Hand(w)' = 0 /\ Stop(w)' = 0
      BY <1>t, <2>1 DEF Hand, InHand, Stop
    <3>2. QED
      BY <1>s, <2>3, <3>1
  <2>8. /\ cancelled[w] => Stop(w) = 1
        /\ wpc[w] = "insert" => Hand(w) = 1
        /\ wpc[w] = "nack" /\ connected[w] => Hand(w) = 1
    BY DEF Hand, InHand, Stop
  <2>5. CASE UNCHANGED rows
    <3>1. 0 + Len(ready') + Chances(w)' + faults <= Len(ready) + Chances(w) + faults'
      BY <1>s, <1>t, <2>1, <2>2, <2>3, <2>4, <2>8
    <3>2. QED
      BY <1>k, <1>r, <1>t, <2>1, <2>5, <3>1
  <2>6. CASE wpc[w] = "insert" /\ rows' = [rows EXCEPT ![cur[w]] = @ + 1]
    <3>1. SumFunction(rows') = SumFunction(rows) + 1
      BY <1>0, <2>3, <2>6, OneRowMore
    <3>2. 1 + Len(ready') + Chances(w)' + faults <= Len(ready) + Chances(w) + faults'
      BY <1>s, <1>t, <2>1, <2>2, <2>3, <2>4, <2>6, <2>8
    <3>3. QED
      BY <1>k, <1>t, <2>1, <3>1, <3>2
  <2>7. QED
    BY <2>1, <2>5, <2>6
<1>12. QED
  BY <1>1, <1>2, <1>3, <1>4, <1>5, <1>6, <1>7, <1>8, <1>9, <1>10, <1>11
     DEF PipelineStep, Process

\* CountInv is inductive relative to the invariants above.
LEMMA CountStep ==
    ASSUME ApiInv, PipeInv, CountTypes, CountTypes', CountInv, [Next]_vars
    PROVE  CountInv'
<1>0. ApiTypeOK
  BY DEF ApiInv
<1>1. ASSUME UNCHANGED pipeVars, Published' = Published PROVE CountInv'
  <2>1. UNCHANGED <<ready, msgs, wpc, connected, cancelled, rows, faults>>
    BY <1>1 DEF pipeVars, workerVars
  <2>2. ChancesOf' = ChancesOf
    BY <2>1 DEF ChancesOf, Chances, Hand, Stop, InHand
  <2>3. QED
    BY <1>1, <2>1, <2>2 DEF CountInv
<1>2. CASE \E h \in Handler : HandlerStep(h)
  BY <1>1, <1>2, HandlerKeeps
<1>3. CASE \E c \in Code : Expire(c)
  BY <1>1, <1>3 DEF Expire, Published
<1>4. CASE \E e \in Event : LosePublish(e)
  <2>1. UNCHANGED pipeVars /\ Published' = Published
    BY <1>0, <1>4 DEF LosePublish, Published, NoClick, ApiTypeOK
  <2>2. QED
    BY <1>1, <2>1
<1>5. CASE UNCHANGED vars
  BY <1>1, <1>5 DEF vars, apiVars, Published
<1>6. ASSUME NEW e \in Event, Publish(e) PROVE CountInv'
  <2>1. /\ ready' = Append(ready, e)
        /\ UNCHANGED <<msgs, wpc, connected, cancelled, rows, faults>>
    BY <1>6 DEF Publish, Enqueue, workerVars
  <2>2. e \notin Published /\ Published' = Published \union {e}
    BY <1>0, <1>6, PublishKeeps DEF Accepts
  <2>3. Cardinality(Published') = Cardinality(Published) + 1
    BY <2>2, FS_AddElement DEF CountTypes
  <2>4. Len(ready') = Len(ready) + 1
    BY <2>1 DEF PipeInv, PipeTypeOK
  <2>5. ChancesOf' = ChancesOf
    BY <2>1 DEF ChancesOf, Chances, Hand, Stop, InHand
  <2>6. QED
    BY <2>1, <2>3, <2>4, <2>5 DEF CountInv, CountTypes
<1>7. CASE \E w \in Worker : PipelineStep(w)
  BY <1>7, CountPipeline
<1>8. QED
  BY <1>2, <1>3, <1>4, <1>5, <1>6, <1>7 DEF Next

\* A sequence has no more members than places.
LEMMA FewMembers ==
    ASSUME NEW S, NEW s \in Seq(S)
    PROVE  IsFiniteSet(ToSet(s)) /\ Cardinality(ToSet(s)) <= Len(s)
<1>1. Len(s) \in Nat /\ DOMAIN s = 1..Len(s)
  OBVIOUS
<1>2. IsFiniteSet(1..Len(s)) /\ Cardinality(1..Len(s)) = Len(s)
  BY <1>1, FS_Interval
<1>3. s \in Surjection(1..Len(s), ToSet(s))
  BY <1>1 DEF Surjection, ToSet
<1>4. QED
  BY <1>2, <1>3, FS_Surjection

\* Clicks without a row are clicks with a chance of one.
LEMMA UncountedHaveChances ==
    ASSUME PipeInv, CountTypes, NoClickLost
    PROVE  Cardinality({e \in Published : rows[e] = 0}) <= Len(ready) + SumFunction(ChancesOf)
<1> DEFINE U == {e \in Published : rows[e] = 0}
           H == [w \in Worker |-> ToSet(msgs[w]) \union (IF InHand(w) THEN {cur[w]} ELSE {})]
           All == UNION {H[w] : w \in Worker}
<1>0. PipeTypeOK /\ (\A w \in Worker : PipeOK(w)) /\ InBroker = HeldByBroker
  BY BrokerHolds DEF PipeInv
<1>1. U \subseteq ToSet(ready) \union All
  <2>1. SUFFICES ASSUME NEW e \in Published, rows[e] = 0, e \notin ToSet(ready)
                 PROVE  e \in All
    OBVIOUS
  <2>2. PICK w \in Worker : e \in Held(w)
    BY <1>0, <2>1 DEF NoClickLost, HeldByBroker, CountTypes, Published
  <2>3. connected[w] /\ (e \in ToSet(msgs[w]) \/ (e = cur[w] /\ cur[w] # None))
    BY <2>2 DEF Held
  <2>4. e \notin ToSet(msgs[w]) => InHand(w) /\ e = cur[w]
    BY <1>0, <2>1, <2>3 DEF PipeOK, InHand, PipeTypeOK
  <2>5. e \in H[w]
    BY <2>4
  <2>6. QED
    BY <2>5
<1>2. ASSUME NEW w \in Worker PROVE IsFiniteSet(H[w]) /\ Cardinality(H[w]) <= ChancesOf[w]
  <2> DEFINE A == ToSet(msgs[w])
             B == IF InHand(w) THEN {cur[w]} ELSE {}
  <2>1. IsFiniteSet(A) /\ Cardinality(A) <= Len(msgs[w]) /\ Len(msgs[w]) \in Nat
    BY <1>0, FewMembers DEF PipeTypeOK
  <2>2. IsFiniteSet(B) /\ Cardinality(B) = Hand(w)
    BY FS_Singleton, FS_EmptySet DEF Hand
  <2>3. H[w] = A \union B
    OBVIOUS
  <2> HIDE DEF A, B, H
  <2>4. IsFiniteSet(H[w]) /\ Cardinality(H[w]) <= Cardinality(A) + Cardinality(B)
    BY <2>1, <2>2, <2>3, UnionSize
  <2>5. Cardinality(A) \in Nat /\ Cardinality(B) \in Nat /\ Cardinality(H[w]) \in Nat
    BY <2>1, <2>2, <2>4, FS_CardinalityType
  <2>6. ChancesOf[w] = Len(msgs[w]) + Hand(w) + Stop(w) /\ Stop(w) \in {0, 1}
    BY DEF ChancesOf, Chances, Stop
  <2>7. QED
    BY <2>1, <2>2, <2>4, <2>5, <2>6
<1> HIDE DEF H
<1>3. IsFiniteSet(All) /\ Cardinality(All) <= SumFunction(ChancesOf)
  BY <1>2, PipelineAssumption, FamilySize DEF CountTypes
<1>4. IsFiniteSet(ToSet(ready)) /\ Cardinality(ToSet(ready)) <= Len(ready)
  BY <1>0, FewMembers DEF PipeTypeOK
<1> HIDE DEF All, U
<1>5. /\ IsFiniteSet(ToSet(ready) \union All)
      /\ Cardinality(ToSet(ready) \union All) <= Cardinality(ToSet(ready)) + Cardinality(All)
  BY <1>3, <1>4, UnionSize
<1>6. IsFiniteSet(U) /\ Cardinality(U) <= Cardinality(ToSet(ready) \union All)
  BY <1>1, <1>5, FS_Subset
<1>7. /\ Cardinality(U) \in Nat /\ Cardinality(All) \in Nat /\ Cardinality(ToSet(ready)) \in Nat
      /\ Cardinality(ToSet(ready) \union All) \in Nat
  BY <1>3, <1>4, <1>5, <1>6, FS_CardinalityType
<1>8. Cardinality(U) <= Len(ready) + SumFunction(ChancesOf)
  BY <1>3, <1>4, <1>5, <1>6, <1>7 DEF CountTypes
<1>9. QED
  BY <1>8 DEF U

\* The rows are the first row of every counted click and the surplus.
LEMMA RowsSplit ==
    ASSUME PipeTypeOK
    PROVE  LET Extra == [e \in Event |-> Surplus(e)]
               Counted == {e \in Event : rows[e] > 0}
           IN  /\ SumFunction(rows) = SumFunction(Extra) + Cardinality(Counted)
               /\ SumFunction(Extra) \in Nat
               /\ IsFiniteSet(Counted) /\ Cardinality(Counted) \in Nat
<1> DEFINE Extra == [e \in Event |-> Surplus(e)]
           Counted == {e \in Event : rows[e] > 0}
           First == [e \in Event |-> IF e \in Counted THEN 1 ELSE 0]
<1>1. /\ rows \in [Event -> Nat] /\ Extra \in [Event -> Nat] /\ First \in [Event -> Nat]
      /\ \A e \in Event : rows[e] = Extra[e] + First[e]
  BY DEF PipeTypeOK, Surplus
<1>2. Counted \in SUBSET Event
  OBVIOUS
<1>3. SumFunction(First) = Cardinality(Counted)
  <2> HIDE DEF Counted
  <2>1. QED
    BY <1>2, PipelineAssumption, SumIndicator
<1>4. IsFiniteSet(Counted) /\ Cardinality(Counted) \in Nat
  BY <1>2, PipelineAssumption, FS_Subset, FS_CardinalityType
<1> HIDE DEF Extra, First
<1>5. SumFunction(rows) = SumFunction(Extra) + SumFunction(First) /\ SumFunction(Extra) \in Nat
  BY <1>1, PipelineAssumption, SumPlus, SumType
<1>6. QED
  BY <1>3, <1>4, <1>5 DEF Extra

\* Every fault (a crash, a signal, a lost connection, a database error) costs at most
\* one row too many in the whole table, however many messages it returns to the queue,
\* for any numbers of clicks, workers and faults (worker.go, processMessage).
THEOREM SurplusBoundedHolds == Spec => []SurplusBounded
<1>1. Init => CountInv
  <2> SUFFICES ASSUME Init PROVE CountInv
    OBVIOUS
  <2>1. CountTypes /\ Published = {}
    BY PipeInit, CountTyped
  <2>2. /\ ready = <<>> /\ rows = [e \in Event |-> 0] /\ faults = 0
        /\ msgs = [w \in Worker |-> <<>>] /\ wpc = [w \in Worker |-> "down"]
        /\ cancelled = [w \in Worker |-> FALSE]
    BY DEF Init, PipelineInit
  <2>3. Len(ready) = 0 /\ (\A w \in Worker : ChancesOf[w] = 0) /\ \A e \in Event : rows[e] = 0
    BY <2>2 DEF ChancesOf, Chances, Hand, Stop, InHand
  <2>4. SumFunction(rows) = 0 /\ SumFunction(ChancesOf) = 0
    BY <2>1, <2>3, PipelineAssumption, SumZero DEF CountTypes
  <2>5. QED
    BY <2>1, <2>2, <2>3, <2>4 DEF CountInv, CountTypes
<1>2. ApiInv /\ PipeInv /\ CountTypes /\ CountTypes' /\ CountInv /\ [Next]_vars => CountInv'
  BY CountStep
<1>3. PipeInv /\ CountTypes /\ NoClickLost /\ CountInv => SurplusBounded
  <2> SUFFICES ASSUME PipeInv, CountTypes, NoClickLost, CountInv PROVE SurplusBounded
    OBVIOUS
  <2> DEFINE Extra == [e \in Event |-> Surplus(e)]
             Counted == {e \in Event : rows[e] > 0}
             Uncounted == {e \in Published : rows[e] = 0}
  <2>1. /\ SumFunction(rows) = SumFunction(Extra) + Cardinality(Counted)
        /\ SumFunction(Extra) \in Nat
        /\ IsFiniteSet(Counted) /\ Cardinality(Counted) \in Nat
    BY RowsSplit DEF PipeInv
  <2>2. Cardinality(Uncounted) <= Len(ready) + SumFunction(ChancesOf)
    BY UncountedHaveChances
  <2>3. IsFiniteSet(Uncounted) /\ Cardinality(Uncounted) \in Nat
    BY FS_Subset, FS_CardinalityType DEF CountTypes
  <2>4. Published \subseteq Uncounted \union Counted
    BY DEF CountTypes, Published
  <2> HIDE DEF Extra, Counted, Uncounted
  <2>5. /\ IsFiniteSet(Uncounted \union Counted)
        /\ Cardinality(Uncounted \union Counted) <= Cardinality(Uncounted) + Cardinality(Counted)
    BY <2>1, <2>3, UnionSize
  <2>6. Cardinality(Published) <= Cardinality(Uncounted \union Counted)
        /\ Cardinality(Uncounted \union Counted) \in Nat
    BY <2>4, <2>5, FS_Subset, FS_CardinalityType
  <2>7. SumFunction(Extra) <= faults
    BY <2>1, <2>2, <2>3, <2>5, <2>6 DEF CountInv, CountTypes
  <2>8. QED
    BY <2>7 DEF SurplusBounded, Extra
<1>4. QED
  BY <1>1, <1>2, <1>3, ApiInvariant, PipeInvariant, NoClickLostHolds, CountTyped, PTL DEF Spec
=============================================================================
