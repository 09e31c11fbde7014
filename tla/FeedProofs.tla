----------------------------- MODULE FeedProofs -----------------------------
(***************************************************************************)
(* Proofs about the live feed, for any connections, coroutines and tasks:  *)
(* no client is written to twice by a broadcast, every client that is      *)
(* connected is listed, and a client at rest has caught up.                *)
(*                                                                         *)
(* The last one rests on the order of the announcements of one task.  A    *)
(* coroutine that announces it is suspended on the client at its index,    *)
(* those suspended on one client resume in the order in which they came to *)
(* it, and so the last announcement is behind every older one: whoever it  *)
(* has not reached yet will hear it last, and whoever joins meanwhile gets *)
(* an initial state that has it.  A client that leaves meanwhile destroys  *)
(* this order; the next announcement that begins alone restores it.        *)
(***************************************************************************)
EXTENDS Feed, WellFoundedInduction, TLAPS

(* The list without some clients *)

\* Induction from 0 to n, for a set T of numbers.
LEMMA UpTo ==
    ASSUME NEW n \in Nat, NEW T, 0 \in T, \A i \in 0..n : i # 0 /\ i - 1 \in T => i \in T
    PROVE  \A i \in 0..n : i \in T
<1> DEFINE U == (0..n) \ T
<1>1. SUFFICES ASSUME U # {} PROVE FALSE
  OBVIOUS
<1>2. U \subseteq Nat
  OBVIOUS
<1>3. PICK u \in U : \A v \in U : ~ (<<v, u>> \in OpToRel(<, Nat))
  <2> HIDE DEF U
  <2>1. QED
    BY <1>1, <1>2, NatLessThanWellFounded, WFMin
<1>4. \A v \in U : ~ (v < u)
  BY <1>2, <1>3 DEF OpToRel
<1>5. u # 0 /\ u - 1 \in 0..n
  OBVIOUS
<1>6. u - 1 \in T
  BY <1>4, <1>5
<1>7. QED
  BY <1>5, <1>6

\* The recursion of Without, on the first n places.
Keeps(s, S, n, f) ==
    f = [i \in 0..n |-> IF i = 0 THEN <<>>
                        ELSE IF s[i] \in S THEN f[i - 1] ELSE Append(f[i - 1], s[i])]

\* It has a solution.
LEMMA KeepsExists ==
    ASSUME NEW s, NEW S, NEW n \in Nat
    PROVE  \E f : Keeps(s, S, n, f)
<1> DEFINE T == {m \in 0..n : \E f : Keeps(s, S, m, f)}
<1>1. 0 \in T
  <2>1. Keeps(s, S, 0, [i \in 0..0 |-> <<>>])
    BY DEF Keeps
  <2>2. QED
    BY <2>1
<1>2. ASSUME NEW m \in 0..n, m # 0, m - 1 \in T PROVE m \in T
  <2>1. PICK f : Keeps(s, S, m - 1, f)
    BY <1>2
  <2> DEFINE last == IF s[m] \in S THEN f[m - 1] ELSE Append(f[m - 1], s[m])
             g == [i \in 0..m |-> IF i = m THEN last ELSE f[i]]
  <2>2. ASSUME NEW i \in 0..m
        PROVE  g[i] = IF i = 0 THEN <<>>
                      ELSE IF s[i] \in S THEN g[i - 1] ELSE Append(g[i - 1], s[i])
    <3>1. CASE i = m
      <4>1. m - 1 \in 0..m /\ m - 1 # m
        BY <1>2
      <4>2. g[i] = last /\ g[m - 1] = f[m - 1]
        BY <3>1, <4>1
      <4>3. QED
        BY <1>2, <3>1, <4>2
    <3>2. CASE i # m
      <4>1. i \in 0..(m - 1)
        BY <3>2
      <4>2. f[i] = IF i = 0 THEN <<>>
                   ELSE IF s[i] \in S THEN f[i - 1] ELSE Append(f[i - 1], s[i])
        BY <2>1, <4>1 DEF Keeps
      <4>3. g[i] = f[i] /\ (i # 0 => g[i - 1] = f[i - 1])
        BY <3>2, <4>1
      <4>4. QED
        BY <4>2, <4>3
    <3>3. QED
      BY <3>1, <3>2
  <2>3. Keeps(s, S, m, g)
    BY <2>2 DEF Keeps
  <2>4. QED
    BY <2>3
<1>3. \A m \in 0..n : m \in T
  <2> HIDE DEF T
  <2>1. QED
    BY <1>1, <1>2, UpTo
<1>4. QED
  BY <1>3

\* s is what is left of the first k places of list l without S: each of its clients stood
\* there, no further ahead, in the same order, and nobody else is missing.
LeftOf(s, l, S, k) ==
    /\ s \in Seq(Conn) /\ Len(s) <= k
    /\ \A i \in 1..Len(s) : \E j \in i..k : s[i] = l[j] /\ l[j] \notin S
    /\ \A j \in 1..k : l[j] \in S \/ \E i \in 1..Len(s) : s[i] = l[j]

Distinct(l) == \A i, j \in 1..Len(l) : l[i] = l[j] => i = j

\* What Without returns for a list of distinct clients.
LEMMA WithoutFacts ==
    ASSUME NEW l \in Seq(Conn), Distinct(l), NEW S
    PROVE  LeftOf(Without(l, S), l, S, Len(l)) /\ Distinct(Without(l, S))
<1> DEFINE n == Len(l)
           f == CHOOSE f : Keeps(l, S, n, f)
           T == {k \in 0..n : LeftOf(f[k], l, S, k) /\ Distinct(f[k])}
<1>1. Without(l, S) = f[n]
  BY DEF Without, Keeps
<1>2. n \in Nat
  OBVIOUS
<1>3. Keeps(l, S, n, f)
  BY <1>2, KeepsExists
<1> HIDE DEF f
<1>4. \A k \in 0..n : f[k] = IF k = 0 THEN <<>>
                             ELSE IF l[k] \in S THEN f[k - 1] ELSE Append(f[k - 1], l[k])
  BY <1>3 DEF Keeps
<1>5. 0 \in T
  <2>1. f[0] = <<>>
    BY <1>2, <1>4
  <2>2. <<>> \in Seq(Conn) /\ Len(<<>>) = 0
    OBVIOUS
  <2>3. LeftOf(<<>>, l, S, 0) /\ Distinct(<<>>)
    BY <2>2 DEF LeftOf, Distinct
  <2>4. QED
    BY <1>2, <2>1, <2>3
<1>6. ASSUME NEW k \in 0..n, k # 0, k - 1 \in T PROVE k \in T
  <2>1. LeftOf(f[k - 1], l, S, k - 1) /\ Distinct(f[k - 1])
    BY <1>6
  <2>2. k \in 1..n /\ l[k] \in Conn
    BY <1>2, <1>6
  <2>3. CASE l[k] \in S
    <3>1. f[k] = f[k - 1]
      BY <1>4, <2>2, <2>3
    <3>2. LeftOf(f[k - 1], l, S, k)
      BY <1>2, <2>1, <2>2, <2>3 DEF LeftOf
    <3>3. QED
      BY <2>1, <3>1, <3>2
  <2>4. CASE l[k] \notin S
    <3> DEFINE s == f[k - 1]
               u == Append(s, l[k])
    <3>1. f[k] = u
      <4>1. k \in 0..n /\ k # 0 /\ ~ (l[k] \in S)
        BY <2>4, <1>6
      <4>2. QED
        BY <1>4, <4>1, Zenon
    <3>2. s \in Seq(Conn) /\ Len(s) \in Nat /\ Len(s) <= k - 1
      BY <2>1 DEF LeftOf
    <3>3. /\ u \in Seq(Conn) /\ Len(u) = Len(s) + 1 /\ u[Len(s) + 1] = l[k]
          /\ \A i \in 1..Len(s) : u[i] = s[i]
      BY <2>2, <3>2
    <3>4. \A i \in 1..Len(s) : \E j \in i..(k - 1) : s[i] = l[j] /\ l[j] \notin S
      BY <2>1 DEF LeftOf
    <3>5. \A j \in 1..(k - 1) : l[j] \in S \/ \E i \in 1..Len(s) : s[i] = l[j]
      BY <2>1 DEF LeftOf
    <3> HIDE DEF s, u
    <3>6. ASSUME NEW i \in 1..Len(u) PROVE \E j \in i..k : u[i] = l[j] /\ l[j] \notin S
      <4>1. CASE i = Len(s) + 1
        BY <2>2, <2>4, <3>2, <3>3, <4>1
      <4>2. CASE i # Len(s) + 1
        <5>1. i \in 1..Len(s) /\ u[i] = s[i]
          BY <3>2, <3>3, <4>2
        <5>2. PICK j \in i..(k - 1) : s[i] = l[j] /\ l[j] \notin S
          BY <3>4, <5>1
        <5>3. j \in i..k
          BY <2>2, <5>2
        <5>4. QED
          BY <5>1, <5>2, <5>3
      <4>3. QED
        BY <4>1, <4>2
    <3>7. ASSUME NEW j \in 1..k PROVE l[j] \in S \/ \E i \in 1..Len(u) : u[i] = l[j]
      <4>1. CASE j = k
        <5>1. Len(s) + 1 \in 1..Len(u)
          BY <3>2, <3>3
        <5>2. QED
          BY <3>3, <4>1, <5>1
      <4>2. CASE j # k
        <5>1. j \in 1..(k - 1)
          BY <2>2, <4>2
        <5>2. \A i \in 1..Len(s) : i \in 1..Len(u)
          BY <3>2, <3>3
        <5>3. QED
          BY <3>3, <3>5, <5>1, <5>2
      <4>3. QED
        BY <4>1, <4>2
    <3>8. \A i \in 1..Len(s) : s[i] # l[k]
      <4> SUFFICES ASSUME NEW i \in 1..Len(s), s[i] = l[k] PROVE FALSE
        OBVIOUS
      <4>1. PICK j \in i..(k - 1) : s[i] = l[j]
        BY <3>4
      <4>2. j \in 1..n /\ j # k
        BY <1>2, <2>2, <4>1
      <4>3. QED
        BY <2>2, <4>1, <4>2 DEF Distinct
    <3>9. Distinct(u)
      <4> SUFFICES ASSUME NEW i \in 1..Len(u), NEW j \in 1..Len(u), u[i] = u[j], i # j PROVE FALSE
        BY DEF Distinct
      <4>1. \A a, b \in 1..Len(s) : s[a] = s[b] => a = b
        BY <2>1 DEF Distinct, s
      <4>2. \A a \in 1..Len(u) : a = Len(s) + 1 \/ a \in 1..Len(s)
        BY <3>2, <3>3
      <4>3. QED
        BY <3>3, <3>8, <4>1, <4>2
    <3>10. LeftOf(u, l, S, k)
      BY <2>2, <3>2, <3>3, <3>6, <3>7 DEF LeftOf
    <3>11. QED
      BY <3>1, <3>9, <3>10
  <2>5. QED
    BY <2>3, <2>4
<1>7. \A k \in 0..n : k \in T
  <2> HIDE DEF T, n
  <2>1. QED
    BY <1>2, <1>5, <1>6, UpTo
<1>8. n \in T
  BY <1>2, <1>7
<1>9. QED
  BY <1>1, <1>8

-----------------------------------------------------------------------------
(* The list and the broadcasts *)

ManagerTypes ==
    /\ active \in Seq(Conn)
    /\ up \in [Conn -> BOOLEAN]
    /\ endpoint \in [Conn -> {"none", "greeting", "receiving"}]
    /\ hello \in [Conn -> Messages \union {None}]
    /\ chan \in [Conn -> Seq(Messages)]
    /\ waiting \in [Conn -> Seq(Emitter)]
    /\ bc \in [Emitter -> Broadcasts \union {None}]

\* A status is announced after it was set.
StatusInv ==
    /\ store \in [Task -> Nat] /\ announced \in [Task -> Nat]
    /\ \A t \in Task : announced[t] <= store[t]

\* A coroutine is suspended in one send only, to a client its broadcast was written to.
WaitInv ==
    /\ \A c \in Conn : \A i \in 1..Len(waiting[c]) :
          bc[waiting[c][i]] # None /\ c \in bc[waiting[c][i]].sent
    /\ \A c, d \in Conn : \A i \in 1..Len(waiting[c]), j \in 1..Len(waiting[d]) :
          waiting[c][i] = waiting[d][j] => c = d /\ i = j

\* Only broken clients have failed, and only what was sent can fail.
DeadInv ==
    \A e \in Emitter : bc[e] # None =>
        bc[e].dead \subseteq bc[e].sent /\ \A c \in bc[e].dead : ~up[c]

\* Every client that is connected is listed.
UpIsListed == \A c \in Conn : up[c] => \E i \in 1..Len(active) : active[i] = c

\* Every client that is connected has its endpoint coroutine.
UpIsWatched == \A c \in Conn : up[c] => endpoint[c] # "none"

ListInv ==
    /\ ManagerTypes /\ Distinct(active)
    /\ WaitInv /\ DeadInv /\ UpIsListed
    /\ NeverTwice /\ UpIsWatched

\* Every step keeps StatusInv.
LEMMA StatusStep == StatusInv /\ [Next]_vars => StatusInv'
<1> SUFFICES ASSUME StatusInv, [Next]_vars PROVE StatusInv'
  OBVIOUS
<1>1. ASSUME NEW t \in Task, store' = [store EXCEPT ![t] = @ + 1], announced' = announced
      PROVE  StatusInv'
  BY <1>1 DEF StatusInv
<1>2. ASSUME NEW e \in Emitter, EmitTaskUpdate(e) PROVE StatusInv'
  <2>1. PICK t \in Task : announced' = [announced EXCEPT ![t] = store[t]] /\ store' = store
    BY <1>2 DEF EmitTaskUpdate
  <2>2. QED
    BY <2>1 DEF StatusInv
<1>3. CASE UNCHANGED <<store, announced>>
  BY <1>3 DEF StatusInv
<1>4. CASE Emissions
  BY <1>1, <1>2, <1>3, <1>4
     DEF Emissions, UpdateSilently, Emit, EmitMetrics, EmitWorkerUpdate
<1>5. CASE \E c \in Conn : Serve(c) \/ Join(c) \/ HandleMessage(c)
  BY <1>3, <1>5 DEF Serve, Join, HandleMessage, monitorVars
<1>6. CASE UNCHANGED vars
  BY <1>3, <1>6 DEF vars, monitorVars
<1>7. QED
  BY <1>4, <1>5, <1>6 DEF Next

\* The places of the coroutines suspended on d, when the first of those on c resumed.
LEMMA Popped ==
    ASSUME NEW q \in [Conn -> Seq(Emitter)], NEW c \in Conn, q[c] # <<>>, NEW d \in Conn,
           NEW i \in 1..Len([q EXCEPT ![c] = Tail(@)][d])
    PROVE  LET k == IF d = c THEN i + 1 ELSE i
           IN  k \in 1..Len(q[d]) /\ [q EXCEPT ![c] = Tail(@)][d][i] = q[d][k]
<1>1. q[c] \in Seq(Emitter) /\ q[d] \in Seq(Emitter) /\ Len(q[c]) \in Nat \ {0}
  OBVIOUS
<1>2. CASE d = c
  <2>1. [q EXCEPT ![c] = Tail(@)][d] = Tail(q[c])
    BY <1>2
  <2>2. /\ Len(Tail(q[c])) = Len(q[c]) - 1
        /\ \A j \in 1..Len(Tail(q[c])) : Tail(q[c])[j] = q[c][j + 1]
    BY <1>1
  <2>3. QED
    BY <1>1, <1>2, <2>1, <2>2
<1>3. CASE d # c
  BY <1>1, <1>3
<1>4. QED
  BY <1>2, <1>3

\* When e is suspended on c, the others keep their places and e has the last.
LEMMA Pushed ==
    ASSUME NEW q \in [Conn -> Seq(Emitter)], NEW c \in Conn, NEW e \in Emitter, NEW d \in Conn
    PROVE  LET p == [q EXCEPT ![c] = Append(@, e)]
           IN  /\ p \in [Conn -> Seq(Emitter)] /\ Len(q[d]) \in Nat
               /\ Len(p[d]) = Len(q[d]) + (IF d = c THEN 1 ELSE 0)
               /\ \A i \in 1..Len(q[d]) : p[d][i] = q[d][i]
               /\ d = c => p[d][Len(q[d]) + 1] = e
<1>1. q[c] \in Seq(Emitter) /\ q[d] \in Seq(Emitter) /\ Len(q[d]) \in Nat
  OBVIOUS
<1>2. CASE d = c
  BY <1>1, <1>2
<1>3. CASE d # c
  BY <1>1, <1>3
<1>4. QED
  BY <1>2, <1>3

\* The broadcast at the next index, with the clients of f failed.
LEMMA Advanced ==
    ASSUME NEW r \in Broadcasts, NEW f \in SUBSET Conn
    PROVE  LET b == [r EXCEPT !.pos = @ + 1, !.dead = @ \union f]
           IN  /\ b \in Broadcasts /\ b.pos = r.pos + 1 /\ b.sent = r.sent
               /\ b.dead = r.dead \union f /\ b.message = r.message
<1> DEFINE b == [r EXCEPT !.pos = @ + 1, !.dead = @ \union f]
<1>1. r.pos + 1 \in Nat \ {0} /\ r.dead \union f \in SUBSET Conn
  BY DEF Broadcasts
<1>2. b \in Broadcasts
  BY <1>1 DEF Broadcasts
<1>3. b.pos = r.pos + 1 /\ b.sent = r.sent /\ b.dead = r.dead \union f /\ b.message = r.message
  BY DEF Broadcasts
<1>4. QED
  BY <1>2, <1>3

\* The broadcast after a send to c.
LEMMA SentTo ==
    ASSUME NEW r \in Broadcasts, NEW c \in Conn
    PROVE  LET b == [r EXCEPT !.sent = @ \union {c}]
           IN  /\ b \in Broadcasts /\ b.pos = r.pos /\ b.sent = r.sent \union {c}
               /\ b.dead = r.dead /\ b.message = r.message /\ b # None
BY MonitorAssumption DEF Broadcasts

\* What e needs before it goes on with broadcast b, the coroutines of others being
\* suspended: it is not suspended itself, and the clients ahead have not been written to.
Ready(e, b, others) ==
    /\ b \in Broadcasts /\ others \in [Conn -> Seq(Emitter)]
    /\ \A c \in Conn : \A i \in 1..Len(others[c]) :
          /\ others[c][i] # e
          /\ bc[others[c][i]] # None /\ c \in bc[others[c][i]].sent
    /\ \A c, d \in Conn : \A i \in 1..Len(others[c]), j \in 1..Len(others[d]) :
          others[c][i] = others[d][j] => c = d /\ i = j
    /\ b.dead \subseteq b.sent /\ \A c \in b.dead : ~up[c]
    /\ \A i \in b.pos..Len(active) : active[i] \notin b.sent

\* A broadcast that starts is ready.
LEMMA ReadyBroadcast ==
    ASSUME ListInv, NEW e \in Emitter, bc[e] = None, NEW m \in Messages \union {None}
    PROVE  Ready(e, [message |-> m, pos |-> 1, sent |-> {}, dead |-> {}], waiting)
<1> DEFINE b == [message |-> m, pos |-> 1, sent |-> {}, dead |-> {}]
<1>1. b \in Broadcasts
  BY DEF Broadcasts
<1>2. waiting \in [Conn -> Seq(Emitter)]
  BY DEF ListInv, ManagerTypes
<1>3. QED
  BY <1>1, <1>2 DEF Ready, ListInv, WaitInv

\* A broadcast that goes on is ready.
LEMMA ReadyResume ==
    ASSUME ListInv, NEW c \in Conn, waiting[c] # <<>>,
           NEW f \in (IF up[c] THEN {{}} ELSE {{}, {c}})
    PROVE  LET e == Head(waiting[c])
           IN  /\ e \in Emitter /\ bc[e] \in Broadcasts
               /\ Ready(e, [bc[e] EXCEPT !.pos = @ + 1, !.dead = @ \union f],
                        [waiting EXCEPT ![c] = Tail(@)])
<1> DEFINE w == waiting[c]
           e == Head(w)
           b == [bc[e] EXCEPT !.pos = @ + 1, !.dead = @ \union f]
           others == [waiting EXCEPT ![c] = Tail(@)]
<1>1. waiting \in [Conn -> Seq(Emitter)] /\ w \in Seq(Emitter) /\ Len(w) \in Nat
  BY DEF ListInv, ManagerTypes
<1>2. /\ e = w[1] /\ e \in Emitter /\ 1 \in 1..Len(w)
      /\ Tail(w) \in Seq(Emitter) /\ Len(Tail(w)) = Len(w) - 1
      /\ \A i \in 1..Len(Tail(w)) : Tail(w)[i] = w[i + 1] /\ i + 1 \in 1..Len(w)
  BY <1>1
<1>3. bc[e] # None /\ c \in bc[e].sent
  BY <1>2 DEF ListInv, WaitInv
<1>4. bc[e] \in Broadcasts
  BY <1>2, <1>3 DEF ListInv, ManagerTypes
<1>5. f \in SUBSET {c} /\ (c \in f => ~up[c])
  OBVIOUS
<1>6. /\ bc[e].dead \subseteq bc[e].sent /\ \A d \in bc[e].dead : ~up[d]
      /\ \A i \in (bc[e].pos + 1)..Len(active) : active[i] \notin bc[e].sent
  BY <1>2, <1>3 DEF ListInv, DeadInv, NeverTwice
<1>7. /\ b.pos = bc[e].pos + 1 /\ b.sent = bc[e].sent /\ b.dead = bc[e].dead \union f
      /\ b \in Broadcasts
  <2>1. f \in SUBSET Conn
    BY <1>5
  <2>2. QED
    BY <1>4, <2>1, Advanced
<1>8. /\ others \in [Conn -> Seq(Emitter)] /\ others[c] = Tail(w)
      /\ \A d \in Conn \ {c} : others[d] = waiting[d]
  BY <1>1, <1>2
<1> HIDE DEF e, b, others
<1>9. ASSUME NEW d \in Conn, NEW i \in 1..Len(others[d])
      PROVE  /\ others[d][i] # e
             /\ bc[others[d][i]] # None /\ d \in bc[others[d][i]].sent
  <2> DEFINE k == IF d = c THEN i + 1 ELSE i
  <2>1. k \in 1..Len(waiting[d]) /\ others[d][i] = waiting[d][k]
    BY <1>1, Popped DEF others
  <2>2. d = c => k # 1
    OBVIOUS
  <2> HIDE DEF k
  <2>3. waiting[d][k] # waiting[c][1]
    BY <1>2, <2>1, <2>2 DEF ListInv, WaitInv
  <2>4. bc[waiting[d][k]] # None /\ d \in bc[waiting[d][k]].sent
    BY <2>1 DEF ListInv, WaitInv
  <2>5. QED
    BY <1>2, <2>1, <2>3, <2>4
<1>10. ASSUME NEW d \in Conn, NEW d2 \in Conn, NEW i \in 1..Len(others[d]),
              NEW j \in 1..Len(others[d2]), others[d][i] = others[d2][j]
       PROVE  d = d2 /\ i = j
  <2> DEFINE k == IF d = c THEN i + 1 ELSE i
             l == IF d2 = c THEN j + 1 ELSE j
  <2>1. k \in 1..Len(waiting[d]) /\ others[d][i] = waiting[d][k]
    BY <1>1, Popped DEF others
  <2>2. l \in 1..Len(waiting[d2]) /\ others[d2][j] = waiting[d2][l]
    BY <1>1, Popped DEF others
  <2>3. d = d2 /\ k = l
    <3> HIDE DEF k, l
    <3>1. waiting[d][k] = waiting[d2][l]
      BY <1>10, <2>1, <2>2, Zenon
    <3>2. WaitInv
      BY DEF ListInv
    <3>3. \A x \in 1..Len(waiting[d]), y \in 1..Len(waiting[d2]) :
            waiting[d][x] = waiting[d2][y] => d = d2 /\ x = y
      BY <3>2, Zenon DEF WaitInv
    <3>4. QED
      BY <2>1, <2>2, <3>1, <3>3, Zenon
  <2>4. QED
    BY <2>3
<1>11. Ready(e, b, others)
  BY <1>3, <1>5, <1>6, <1>7, <1>8, <1>9, <1>10 DEF Ready
<1>12. QED
  BY <1>2, <1>4, <1>11 DEF e, b, others

\* What leaving does to the list.
LEMMA LeaveFacts ==
    ASSUME ListInv, NEW S, NEW x, NEW z, Leave(S, x, z)
    PROVE  /\ active' \in Seq(Conn) /\ Distinct(active')
           /\ Len(active) \in Nat /\ Len(active') \in Nat
           /\ \A i \in 1..Len(active') : \E j \in i..Len(active) :
                active'[i] = active[j] /\ active[j] \notin S
           /\ \A j \in 1..Len(active) :
                active[j] \in S \/ \E i \in 1..Len(active') : active'[i] = active[j]
<1>1. active \in Seq(Conn) /\ Distinct(active) /\ active' = Without(active, S)
  BY DEF ListInv, ManagerTypes, Leave
<1>2. LeftOf(active', active, S, Len(active)) /\ Distinct(active')
  BY <1>1, WithoutFacts
<1>3. QED
  BY <1>1, <1>2 DEF LeftOf

\* Those that are connected stay listed if only clients that are broken leave.
LEMMA LeaveKeeps ==
    ASSUME ListInv, NEW S, NEW x, NEW z, Leave(S, x, z), up' = up, \A c \in S : ~up[c]
    PROVE  UpIsListed'
<1>1. \A j \in 1..Len(active) :
        active[j] \in S \/ \E i \in 1..Len(active') : active'[i] = active[j]
  BY LeaveFacts
<1>2. QED
  BY <1>1 DEF ListInv, UpIsListed

\* What broadcast b has not been sent to is still ahead of it after a Leave.
LEMMA LeaveAhead ==
    ASSUME ListInv, NEW S, NEW x, NEW z, Leave(S, x, z), NEW p \in Nat, NEW sent,
           \A i \in (p + 1)..Len(active) : active[i] \notin sent
    PROVE  \A i \in (p + 1)..Len(active') : active'[i] \notin sent
<1> SUFFICES ASSUME NEW i \in (p + 1)..Len(active') PROVE active'[i] \notin sent
  OBVIOUS
<1>1. Len(active) \in Nat /\ Len(active') \in Nat
  BY LeaveFacts
<1>2. i \in 1..Len(active')
  BY <1>1
<1>3. PICK j \in i..Len(active) : active'[i] = active[j]
  BY <1>2, LeaveFacts
<1>4. j \in (p + 1)..Len(active)
  BY <1>1, <1>3
<1>5. QED
  BY <1>3, <1>4

\* A send, or the end of a broadcast, keeps the list and the broadcasts in order.
LEMMA SendKeeps ==
    ASSUME ListInv, NEW e \in Emitter, NEW b, NEW others, NEW before, Ready(e, b, others),
           Send(e, b, others, before), UNCHANGED <<up, endpoint, hello>>
    PROVE  ListInv'
<1>0. /\ ManagerTypes /\ Distinct(active) /\ WaitInv /\ DeadInv /\ UpIsListed /\ NeverTwice
      /\ UpIsWatched
      /\ bc \in [Emitter -> Broadcasts \union {None}] /\ active \in Seq(Conn) /\ Len(active) \in Nat
  BY DEF ListInv, ManagerTypes
<1>1. /\ b \in Broadcasts /\ others \in [Conn -> Seq(Emitter)]
      /\ b.message \in Messages \union {None} /\ b.pos \in Nat \ {0}
  BY DEF Ready, Broadcasts
<1>2. CASE b.pos <= Len(active)
  <2> DEFINE c == active[b.pos]
             r == [b EXCEPT !.sent = @ \union {c}]
  <2>1. c \in Conn /\ b.pos \in 1..Len(active)
    BY <1>0, <1>1, <1>2
  <2>2. /\ r \in Broadcasts /\ r.pos = b.pos /\ r.sent = b.sent \union {c}
        /\ r.dead = b.dead /\ r.message = b.message /\ r # None
    BY <1>1, <2>1, SentTo
  <2>3. /\ bc' = [bc EXCEPT ![e] = r]
        /\ chan' = Written(c, b.message)
        /\ waiting' = [others EXCEPT ![c] = Append(@, e)]
        /\ active' = active
    BY <1>2 DEF Send
  <2> HIDE DEF c, r
  <2>4. /\ bc'[e] = r /\ \A x \in Emitter \ {e} : bc'[x] = bc[x]
        /\ bc' \in [Emitter -> Broadcasts \union {None}]
    BY <1>0, <2>2, <2>3
  <2>5. chan' \in [Conn -> Seq(Messages)]
    <3>1. chan \in [Conn -> Seq(Messages)] /\ chan[c] \in Seq(Messages)
      BY <1>0, <2>1 DEF ManagerTypes
    <3>2. b.message # None => Append(chan[c], b.message) \in Seq(Messages)
      BY <1>1, <3>1
    <3>3. QED
      BY <2>3, <3>1, <3>2 DEF Written
  <2>6. /\ waiting' \in [Conn -> Seq(Emitter)]
        /\ \A d \in Conn :
             /\ Len(others[d]) \in Nat
             /\ Len(waiting'[d]) = Len(others[d]) + (IF d = c THEN 1 ELSE 0)
             /\ \A i \in 1..Len(others[d]) : waiting'[d][i] = others[d][i]
             /\ d = c => waiting'[d][Len(others[d]) + 1] = e
    BY <1>1, <2>1, <2>3, Pushed
  <2>7. ManagerTypes'
    BY <1>0, <2>3, <2>4, <2>5, <2>6 DEF ManagerTypes
  <2>8. ASSUME NEW d \in Conn, NEW i \in 1..Len(waiting'[d])
        PROVE  \/ i \in 1..Len(others[d]) /\ waiting'[d][i] = others[d][i]
               \/ d = c /\ i = Len(others[d]) + 1 /\ waiting'[d][i] = e
    <3>1. /\ Len(others[d]) \in Nat
          /\ Len(waiting'[d]) = Len(others[d]) + (IF d = c THEN 1 ELSE 0)
          /\ \A k \in 1..Len(others[d]) : waiting'[d][k] = others[d][k]
          /\ d = c => waiting'[d][Len(others[d]) + 1] = e
      BY <2>6
    <3>2. i \in 1..Len(others[d]) \/ (d = c /\ i = Len(others[d]) + 1)
      <4>1. CASE d = c
        <5>1. Len(waiting'[d]) = Len(others[d]) + 1
          BY <3>1, <4>1
        <5>2. QED
          BY <3>1, <4>1, <5>1
      <4>2. CASE d # c
        <5>1. Len(waiting'[d]) = Len(others[d])
          BY <3>1, <4>2
        <5>2. QED
          BY <5>1
      <4>3. QED
        BY <4>1, <4>2
    <3>3. QED
      BY <3>1, <3>2
  <2>9. WaitInv'
    <3>1. ASSUME NEW d \in Conn, NEW i \in 1..Len(waiting'[d])
          PROVE  bc'[waiting'[d][i]] # None /\ d \in bc'[waiting'[d][i]].sent
      <4>1. CASE i \in 1..Len(others[d]) /\ waiting'[d][i] = others[d][i]
        <5>1. /\ others[d][i] # e /\ bc[others[d][i]] # None
              /\ d \in bc[others[d][i]].sent
          BY <4>1 DEF Ready
        <5>2. others[d][i] \in Emitter
          BY <1>1, <4>1
        <5>3. QED
          BY <2>4, <4>1, <5>1, <5>2
      <4>2. CASE d = c /\ waiting'[d][i] = e
        BY <2>2, <2>4, <4>2
      <4>3. QED
        BY <2>8, <4>1, <4>2
    <3>2. ASSUME NEW d \in Conn, NEW d2 \in Conn, NEW i \in 1..Len(waiting'[d]),
                 NEW j \in 1..Len(waiting'[d2]), waiting'[d][i] = waiting'[d2][j]
          PROVE  d = d2 /\ i = j
      <4>1. \A y \in Conn : \A k \in 1..Len(others[y]) : others[y][k] # e
        BY DEF Ready
      <4>2. \A k \in 1..Len(others[d]), l \in 1..Len(others[d2]) :
              others[d][k] = others[d2][l] => d = d2 /\ k = l
        BY DEF Ready
      <4>3. QED
        BY <2>8, <3>2, <4>1, <4>2
    <3>3. QED
      BY <3>1, <3>2 DEF WaitInv
  <2>10. DeadInv'
    <3>1. b.dead \subseteq b.sent /\ \A d \in b.dead : ~up[d]
      BY DEF Ready
    <3>2. QED
      BY <1>0, <2>2, <2>4, <3>1 DEF DeadInv
  <2>11. NeverTwice'
    <3>1. \A i \in (b.pos + 1)..Len(active) : active[i] \notin r.sent
      <4>1. \A i \in (b.pos + 1)..Len(active) : i \in b.pos..Len(active) /\ i \in 1..Len(active) /\ i # b.pos
        BY <1>0, <1>1
      <4>2. \A i \in b.pos..Len(active) : active[i] \notin b.sent
        BY DEF Ready
      <4>3. \A i \in 1..Len(active) : active[i] = active[b.pos] => i = b.pos
        BY <1>0, <2>1 DEF Distinct
      <4>4. QED
        BY <2>2, <4>1, <4>2, <4>3 DEF c
    <3>2. QED
      BY <1>0, <2>2, <2>3, <2>4, <3>1 DEF NeverTwice
  <2>12. QED
    BY <1>0, <2>3, <2>7, <2>9, <2>10, <2>11 DEF ListInv, UpIsListed, UpIsWatched
<1>3. CASE ~ (b.pos <= Len(active))
  <2>1. /\ bc' = [bc EXCEPT ![e] = None] /\ Leave(b.dead, Emitter \ {e}, before)
        /\ waiting' = others /\ chan' = chan
    BY <1>3 DEF Send
  <2>2. /\ bc'[e] = None /\ \A x \in Emitter \ {e} : bc'[x] = bc[x]
        /\ bc' \in [Emitter -> Broadcasts \union {None}]
    BY <1>0, <2>1
  <2>3. active' \in Seq(Conn) /\ Distinct(active')
    BY <2>1, LeaveFacts
  <2>4. ManagerTypes'
    BY <1>0, <1>1, <2>1, <2>2, <2>3 DEF ManagerTypes
  <2>5. UpIsListed' /\ UpIsWatched'
    BY <1>0, <2>1, LeaveKeeps DEF Ready, UpIsWatched
  <2>6. WaitInv'
    <3>1. ASSUME NEW d \in Conn, NEW i \in 1..Len(others[d])
          PROVE  bc'[others[d][i]] # None /\ d \in bc'[others[d][i]].sent
      <4>1. others[d][i] # e /\ bc[others[d][i]] # None /\ d \in bc[others[d][i]].sent
        BY DEF Ready
      <4>2. others[d][i] \in Emitter
        BY <1>1
      <4>3. QED
        BY <2>2, <4>1, <4>2
    <3>2. \A c, d \in Conn : \A i \in 1..Len(others[c]), j \in 1..Len(others[d]) :
            others[c][i] = others[d][j] => c = d /\ i = j
      BY DEF Ready
    <3>3. QED
      BY <2>1, <3>1, <3>2 DEF WaitInv
  <2>7. DeadInv'
    BY <1>0, <2>2 DEF DeadInv
  <2>8. NeverTwice'
    <3> SUFFICES ASSUME NEW x \in Emitter, bc'[x] # None
                 PROVE  \A i \in (bc'[x].pos + 1)..Len(active') : active'[i] \notin bc'[x].sent
      BY DEF NeverTwice
    <3>1. x # e /\ bc'[x] = bc[x] /\ bc[x] # None
      BY <2>2
    <3>2. bc[x].pos \in Nat
      BY <1>0, <3>1 DEF Broadcasts
    <3>3. \A i \in (bc[x].pos + 1)..Len(active) : active[i] \notin bc[x].sent
      BY <1>0, <3>1 DEF NeverTwice
    <3>4. \A i \in (bc[x].pos + 1)..Len(active') : active'[i] \notin bc[x].sent
      BY <2>1, <3>2, <3>3, LeaveAhead
    <3>5. QED
      BY <3>1, <3>4
  <2>9. QED
    BY <2>3, <2>4, <2>5, <2>6, <2>7, <2>8 DEF ListInv
<1>4. QED
  BY <1>2, <1>3

\* Every step keeps ListInv.
LEMMA ListStep == StatusInv /\ ListInv /\ [Next]_vars => ListInv'
<1> SUFFICES ASSUME StatusInv, ListInv, [Next]_vars PROVE ListInv'
  OBVIOUS
<1>0. /\ ManagerTypes /\ Distinct(active) /\ WaitInv /\ DeadInv /\ UpIsListed /\ NeverTwice
      /\ UpIsWatched
      /\ active \in Seq(Conn) /\ Len(active) \in Nat
      /\ bc \in [Emitter -> Broadcasts \union {None}]
  BY DEF ListInv, ManagerTypes
<1>1. ASSUME NEW e \in Emitter, NEW m \in Messages \union {None}, Broadcast(e, m) PROVE ListInv'
  BY <1>1, ReadyBroadcast, SendKeeps DEF Broadcast
<1>2. CASE Emissions
  <2>1. ASSUME NEW e \in Emitter, EmitTaskUpdate(e) PROVE ListInv'
    <3>1. PICK t \in Task : Broadcast(e, Message("task_update", [u \in {t} |-> store[t]]))
      BY <2>1 DEF EmitTaskUpdate
    <3>2. Message("task_update", [u \in {t} |-> store[t]]) \in Messages
      BY DEF StatusInv, Message, Messages
    <3>3. QED
      BY <1>1, <3>1, <3>2
  <2>2. CASE UNCHANGED managerVars
    BY <1>0, <2>2
       DEF managerVars, ListInv, ManagerTypes, WaitInv, DeadInv, UpIsListed, NeverTwice, UpIsWatched
  <2>3. Loop \in Emitter
    BY MonitorAssumption
  <2>4. QED
    BY <1>1, <1>2, <2>1, <2>2, <2>3 DEF Emissions, UpdateSilently, Emit, EmitMetrics, EmitWorkerUpdate
<1>3. ASSUME NEW c \in Conn, Resume(c) PROVE ListInv'
  <2>1. PICK f \in (IF up[c] THEN {{}} ELSE {{}, {c}}) :
          Send(Head(waiting[c]), [bc[Head(waiting[c])] EXCEPT !.pos = @ + 1, !.dead = @ \union f],
               [waiting EXCEPT ![c] = Tail(@)], disturbed)
    BY <1>3 DEF Resume
  <2>2. waiting[c] # <<>> /\ UNCHANGED <<up, endpoint, hello>>
    BY <1>3 DEF Resume
  <2>3. QED
    BY <2>1, <2>2, ReadyResume, SendKeeps
<1>4. ASSUME NEW c \in Conn, Greet(c) PROVE ListInv'
  <2>1. /\ chan' = Written(c, hello[c]) /\ hello' = [hello EXCEPT ![c] = None]
        /\ endpoint' = [endpoint EXCEPT ![c] = "receiving"]
        /\ UNCHANGED <<active, up, waiting, bc>>
    BY <1>4 DEF Greet
  <2>2. chan' \in [Conn -> Seq(Messages)]
    <3>1. chan \in [Conn -> Seq(Messages)] /\ chan[c] \in Seq(Messages)
          /\ hello[c] \in Messages \union {None}
      BY <1>0 DEF ManagerTypes
    <3>2. hello[c] # None => Append(chan[c], hello[c]) \in Seq(Messages)
      BY <3>1
    <3>3. QED
      BY <2>1, <3>1, <3>2 DEF Written
  <2>3. ManagerTypes'
    BY <1>0, <2>1, <2>2 DEF ManagerTypes
  <2>4. UpIsWatched'
    BY <1>0, <2>1 DEF UpIsWatched, ManagerTypes
  <2>5. QED
    BY <1>0, <2>1, <2>3, <2>4 DEF ListInv, WaitInv, DeadInv, UpIsListed, NeverTwice
<1>5. ASSUME NEW c \in Conn, EndpointEnds(c) PROVE ListInv'
  <2>1. /\ ~up[c] /\ Leave({c}, Emitter, disturbed) /\ hello' = [hello EXCEPT ![c] = None]
        /\ endpoint' = [endpoint EXCEPT ![c] = "none"]
        /\ UNCHANGED <<up, chan, waiting, bc>>
    BY <1>5 DEF EndpointEnds
  <2>2. active' \in Seq(Conn) /\ Distinct(active')
    BY <2>1, LeaveFacts
  <2>3. ManagerTypes'
    BY <1>0, <2>1, <2>2 DEF ManagerTypes
  <2>4. UpIsWatched'
    BY <1>0, <2>1 DEF ManagerTypes, UpIsWatched
  <2>5. UpIsListed'
    BY <2>1, LeaveKeeps
  <2>6. NeverTwice'
    <3> SUFFICES ASSUME NEW x \in Emitter, bc[x] # None
                 PROVE  \A i \in (bc[x].pos + 1)..Len(active') : active'[i] \notin bc[x].sent
      BY <2>1 DEF NeverTwice
    <3>1. bc[x].pos \in Nat
      BY <1>0 DEF Broadcasts
    <3>2. \A i \in (bc[x].pos + 1)..Len(active) : active[i] \notin bc[x].sent
      BY <1>0 DEF NeverTwice
    <3>3. QED
      BY <2>1, <3>1, <3>2, LeaveAhead
  <2>7. QED
    BY <1>0, <2>1, <2>2, <2>3, <2>4, <2>5, <2>6 DEF ListInv, WaitInv, DeadInv
<1>6. ASSUME NEW c \in Conn, Break(c) \/ EndpointFails(c) PROVE ListInv'
  <2>1. /\ up' = [up EXCEPT ![c] = FALSE] /\ chan' = [chan EXCEPT ![c] = <<>>]
        /\ UNCHANGED <<active, hello, waiting, bc>>
        /\ endpoint' = endpoint \/ endpoint' = [endpoint EXCEPT ![c] = "none"]
    BY <1>6 DEF Break, EndpointFails
  <2>2. /\ ManagerTypes' /\ \A d \in Conn : up'[d] => up[d]
    BY <1>0, <2>1 DEF ManagerTypes
  <2>3. DeadInv'
    <3>1. \A e \in Emitter : bc[e] # None => bc[e].dead \subseteq Conn
      BY <1>0 DEF Broadcasts
    <3>2. QED
      BY <1>0, <2>1, <2>2, <3>1 DEF DeadInv
  <2>4. UpIsWatched'
    BY <1>0, <2>1 DEF ManagerTypes, UpIsWatched
  <2>5. QED
    BY <1>0, <2>1, <2>2, <2>3, <2>4 DEF ListInv, WaitInv, UpIsListed, NeverTwice
<1>7. ASSUME NEW c \in Conn, Join(c) PROVE ListInv'
  <2>1. /\ ~up[c] /\ Forgotten(c) /\ up' = [up EXCEPT ![c] = TRUE]
        /\ active' = Append(active, c)
        /\ endpoint' = [endpoint EXCEPT ![c] = "greeting"]
        /\ hello' = [hello EXCEPT ![c] = Message("initial_state", store)]
        /\ UNCHANGED <<chan, waiting, bc>>
    BY <1>7 DEF Join, Accept, Joined
  <2>2. Message("initial_state", store) \in Messages
    BY DEF StatusInv, Message, Messages
  <2>3. /\ active' \in Seq(Conn) /\ Len(active') = Len(active) + 1
        /\ \A i \in 1..Len(active) : active'[i] = active[i]
        /\ active'[Len(active) + 1] = c
    BY <1>0, <2>1
  <2>4. ManagerTypes'
    BY <1>0, <2>1, <2>2, <2>3 DEF ManagerTypes
  <2>5. \A i \in 1..Len(active) : active[i] # c
    BY <2>1 DEF Forgotten
  <2>6. \A i \in 1..Len(active') : i \in 1..Len(active) \/ i = Len(active) + 1
    BY <1>0, <2>3
  <2>7. Distinct(active')
    BY <1>0, <2>3, <2>5, <2>6 DEF Distinct
  <2>8. UpIsListed'
    <3> SUFFICES ASSUME NEW d \in Conn, up'[d] PROVE \E i \in 1..Len(active') : active'[i] = d
      BY DEF UpIsListed
    <3>1. CASE d = c
      <4>1. Len(active) + 1 \in 1..Len(active')
        BY <1>0, <2>3
      <4>2. QED
        BY <2>3, <3>1, <4>1
    <3>2. CASE d # c
      <4>1. up[d]
        BY <1>0, <2>1, <3>2 DEF ManagerTypes
      <4>2. PICK i \in 1..Len(active) : active[i] = d
        BY <1>0, <4>1 DEF UpIsListed
      <4>3. i \in 1..Len(active')
        BY <1>0, <2>3
      <4>4. QED
        BY <2>3, <4>2, <4>3
    <3>3. QED
      BY <3>1, <3>2
  <2>9. UpIsWatched'
    BY <1>0, <2>1 DEF ManagerTypes, UpIsWatched
  <2>10. \A e \in Emitter : bc[e] # None => c \notin bc[e].sent
    BY <2>1 DEF Forgotten
  <2>11. DeadInv'
    <3> SUFFICES ASSUME NEW e \in Emitter, bc[e] # None
                 PROVE  bc[e].dead \subseteq bc[e].sent /\ \A d \in bc[e].dead : ~up'[d]
      BY <2>1 DEF DeadInv
    <3>1. /\ bc[e].dead \subseteq bc[e].sent /\ \A d \in bc[e].dead : ~up[d]
          /\ bc[e].dead \subseteq Conn
      BY <1>0 DEF DeadInv, Broadcasts
    <3>2. QED
      BY <1>0, <2>1, <2>10, <3>1 DEF ManagerTypes
  <2>12. NeverTwice'
    <3> SUFFICES ASSUME NEW e \in Emitter, bc[e] # None, NEW i \in (bc[e].pos + 1)..Len(active')
                 PROVE  active'[i] \notin bc[e].sent
      BY <2>1 DEF NeverTwice
    <3>1. bc[e].pos \in Nat
      BY <1>0 DEF Broadcasts
    <3>2. i \in (bc[e].pos + 1)..Len(active) \/ i = Len(active) + 1
      BY <1>0, <2>3, <3>1
    <3>3. CASE i \in (bc[e].pos + 1)..Len(active)
      <4>1. i \in 1..Len(active)
        BY <3>1, <3>3
      <4>2. QED
        BY <1>0, <2>3, <3>3, <4>1 DEF NeverTwice
    <3>4. CASE i = Len(active) + 1
      BY <2>3, <2>10, <3>4
    <3>5. QED
      BY <3>2, <3>3, <3>4
  <2>13. QED
    BY <1>0, <2>1, <2>4, <2>7, <2>8, <2>9, <2>11, <2>12 DEF ListInv, WaitInv
<1>8. ASSUME NEW c \in Conn, HandleMessage(c) PROVE ListInv'
  <2>1. /\ chan[c] # <<>> /\ chan' = [chan EXCEPT ![c] = Tail(@)]
        /\ UNCHANGED <<active, up, endpoint, hello, waiting, bc>>
    BY <1>8 DEF HandleMessage
  <2>2. chan' \in [Conn -> Seq(Messages)]
    <3>1. chan \in [Conn -> Seq(Messages)] /\ Tail(chan[c]) \in Seq(Messages)
      BY <1>0, <2>1 DEF ManagerTypes
    <3>2. QED
      BY <2>1, <3>1
  <2>3. ManagerTypes'
    BY <1>0, <2>1, <2>2 DEF ManagerTypes
  <2>4. QED
    BY <1>0, <2>1, <2>3 DEF ListInv, WaitInv, DeadInv, UpIsListed, NeverTwice, UpIsWatched
<1>9. CASE UNCHANGED vars
  BY <1>0, <1>9
     DEF vars, managerVars, ListInv, ManagerTypes, WaitInv, DeadInv, UpIsListed, NeverTwice, UpIsWatched
<1>10. QED
  BY <1>2, <1>3, <1>4, <1>5, <1>6, <1>7, <1>8, <1>9 DEF Next, Serve

\* The feed starts with both.
LEMMA FeedInit == Init => StatusInv /\ ListInv
<1> SUFFICES ASSUME Init PROVE StatusInv /\ ListInv
  OBVIOUS
<1>1. StatusInv
  BY DEF Init, MonitorInit, StatusInv
<1>2. ManagerTypes
  BY DEF Init, ManagerInit, ManagerTypes
<1>3. active = <<>> /\ Len(active) = 0 /\ ToSet(active) = {}
  BY DEF Init, ManagerInit, ToSet
<1>4. Distinct(active) /\ UpIsListed /\ UpIsWatched
  BY <1>3 DEF Init, ManagerInit, Distinct, UpIsListed, UpIsWatched
<1>5. WaitInv /\ DeadInv /\ NeverTwice
  BY DEF Init, ManagerInit, WaitInv, DeadInv, NeverTwice
<1>6. QED
  BY <1>1, <1>2, <1>4, <1>5 DEF ListInv

\* Both always hold.
LEMMA FeedInvariant == Spec => [](StatusInv /\ ListInv)
BY FeedInit, StatusStep, ListStep, PTL DEF Spec

\* A broadcast sends nothing twice to a client, however the list it walks over changes
\* under it (broadcast iterates over _active_connections itself).
THEOREM NeverTwiceHolds == Spec => []NeverTwice
<1>1. ListInv => NeverTwice
  BY DEF ListInv
<1>2. QED
  BY <1>1, FeedInvariant, PTL

\* Every client that is connected is listed, whichever of the broadcasts and endpoints
\* takes clients off the list, and how long ever after their sends failed.
THEOREM ConnectedIsListedHolds == Spec => []ConnectedIsListed
<1>1. ListInv => ConnectedIsListed
  <2> SUFFICES ASSUME ListInv, NEW c \in Conn, up[c] PROVE c \in ToSet(active)
    BY DEF ConnectedIsListed
  <2>1. active \in Seq(Conn) /\ \E i \in 1..Len(active) : active[i] = c
    BY DEF ListInv, ManagerTypes, UpIsListed
  <2>2. QED
    BY <2>1 DEF ToSet
<1>2. QED
  BY <1>1, FeedInvariant, PTL

-----------------------------------------------------------------------------
(* Catching up *)

\* Message m sets task t.
Sets(m, t) == m # None /\ t \in DOMAIN m.tasks

\* The last that a client is to hear of t is no older than status a: it shows the tasks v
\* and has the messages q to handle.  The 0th message is what it shows.
FreshIn(q, v, t, a) ==
    \E i \in 0..Len(q) :
        LET tasks == IF i = 0 THEN v ELSE q[i].tasks
        IN  /\ t \in DOMAIN tasks /\ tasks[t] >= a
            /\ \A j \in (i + 1)..Len(q) : t \notin DOMAIN q[j].tasks

\* A message about other tasks changes nothing.
LEMMA FreshSkip ==
    ASSUME NEW q \in Seq(Messages), NEW m \in Messages, NEW v, NEW t, NEW a,
           t \notin DOMAIN m.tasks, FreshIn(q, v, t, a)
    PROVE  FreshIn(Append(q, m), v, t, a)
<1> DEFINE u == Append(q, m)
<1>1. /\ Len(q) \in Nat /\ Len(u) = Len(q) + 1 /\ u[Len(q) + 1] = m
      /\ \A i \in 1..Len(q) : u[i] = q[i]
  OBVIOUS
<1>2. PICK i \in 0..Len(q) :
        LET tasks == IF i = 0 THEN v ELSE q[i].tasks
        IN  /\ t \in DOMAIN tasks /\ tasks[t] >= a
            /\ \A j \in (i + 1)..Len(q) : t \notin DOMAIN q[j].tasks
  BY DEF FreshIn
<1> HIDE DEF u
<1>3. i \in 0..Len(u) /\ (i # 0 => u[i] = q[i])
  BY <1>1, <1>2
<1>4. ASSUME NEW j \in (i + 1)..Len(u) PROVE t \notin DOMAIN u[j].tasks
  <2>1. CASE j = Len(q) + 1
    BY <1>1, <2>1
  <2>2. CASE j # Len(q) + 1
    <3>1. j \in (i + 1)..Len(q) /\ j \in 1..Len(q)
      BY <1>1, <1>2, <2>2
    <3>2. QED
      BY <1>1, <1>2, <3>1
  <2>3. QED
    BY <2>1, <2>2
<1>5. FreshIn(u, v, t, a)
  BY <1>2, <1>3, <1>4 DEF FreshIn
<1>6. QED
  BY <1>5 DEF u

\* A message that sets t to a, or to a later status, is the last one.
LEMMA FreshNew ==
    ASSUME NEW q \in Seq(Messages), NEW m \in Messages, NEW v, NEW t, NEW a,
           t \in DOMAIN m.tasks, m.tasks[t] >= a
    PROVE  FreshIn(Append(q, m), v, t, a)
<1> DEFINE u == Append(q, m)
<1>1. Len(q) \in Nat /\ Len(u) = Len(q) + 1 /\ u[Len(u)] = m /\ Len(u) # 0
  OBVIOUS
<1> HIDE DEF u
<1>2. Len(u) \in 0..Len(u) /\ \A j \in (Len(u) + 1)..Len(u) : t \notin DOMAIN u[j].tasks
  BY <1>1
<1>3. FreshIn(u, v, t, a)
  BY <1>1, <1>2 DEF FreshIn
<1>4. QED
  BY <1>3 DEF u

\* To handle a message is to show what was to be heard.
LEMMA FreshHandled ==
    ASSUME NEW q \in Seq(Messages), q # <<>>, NEW v, NEW t \in Task, NEW a, FreshIn(q, v, t, a)
    PROVE  FreshIn(Tail(q), Applied(Head(q), v), t, a)
<1> DEFINE u == Tail(q)
           m == Head(q)
           s == Applied(m, v)
<1>1. /\ Len(q) \in Nat /\ Len(u) = Len(q) - 1 /\ m = q[1] /\ m \in Messages
      /\ 1 \in 1..Len(q) /\ Len(u) \in Nat
      /\ \A j \in 1..Len(u) : u[j] = q[j + 1]
  OBVIOUS
<1>2. PICK i \in 0..Len(q) :
        LET tasks == IF i = 0 THEN v ELSE q[i].tasks
        IN  /\ t \in DOMAIN tasks /\ tasks[t] >= a
            /\ \A j \in (i + 1)..Len(q) : t \notin DOMAIN q[j].tasks
  BY DEF FreshIn
<1>3. t \in DOMAIN m.tasks => t \in DOMAIN s /\ s[t] = m.tasks[t]
  BY <1>1 DEF Applied
<1>4. t \notin DOMAIN m.tasks /\ t \in DOMAIN v => t \in DOMAIN s /\ s[t] = v[t]
  <2>1. m.type = "initial_state" => DOMAIN m.tasks = Task
    BY <1>1 DEF Messages
  <2>2. QED
    BY <2>1 DEF Applied
<1> HIDE DEF u, m, s
<1>5. CASE i <= 1
  <2>1. t \in DOMAIN s /\ s[t] >= a
    <3>1. CASE i = 0
      <4>1. t \notin DOMAIN q[1].tasks
        BY <1>1, <1>2, <3>1
      <4>2. QED
        BY <1>1, <1>2, <1>4, <3>1, <4>1
    <3>2. CASE i = 1
      BY <1>1, <1>2, <1>3, <3>2
    <3>3. QED
      BY <1>5, <3>1, <3>2
  <2>2. \A j \in 1..Len(u) : t \notin DOMAIN u[j].tasks
    <3> SUFFICES ASSUME NEW j \in 1..Len(u) PROVE t \notin DOMAIN u[j].tasks
      OBVIOUS
    <3>1. j + 1 \in (i + 1)..Len(q)
      BY <1>1, <1>5
    <3>2. QED
      BY <1>1, <1>2, <3>1
  <2>3. 0 \in 0..Len(u) /\ \A j \in (0 + 1)..Len(u) : t \notin DOMAIN u[j].tasks
    BY <1>1, <2>2
  <2>4. FreshIn(u, s, t, a)
    BY <2>1, <2>3 DEF FreshIn
  <2>5. QED
    BY <2>4 DEF u, s, m
<1>6. CASE i > 1
  <2>1. i - 1 \in 0..Len(u) /\ i - 1 # 0 /\ u[i - 1] = q[i] /\ i # 0
    BY <1>1, <1>6
  <2>2. ASSUME NEW j \in ((i - 1) + 1)..Len(u) PROVE t \notin DOMAIN u[j].tasks
    <3>1. j + 1 \in (i + 1)..Len(q) /\ j \in 1..Len(u)
      BY <1>1, <1>6
    <3>2. QED
      BY <1>1, <1>2, <3>1
  <2>3. FreshIn(u, s, t, a)
    BY <1>2, <2>1, <2>2 DEF FreshIn
  <2>4. QED
    BY <2>3 DEF u, s, m
<1>7. QED
  BY <1>5, <1>6

\* Who has nothing more to handle shows it.
LEMMA FreshShown ==
    ASSUME NEW v, NEW t, NEW a, FreshIn(<<>>, v, t, a)
    PROVE  t \in DOMAIN v /\ v[t] >= a
BY DEF FreshIn

\* The broadcast of e sets t.
Carries(e, t) == bc[e] # None /\ Sets(bc[e].message, t)

LEMMA CarriesUnderWay ==
    ASSUME NEW e, NEW t
    PROVE  Carries(e, t) <=> t \in UnderWay(e)
BY DEF Carries, Sets, UnderWay, TasksOf

\* It sets t to ann[t], the status last announced.
Latest(ann, e, t) == Carries(e, t) /\ bc[e].message.tasks[t] = ann[t]

\* e is suspended, as the queues q have it, in a send to the client at its index.
InPlace(q, e) ==
    /\ bc[e].pos <= Len(active)
    /\ \E i \in 1..Len(q[active[bc[e].pos]]) : q[active[bc[e].pos]][i] = e

\* The broadcast of f comes to every client after that of e.
Behind(q, f, e) ==
    \/ bc[f].pos < bc[e].pos
    \/ /\ bc[f].pos = bc[e].pos
       /\ LET w == q[active[bc[e].pos]]
          IN  \E i, j \in 1..Len(w) : i < j /\ w[i] = e /\ w[j] = f

\* c shows t as it was last announced or later, or will when it has handled all that was
\* written to it, the initial state that waits for it included; or it was told of t before
\* its initial state.
Served(ann, c, t) ==
    \/ <<c, t>> \in overtaken
    \/ endpoint[c] = "greeting" /\ Sets(hello[c], t) /\ hello[c].tasks[t] >= ann[t]
    \/ endpoint[c] = "receiving" /\ FreshIn(chan[c], view[c], t, ann[t])

PlaceInv(t) == \A e \in Emitter : Carries(e, t) => InPlace(waiting, e)

\* Behind a broadcast of an old status of t comes one of the last.
OrderInv(t) ==
    \A e \in Emitter : Carries(e, t) /\ ~Latest(announced, e, t) =>
        \E f \in Emitter : Latest(announced, f, t) /\ Behind(waiting, f, e)

\* Every client is served, or the last announcement of t is on its way to it.
ReachInv(t) ==
    \A k \in 1..Len(active) : up[active[k]] =>
        \/ \E f \in Emitter : Latest(announced, f, t) /\ bc[f].pos < k
        \/ Served(announced, active[k], t)

InOrder(t) == PlaceInv(t) /\ OrderInv(t) /\ ReachInv(t)

CatchInv ==
    /\ DOMAIN view = Conn
    /\ \A t \in Task \ disturbed : InOrder(t)

\* Before e goes on with b, b is counted among the broadcasts in the place of e's.
InTurn(e, b, others, ann, t) ==
    /\ \A x \in Emitter \ {e} : Carries(x, t) => InPlace(others, x)
    /\ \A x \in Emitter \ {e} : Carries(x, t) /\ ~Latest(ann, x, t) =>
          \/ Sets(b.message, t) /\ b.message.tasks[t] = ann[t] /\ b.pos <= bc[x].pos
          \/ \E f \in Emitter \ {e} : Latest(ann, f, t) /\ Behind(others, f, x)
    /\ Sets(b.message, t) /\ b.message.tasks[t] # ann[t] =>
          \E f \in Emitter \ {e} : Latest(ann, f, t) /\ bc[f].pos < b.pos
    /\ \A k \in 1..Len(active) : up[active[k]] =>
          \/ \E f \in Emitter \ {e} : Latest(ann, f, t) /\ bc[f].pos < k
          \/ Sets(b.message, t) /\ b.message.tasks[t] = ann[t] /\ b.pos <= k
          \/ Served(ann, active[k], t)

\* A broadcast without tasks starts.
LEMMA TurnPlain ==
    ASSUME ListInv, NEW t \in Task, InOrder(t), NEW e \in Emitter, bc[e] = None
    PROVE  InTurn(e, [message |-> None, pos |-> 1, sent |-> {}, dead |-> {}], waiting, announced, t)
<1> DEFINE b == [message |-> None, pos |-> 1, sent |-> {}, dead |-> {}]
<1>1. ~Sets(b.message, t)
  BY DEF Sets
<1>2. \A f \in Emitter : Latest(announced, f, t) => f \in Emitter \ {e}
  BY DEF Latest, Carries
<1> HIDE DEF b
<1>3. InTurn(e, b, waiting, announced, t)
  BY <1>1, <1>2 DEF InTurn, InOrder, PlaceInv, OrderInv, ReachInv
<1>4. QED
  BY <1>3 DEF b

\* An announcement of u starts.  It takes the lead of u whatever state u was in, if the
\* announcements of u that are under way are in their places.
LEMMA TurnAnnounce ==
    ASSUME ListInv, StatusInv, NEW e \in Emitter, bc[e] = None, NEW u \in Task,
           NEW t \in Task, PlaceInv(t), t # u => InOrder(t)
    PROVE  LET m == Message("task_update", [x \in {u} |-> store[u]])
           IN  InTurn(e, [message |-> m, pos |-> 1, sent |-> {}, dead |-> {}], waiting,
                      [announced EXCEPT ![u] = store[u]], t)
<1> DEFINE m == Message("task_update", [x \in {u} |-> store[u]])
           b == [message |-> m, pos |-> 1, sent |-> {}, dead |-> {}]
           ann == [announced EXCEPT ![u] = store[u]]
<1>1. m \in Messages /\ m # None /\ DOMAIN m.tasks = {u} /\ m.tasks[u] = store[u]
  <2>1. [x \in {u} |-> store[u]] \in [{u} -> Nat]
    BY DEF StatusInv
  <2>2. m \in Messages
    BY <2>1 DEF Message, Messages
  <2>3. QED
    BY <2>2, MonitorAssumption DEF Message
<1>2. b.message = m /\ b.pos = 1
  OBVIOUS
<1>3. ann[u] = store[u] /\ (t # u => ann[t] = announced[t])
  BY DEF StatusInv
<1> HIDE DEF m, b, ann
<1>4. Sets(b.message, t) <=> t = u
  BY <1>1, <1>2 DEF Sets
<1>5. \A x \in Emitter : t # u => (Latest(ann, x, t) <=> Latest(announced, x, t))
  BY <1>3 DEF Latest
<1>6. \A f \in Emitter : Latest(announced, f, t) => f \in Emitter \ {e}
  BY DEF Latest, Carries
<1>7. \A x \in Emitter : Carries(x, t) => bc[x].pos \in Nat \ {0}
  BY DEF ListInv, ManagerTypes, Broadcasts, Carries
<1>8. ASSUME NEW x \in Emitter \ {e}, Carries(x, t), ~Latest(ann, x, t)
      PROVE  \/ Sets(b.message, t) /\ b.message.tasks[t] = ann[t] /\ b.pos <= bc[x].pos
             \/ \E f \in Emitter \ {e} : Latest(ann, f, t) /\ Behind(waiting, f, x)
  <2>1. CASE t = u
    BY <1>1, <1>2, <1>3, <1>4, <1>7, <1>8, <2>1
  <2>2. CASE t # u
    BY <1>5, <1>6, <1>8, <2>2 DEF InOrder, OrderInv
  <2>3. QED
    BY <2>1, <2>2
<1>9. ASSUME NEW k \in 1..Len(active), up[active[k]]
      PROVE  \/ \E f \in Emitter \ {e} : Latest(ann, f, t) /\ bc[f].pos < k
             \/ Sets(b.message, t) /\ b.message.tasks[t] = ann[t] /\ b.pos <= k
             \/ Served(ann, active[k], t)
  <2>1. CASE t = u
    BY <1>1, <1>2, <1>3, <1>4, <2>1
  <2>2. CASE t # u
    <3>1. Served(announced, active[k], t) => Served(ann, active[k], t)
      BY <1>3, <2>2 DEF Served
    <3>2. QED
      BY <1>5, <1>6, <1>9, <2>2, <3>1 DEF InOrder, ReachInv
  <2>3. QED
    BY <2>1, <2>2
<1>10. \A x \in Emitter \ {e} : Carries(x, t) => InPlace(waiting, x)
  BY DEF PlaceInv
<1>11. Sets(b.message, t) => b.message.tasks[t] = ann[t]
  BY <1>1, <1>2, <1>3, <1>4
<1>12. InTurn(e, b, waiting, ann, t)
  BY <1>8, <1>9, <1>10, <1>11 DEF InTurn
<1>13. QED
  BY <1>12 DEF b, ann, m

\* When the first of those suspended on c resumes, the others keep their order.
LEMMA KeptPlace ==
    ASSUME NEW q \in [Conn -> Seq(Emitter)], NEW c \in Conn, q[c] # <<>>, NEW d \in Conn,
           NEW k \in 1..Len(q[d]), d = c => k # 1
    PROVE  LET o == [q EXCEPT ![c] = Tail(@)]
               i == IF d = c THEN k - 1 ELSE k
           IN  i \in 1..Len(o[d]) /\ o[d][i] = q[d][k]
<1>1. q[c] \in Seq(Emitter) /\ q[d] \in Seq(Emitter) /\ Len(q[c]) \in Nat \ {0}
  OBVIOUS
<1>2. CASE d = c
  <2>1. [q EXCEPT ![c] = Tail(@)][d] = Tail(q[c])
    BY <1>2
  <2>2. /\ Len(Tail(q[c])) = Len(q[c]) - 1
        /\ \A j \in 1..Len(Tail(q[c])) : Tail(q[c])[j] = q[c][j + 1]
    BY <1>1
  <2>3. k - 1 \in 1..Len(Tail(q[c])) /\ (k - 1) + 1 = k
    BY <1>1, <1>2, <2>2
  <2>4. QED
    BY <1>2, <2>1, <2>2, <2>3
<1>3. CASE d # c
  BY <1>1, <1>3
<1>4. QED
  BY <1>2, <1>3

\* A broadcast goes on: the coroutine that resumes is the first of those suspended on c,
\* so nobody behind it overtakes anybody ahead of it.
LEMMA TurnResume ==
    ASSUME ListInv, NEW t \in Task, InOrder(t), NEW c \in Conn, waiting[c] # <<>>,
           NEW f0 \in (IF up[c] THEN {{}} ELSE {{}, {c}})
    PROVE  InTurn(Head(waiting[c]),
                  [bc[Head(waiting[c])] EXCEPT !.pos = @ + 1, !.dead = @ \union f0],
                  [waiting EXCEPT ![c] = Tail(@)], announced, t)
<1> DEFINE e == Head(waiting[c])
           b == [bc[e] EXCEPT !.pos = @ + 1, !.dead = @ \union f0]
           others == [waiting EXCEPT ![c] = Tail(@)]
<1>1. /\ waiting \in [Conn -> Seq(Emitter)] /\ active \in Seq(Conn) /\ WaitInv
      /\ bc \in [Emitter -> Broadcasts \union {None}]
  BY DEF ListInv, ManagerTypes
<1>2. e = waiting[c][1] /\ e \in Emitter /\ 1 \in 1..Len(waiting[c])
  BY <1>1
<1>3. bc[e] # None /\ bc[e] \in Broadcasts /\ bc[e].pos \in Nat \ {0}
  BY <1>1, <1>2 DEF WaitInv, Broadcasts
<1>4. b.pos = bc[e].pos + 1 /\ b.message = bc[e].message
  <2>1. f0 \in SUBSET Conn
    OBVIOUS
  <2>2. QED
    BY <1>3, <2>1, Advanced
<1> HIDE DEF e, b, others
<1>5. \A x \in Emitter : Carries(x, t) => bc[x].pos \in Nat \ {0}
  BY <1>1 DEF Broadcasts, Carries
<1>6. \A x \in Emitter : Carries(x, t) => bc[x].pos \in 1..Len(active) /\ active[bc[x].pos] \in Conn
  <2>1. Len(active) \in Nat
    BY <1>1
  <2>2. QED
    BY <1>1, <1>5, <2>1 DEF InOrder, PlaceInv, InPlace
\* A coroutine that waits on c at another place than the first is not e.
<1>7. ASSUME NEW d \in Conn, NEW k \in 1..Len(waiting[d]), waiting[d][k] # e
      PROVE  LET i == IF d = c THEN k - 1 ELSE k
             IN  i \in 1..Len(others[d]) /\ others[d][i] = waiting[d][k]
  <2>1. d = c => k # 1
    BY <1>2, <1>7
  <2>2. QED
    BY <1>1, <2>1, KeptPlace DEF others
<1>8. Carries(e, t) => \A k \in 1..Len(waiting[active[bc[e].pos]]) :
        waiting[active[bc[e].pos]][k] = e => active[bc[e].pos] = c /\ k = 1
  <2> SUFFICES ASSUME Carries(e, t)
               PROVE  \A k \in 1..Len(waiting[active[bc[e].pos]]) :
                        waiting[active[bc[e].pos]][k] = e => active[bc[e].pos] = c /\ k = 1
    OBVIOUS
  <2>1. active[bc[e].pos] \in Conn
    BY <1>2, <1>6
  <2>2. \A k \in 1..Len(waiting[active[bc[e].pos]]), l \in 1..Len(waiting[c]) :
          waiting[active[bc[e].pos]][k] = waiting[c][l] => active[bc[e].pos] = c /\ k = l
    BY <1>1, <2>1 DEF WaitInv
  <2>3. QED
    BY <1>2, <2>2
<1>9. ASSUME NEW x \in Emitter \ {e}, Carries(x, t) PROVE InPlace(others, x)
  <2> DEFINE d == active[bc[x].pos]
  <2>1. PICK k \in 1..Len(waiting[d]) : waiting[d][k] = x
    BY <1>9 DEF InOrder, PlaceInv, InPlace
  <2>2. d \in Conn /\ waiting[d][k] # e
    BY <1>6, <1>9, <2>1
  <2>3. bc[x].pos <= Len(active)
    BY <1>9 DEF InOrder, PlaceInv, InPlace
  <2> HIDE DEF d
  <2>4. \E i \in 1..Len(others[d]) : others[d][i] = x
    BY <1>7, <2>1, <2>2
  <2>5. QED
    BY <2>3, <2>4 DEF InPlace, d
<1>10. ASSUME NEW x \in Emitter \ {e}, Carries(x, t), ~Latest(announced, x, t)
       PROVE  \/ Sets(b.message, t) /\ b.message.tasks[t] = announced[t] /\ b.pos <= bc[x].pos
              \/ \E f \in Emitter \ {e} : Latest(announced, f, t) /\ Behind(others, f, x)
  <2> DEFINE d == active[bc[x].pos]
  <2>1. PICK f \in Emitter : Latest(announced, f, t) /\ Behind(waiting, f, x)
    BY <1>10 DEF InOrder, OrderInv
  <2>2. CASE f = e
    <3>0. Carries(e, t)
      BY <2>1, <2>2 DEF Latest
    <3>1. ~ (bc[e].pos = bc[x].pos /\ \E i, j \in 1..Len(waiting[d]) :
                                        i < j /\ waiting[d][i] = x /\ waiting[d][j] = e)
      BY <1>8, <3>0
    <3>2. bc[e].pos < bc[x].pos
      BY <2>1, <2>2, <3>1 DEF Behind
    <3>3. b.pos <= bc[x].pos
      BY <1>3, <1>4, <1>5, <1>10, <3>2
    <3>4. QED
      BY <1>4, <2>1, <2>2, <3>3 DEF Latest, Carries
  <2>3. CASE f # e
    <3>1. CASE bc[f].pos < bc[x].pos
      BY <2>1, <2>3, <3>1 DEF Behind
    <3>2. CASE ~ (bc[f].pos < bc[x].pos)
      <4>1. bc[f].pos = bc[x].pos /\ d \in Conn
        BY <1>6, <1>10, <2>1, <3>2 DEF Behind
      <4>2. PICK i \in 1..Len(waiting[d]), j \in 1..Len(waiting[d]) :
              i < j /\ waiting[d][i] = x /\ waiting[d][j] = f
        BY <2>1, <3>2 DEF Behind
      <4> HIDE DEF d
      <4> DEFINE i2 == IF d = c THEN i - 1 ELSE i
                 j2 == IF d = c THEN j - 1 ELSE j
      <4>3. i2 \in 1..Len(others[d]) /\ others[d][i2] = x
        BY <1>7, <4>1, <4>2
      <4>4. j2 \in 1..Len(others[d]) /\ others[d][j2] = f
        BY <1>7, <2>3, <4>1, <4>2
      <4>5. i2 < j2
        BY <4>2
      <4> HIDE DEF i2, j2
      <4>6. Behind(others, f, x)
        BY <4>1, <4>3, <4>4, <4>5 DEF Behind, d
      <4>7. QED
        BY <2>1, <2>3, <4>6
    <3>3. QED
      BY <3>1, <3>2
  <2>4. QED
    BY <2>2, <2>3
<1>11. ASSUME Sets(b.message, t), b.message.tasks[t] # announced[t]
       PROVE  \E f \in Emitter \ {e} : Latest(announced, f, t) /\ bc[f].pos < b.pos
  <2>1. ~Latest(announced, e, t) /\ Carries(e, t)
    BY <1>3, <1>4, <1>11 DEF Latest, Carries
  <2>2. PICK f \in Emitter : Latest(announced, f, t) /\ Behind(waiting, f, e)
    BY <1>2, <2>1 DEF InOrder, OrderInv
  <2>3. f # e /\ Carries(f, t)
    BY <2>1, <2>2 DEF Latest
  <2>4. bc[f].pos < bc[e].pos \/ bc[f].pos = bc[e].pos
    BY <2>2 DEF Behind
  <2>5. bc[f].pos < b.pos
    BY <1>3, <1>4, <1>5, <2>3, <2>4
  <2>6. QED
    BY <2>2, <2>3, <2>5
<1>12. ASSUME NEW k \in 1..Len(active), up[active[k]]
       PROVE  \/ \E f \in Emitter \ {e} : Latest(announced, f, t) /\ bc[f].pos < k
              \/ Sets(b.message, t) /\ b.message.tasks[t] = announced[t] /\ b.pos <= k
              \/ Served(announced, active[k], t)
  <2>1. CASE Latest(announced, e, t) /\ bc[e].pos < k
    BY <1>3, <1>4, <2>1 DEF Latest, Carries
  <2>2. CASE ~ (Latest(announced, e, t) /\ bc[e].pos < k)
    BY <1>12, <2>2 DEF InOrder, ReachInv
  <2>3. QED
    BY <2>1, <2>2
<1>13. InTurn(e, b, others, announced, t)
  BY <1>9, <1>10, <1>11, <1>12 DEF InTurn
<1>14. QED
  BY <1>13 DEF e, b, others

\* A send keeps the broadcasts in their order, and serves the client it goes to.
LEMMA WriteKeeps ==
    ASSUME ListInv, ListInv', StatusInv', NEW e \in Emitter, NEW b, NEW others, NEW before,
           NEW t \in Task, Ready(e, b, others), InTurn(e, b, others, announced', t),
           Send(e, b, others, before), b.pos <= Len(active),
           UNCHANGED <<up, endpoint, hello, view>>
    PROVE  InOrder(t)'
<1> DEFINE c == active[b.pos]
           r == [b EXCEPT !.sent = @ \union {c}]
<1>0. /\ active \in Seq(Conn) /\ Len(active) \in Nat /\ Distinct(active) /\ UpIsWatched
      /\ bc \in [Emitter -> Broadcasts \union {None}] /\ chan \in [Conn -> Seq(Messages)]
      /\ up \in [Conn -> BOOLEAN] /\ endpoint \in [Conn -> {"none", "greeting", "receiving"}]
      /\ announced' \in [Task -> Nat]
  BY DEF ListInv, ManagerTypes, StatusInv
<1>1. /\ b \in Broadcasts /\ others \in [Conn -> Seq(Emitter)]
      /\ b.message \in Messages \union {None} /\ b.pos \in Nat \ {0}
  BY DEF Ready, Broadcasts
<1>2. c \in Conn /\ b.pos \in 1..Len(active)
  BY <1>0, <1>1
<1>3. r \in Broadcasts /\ r.pos = b.pos /\ r.message = b.message /\ r # None
  BY <1>1, <1>2, SentTo
<1>4. /\ bc' = [bc EXCEPT ![e] = r]
      /\ chan' = Written(c, b.message)
      /\ waiting' = [others EXCEPT ![c] = Append(@, e)]
      /\ overtaken' = IF endpoint[c] = "greeting"
                      THEN overtaken \union ({c} \X TasksOf(b.message))
                      ELSE overtaken \ ({c} \X TasksOf(b.message))
      /\ active' = active
  BY DEF Send
<1> HIDE DEF c, r
<1>5. bc'[e] = r /\ \A x \in Emitter \ {e} : bc'[x] = bc[x]
  BY <1>0, <1>4
<1>6. \A d \in Conn :
        /\ Len(others[d]) \in Nat
        /\ Len(waiting'[d]) = Len(others[d]) + (IF d = c THEN 1 ELSE 0)
        /\ \A i \in 1..Len(others[d]) : waiting'[d][i] = others[d][i]
        /\ d = c => waiting'[d][Len(others[d]) + 1] = e
  BY <1>1, <1>2, <1>4, Pushed
<1>7. ASSUME NEW d \in Conn, NEW i \in 1..Len(others[d])
      PROVE  i \in 1..Len(waiting'[d]) /\ waiting'[d][i] = others[d][i]
  <2>1. /\ Len(others[d]) \in Nat
        /\ Len(waiting'[d]) = Len(others[d]) + (IF d = c THEN 1 ELSE 0)
    BY <1>6
  <2>2. Len(others[d]) \in Nat /\ Len(waiting'[d]) \in Nat /\ Len(others[d]) <= Len(waiting'[d])
    <3>1. CASE d = c
      BY <2>1, <3>1
    <3>2. CASE d # c
      BY <2>1, <3>2
    <3>3. QED
      BY <3>1, <3>2
  <2>3. i \in 1..Len(waiting'[d])
    BY <2>2
  <2>4. waiting'[d][i] = others[d][i]
    BY <1>6
  <2>5. QED
    BY <2>3, <2>4
<1>8. /\ Len(others[c]) \in Nat /\ Len(others[c]) + 1 \in 1..Len(waiting'[c])
      /\ waiting'[c][Len(others[c]) + 1] = e
  <2>1. Len(others[c]) \in Nat /\ Len(waiting'[c]) = Len(others[c]) + 1
    BY <1>2, <1>6
  <2>2. Len(others[c]) + 1 \in 1..Len(waiting'[c])
    BY <2>1
  <2>3. waiting'[c][Len(others[c]) + 1] = e
    BY <1>2, <1>6
  <2>4. QED
    BY <2>1, <2>2, <2>3
<1>9. \A x \in Emitter : Carries(x, t) => bc[x].pos \in Nat \ {0}
  BY <1>0 DEF Broadcasts, Carries
<1>10. \A x \in Emitter \ {e} : Carries(x, t) =>
         /\ bc[x].pos <= Len(active) /\ active[bc[x].pos] \in Conn
         /\ \E i \in 1..Len(others[active[bc[x].pos]]) : others[active[bc[x].pos]][i] = x
  <2> SUFFICES ASSUME NEW x \in Emitter \ {e}, Carries(x, t)
               PROVE  /\ bc[x].pos <= Len(active) /\ active[bc[x].pos] \in Conn
                      /\ \E i \in 1..Len(others[active[bc[x].pos]]) : others[active[bc[x].pos]][i] = x
    OBVIOUS
  <2>1. InPlace(others, x)
    BY DEF InTurn
  <2>2. bc[x].pos \in 1..Len(active)
    BY <1>0, <1>9, <2>1 DEF InPlace
  <2>3. QED
    BY <1>0, <2>1, <2>2 DEF InPlace
<1>11. \A x \in Emitter \ {e} : /\ Latest(announced, x, t)' <=> Latest(announced', x, t)
                                /\ Carries(x, t)' <=> Carries(x, t)
  BY <1>5 DEF Latest, Carries, Sets
<1>12. /\ Latest(announced, e, t)' <=> Sets(b.message, t) /\ b.message.tasks[t] = announced'[t]
       /\ Carries(e, t)' <=> Sets(b.message, t)
  BY <1>3, <1>5 DEF Latest, Carries, Sets
<1>13. PlaceInv(t)'
  <2> SUFFICES ASSUME NEW x \in Emitter, Carries(x, t)'
               PROVE  /\ bc'[x].pos <= Len(active)
                      /\ \E i \in 1..Len(waiting'[active[bc'[x].pos]]) :
                           waiting'[active[bc'[x].pos]][i] = x
    BY <1>4 DEF PlaceInv, InPlace
  <2>1. CASE x = e
    BY <1>3, <1>5, <1>8, <2>1 DEF c
  <2>2. CASE x # e
    <3>1. bc'[x] = bc[x] /\ Carries(x, t)
      BY <1>5, <1>11, <2>2
    <3>2. QED
      BY <1>7, <1>10, <2>2, <3>1
  <2>3. QED
    BY <2>1, <2>2
<1>14. OrderInv(t)'
  <2> SUFFICES ASSUME NEW x \in Emitter, Carries(x, t)', ~Latest(announced, x, t)'
               PROVE  \E f \in Emitter : Latest(announced, f, t)' /\ Behind(waiting, f, x)'
    BY DEF OrderInv
  <2>1. CASE x = e
    <3>1. Sets(b.message, t) /\ b.message.tasks[t] # announced'[t]
      BY <1>12, <2>1
    <3>2. PICK f \in Emitter \ {e} : Latest(announced', f, t) /\ bc[f].pos < b.pos
      BY <3>1 DEF InTurn
    <3>3. Behind(waiting, f, x)'
      BY <1>3, <1>5, <2>1, <3>2 DEF Behind
    <3>4. QED
      BY <1>11, <3>2, <3>3
  <2>2. CASE x # e
    <3> DEFINE d == active[bc[x].pos]
    <3>1. bc'[x] = bc[x] /\ Carries(x, t) /\ ~Latest(announced', x, t)
      BY <1>5, <1>11, <2>2
    <3>2. d \in Conn
      BY <1>10, <2>2, <3>1
    <3>3. CASE Sets(b.message, t) /\ b.message.tasks[t] = announced'[t] /\ b.pos <= bc[x].pos
      <4>1. Behind(waiting, e, x)'
        <5>1. CASE b.pos < bc[x].pos
          BY <1>3, <1>5, <3>1, <5>1 DEF Behind
        <5>2. CASE ~ (b.pos < bc[x].pos)
          <6>1. b.pos = bc[x].pos
            BY <1>1, <1>9, <3>1, <3>3, <5>2
          <6>2. d = c
            BY <6>1 DEF c
          <6>3. PICK i \in 1..Len(others[c]) : others[c][i] = x
            BY <1>10, <2>2, <3>1, <6>2
          <6>4. i \in 1..Len(waiting'[c]) /\ waiting'[c][i] = x
            BY <1>2, <1>7, <6>3
          <6>5. i < Len(others[c]) + 1
            BY <1>8, <6>3
          <6>6. active'[bc'[x].pos] = c /\ bc'[e].pos = bc'[x].pos
            BY <1>3, <1>4, <1>5, <3>1, <6>1, <6>2
          <6>7. QED
            BY <1>8, <6>4, <6>5, <6>6 DEF Behind
        <5>3. QED
          BY <5>1, <5>2
      <4>2. QED
        BY <1>12, <3>3, <4>1
    <3>4. ASSUME NEW f \in Emitter \ {e}, Latest(announced', f, t), Behind(others, f, x)
          PROVE  Behind(waiting, f, x)'
      <4>1. bc'[f] = bc[f]
        BY <1>5
      <4>2. CASE bc[f].pos < bc[x].pos
        BY <3>1, <4>1, <4>2 DEF Behind
      <4>3. CASE ~ (bc[f].pos < bc[x].pos)
        <5>1. bc[f].pos = bc[x].pos
          BY <3>4, <4>3 DEF Behind
        <5>2. PICK i \in 1..Len(others[d]), j \in 1..Len(others[d]) :
                i < j /\ others[d][i] = x /\ others[d][j] = f
          BY <3>4, <4>3 DEF Behind
        <5>3. /\ i \in 1..Len(waiting'[d]) /\ waiting'[d][i] = x
              /\ j \in 1..Len(waiting'[d]) /\ waiting'[d][j] = f
          BY <1>7, <3>2, <5>2
        <5>4. active'[bc'[x].pos] = d /\ bc'[f].pos = bc'[x].pos
          BY <1>4, <3>1, <4>1, <5>1
        <5> HIDE DEF d
        <5>5. QED
          BY <5>2, <5>3, <5>4 DEF Behind
      <4>4. QED
        BY <4>2, <4>3
    <3>5. \/ Sets(b.message, t) /\ b.message.tasks[t] = announced'[t] /\ b.pos <= bc[x].pos
          \/ \E f \in Emitter \ {e} : Latest(announced', f, t) /\ Behind(others, f, x)
      BY <2>2, <3>1 DEF InTurn
    <3>6. QED
      BY <1>11, <3>3, <3>4, <3>5
  <2>3. QED
    BY <2>1, <2>2
<1>15. ReachInv(t)'
  <2> SUFFICES ASSUME NEW k \in 1..Len(active), up[active[k]]
               PROVE  \/ \E f \in Emitter : Latest(announced, f, t)' /\ bc'[f].pos < k
                      \/ Served(announced, active[k], t)'
    BY <1>4 DEF ReachInv, Served
  <2> DEFINE d == active[k]
  <2>1. ASSUME NEW f \in Emitter \ {e}, Latest(announced', f, t), bc[f].pos < k
        PROVE  Latest(announced, f, t)' /\ bc'[f].pos < k
    BY <1>5, <1>11, <2>1
  <2>2. d \in Conn /\ d \in ToSet(active)
    BY <1>0 DEF ToSet
  <2>3. announced'[t] \in Nat
    BY <1>0
  <2>. /\ active'[k] = active[k]
       /\ endpoint' = endpoint /\ hello' = hello /\ view' = view
    BY <1>4
  <2>4. CASE k # b.pos
    <3>1. d # c
      BY <1>0, <1>2, <2>4 DEF Distinct, c
    <3>2. chan'[d] = chan[d] /\ (<<d, t>> \in overtaken => <<d, t>> \in overtaken')
      BY <1>0, <1>4, <3>1, <2>2 DEF Written
    <3>3. Served(announced', d, t) => Served(announced, d, t)'
      BY <3>2 DEF Served, Sets
    <3>4. CASE Sets(b.message, t) /\ b.message.tasks[t] = announced'[t] /\ b.pos <= k
      <4>1. Latest(announced, e, t)' /\ bc'[e].pos < k
        BY <1>1, <1>3, <1>5, <1>12, <2>4, <3>4
      <4>2. QED
        BY <4>1
    <3>5. QED
      BY <2>1, <3>3, <3>4 DEF InTurn
  <2>5. CASE k = b.pos
    <3>1. d = c /\ endpoint[c] \in {"greeting", "receiving"} /\ chan[c] \in Seq(Messages)
      BY <1>0, <1>2, <2>2, <2>5 DEF UpIsWatched, c
    <3>2. CASE ~Sets(b.message, t)
      <4>1. FreshIn(chan[c], view[c], t, announced'[t]) => FreshIn(chan'[c], view[c], t, announced'[t])
        <5>1. CASE b.message = None
          BY <1>4, <5>1 DEF Written
        <5>2. CASE b.message # None
          <6>1. b.message \in Messages /\ t \notin DOMAIN b.message.tasks
            BY <1>1, <3>2, <5>2 DEF Sets
          <6>2. chan'[c] = Append(chan[c], b.message)
            BY <1>0, <1>2, <1>4, <3>1, <5>2 DEF Written
          <6>3. QED
            BY <3>1, <6>1, <6>2, FreshSkip
        <5>3. QED
          BY <5>1, <5>2
      <4>2. <<c, t>> \in overtaken => <<c, t>> \in overtaken'
        BY <1>4, <3>2 DEF Sets, TasksOf
      <4>3. Served(announced', d, t) => Served(announced, d, t)'
        BY <3>1, <4>1, <4>2 DEF Served, Sets
      <4>4. QED
        BY <2>1, <3>2, <4>3 DEF InTurn
    <3>3. CASE Sets(b.message, t) /\ endpoint[c] = "greeting"
      <4>1. <<c, t>> \in overtaken'
        BY <1>4, <3>3 DEF Sets, TasksOf
      <4>2. QED
        BY <3>1, <4>1 DEF Served
    <3>4. CASE Sets(b.message, t) /\ endpoint[c] = "receiving" /\ b.message.tasks[t] = announced'[t]
      <4>1. b.message \in Messages /\ t \in DOMAIN b.message.tasks /\ b.message.tasks[t] >= announced'[t]
        BY <1>1, <2>3, <3>4 DEF Sets
      <4>2. chan'[c] = Append(chan[c], b.message)
        BY <1>0, <1>2, <1>4, <3>1, <3>4 DEF Written, Sets
      <4>3. FreshIn(chan'[c], view[c], t, announced'[t])
        BY <3>1, <4>1, <4>2, FreshNew
      <4>4. QED
        BY <3>1, <3>4, <4>3 DEF Served
    <3>5. CASE Sets(b.message, t) /\ b.message.tasks[t] # announced'[t]
      <4>1. PICK f \in Emitter \ {e} : Latest(announced', f, t) /\ bc[f].pos < b.pos
        BY <3>5 DEF InTurn
      <4>2. QED
        BY <2>1, <2>5, <4>1
    <3>6. QED
      BY <3>1, <3>2, <3>3, <3>4, <3>5
  <2>6. QED
    BY <2>4, <2>5
<1>16. QED
  BY <1>13, <1>14, <1>15 DEF InOrder

\* The end of a broadcast leaves the others as they are, or there are none.
LEMMA FinishKeeps ==
    ASSUME ListInv, NEW e \in Emitter, NEW b, NEW others, NEW before,
           NEW t \in Task, t \notin disturbed',
           Ready(e, b, others), InTurn(e, b, others, announced', t),
           Send(e, b, others, before), ~ (b.pos <= Len(active)),
           UNCHANGED <<up, endpoint, hello, view>>
    PROVE  InOrder(t)'
<1>0. /\ active \in Seq(Conn) /\ Len(active) \in Nat
      /\ bc \in [Emitter -> Broadcasts \union {None}]
  BY DEF ListInv, ManagerTypes
<1>1. b.pos \in Nat
  BY DEF Ready, Broadcasts
<1>2. /\ bc' = [bc EXCEPT ![e] = None] /\ Leave(b.dead, Emitter \ {e}, before)
      /\ waiting' = others /\ chan' = chan /\ overtaken' = overtaken
  BY DEF Send
<1>3. bc'[e] = None /\ \A x \in Emitter \ {e} : bc'[x] = bc[x]
  BY <1>0, <1>2
<1>4. /\ up' = up /\ endpoint' = endpoint /\ hello' = hello /\ view' = view
      /\ chan' = chan /\ waiting' = others /\ overtaken' = overtaken
  BY <1>2
<1>5. \A f \in Emitter \ {e} : Latest(announced', f, t) => Latest(announced, f, t)'
  BY <1>3 DEF Latest, Carries, Sets
<1>6. \A k \in 1..Len(active) : ~ (b.pos <= k)
  BY <1>0, <1>1
<1>7. \A x \in Emitter : Carries(x, t)' => x \in Emitter \ {e} /\ bc'[x] = bc[x] /\ Carries(x, t)
  BY <1>3 DEF Carries, Sets
<1>8. CASE active' = active
  <2>1. PlaceInv(t)'
    BY <1>4, <1>7, <1>8 DEF InTurn, PlaceInv, InPlace
  <2>2. OrderInv(t)'
    <3> SUFFICES ASSUME NEW x \in Emitter, Carries(x, t)', ~Latest(announced, x, t)'
                 PROVE  \E f \in Emitter : Latest(announced, f, t)' /\ Behind(waiting, f, x)'
      BY DEF OrderInv
    <3>1. x \in Emitter \ {e} /\ bc'[x] = bc[x] /\ Carries(x, t)
      BY <1>7
    <3>2. bc[x].pos \in Nat \ {0} /\ bc[x].pos <= Len(active)
      BY <1>0, <3>1 DEF InTurn, InPlace, Broadcasts, Carries
    <3>3. ~ (b.pos <= bc[x].pos)
      BY <1>0, <1>1, <3>2
    <3>4. ~Latest(announced', x, t)
      BY <1>5, <3>1
    <3>5. PICK f \in Emitter \ {e} : Latest(announced', f, t) /\ Behind(others, f, x)
      BY <3>1, <3>3, <3>4 DEF InTurn
    <3>6. Behind(waiting, f, x)'
      BY <1>3, <1>4, <1>8, <3>1, <3>5 DEF Behind
    <3>7. QED
      BY <1>5, <3>5, <3>6
  <2>3. ReachInv(t)'
    <3> SUFFICES ASSUME NEW k \in 1..Len(active), up[active[k]]
                 PROVE  \/ \E f \in Emitter : Latest(announced, f, t)' /\ bc'[f].pos < k
                        \/ Served(announced', active[k], t)
      BY <1>4, <1>8 DEF ReachInv, Served, Sets
    <3>1. CASE \E f \in Emitter \ {e} : Latest(announced', f, t) /\ bc[f].pos < k
      BY <1>3, <1>5, <3>1
    <3>2. QED
      BY <1>6, <3>1 DEF InTurn
  <2>4. QED
    BY <2>1, <2>2, <2>3 DEF InOrder
<1>9. CASE active' # active
  <2>1. \A x \in Emitter \ {e} : ~Carries(x, t)
    BY <1>2, <1>9, CarriesUnderWay DEF Leave
  <2>2. \A x \in Emitter : ~Carries(x, t)'
    BY <1>7, <2>1
  <2>3. PlaceInv(t)' /\ OrderInv(t)'
    BY <2>2 DEF PlaceInv, OrderInv
  <2>4. ReachInv(t)'
    <3> SUFFICES ASSUME NEW k \in 1..Len(active'), up[active'[k]]
                 PROVE  Served(announced', active'[k], t)
      BY <1>4 DEF ReachInv, Served, Sets
    <3>1. PICK j \in k..Len(active) : active'[k] = active[j]
      BY <1>2, LeaveFacts
    <3>2. j \in 1..Len(active)
      <4>1. Len(active') \in Nat
        BY <1>2, LeaveFacts
      <4>2. QED
        BY <1>0, <4>1
    <3>3. \A f \in Emitter \ {e} : ~Latest(announced', f, t)
      BY <2>1 DEF Latest
    <3>4. QED
      BY <1>6, <3>1, <3>2, <3>3 DEF InTurn
  <2>5. QED
    BY <2>3, <2>4 DEF InOrder
<1>10. QED
  BY <1>8, <1>9

\* Whichever way a broadcast goes on, the clients catch up with it.
LEMMA SendCatches ==
    ASSUME ListInv, ListInv', StatusInv', NEW e \in Emitter, NEW b, NEW others, NEW before,
           NEW t \in Task, t \notin disturbed',
           Ready(e, b, others), InTurn(e, b, others, announced', t), Send(e, b, others, before),
           UNCHANGED <<up, endpoint, hello, view>>
    PROVE  InOrder(t)'
BY WriteKeeps, FinishKeeps

\* What does not touch the broadcasts and the list keeps their order.
LEMMA Steady ==
    ASSUME NEW t \in Task, PlaceInv(t), OrderInv(t), active' = active, bc' = bc,
           waiting' = waiting, announced' = announced
    PROVE  PlaceInv(t)' /\ OrderInv(t)'
<1>1. PlaceInv(t)'
  BY DEF PlaceInv, InPlace, Carries, Sets
<1>2. \A e \in Emitter : /\ Latest(announced, e, t)' <=> Latest(announced, e, t)
                         /\ Carries(e, t)' <=> Carries(e, t)
  BY DEF Latest, Carries, Sets
<1>3. \A e, f \in Emitter : Behind(waiting, f, e)' <=> Behind(waiting, f, e)
  BY DEF Behind
<1>4. OrderInv(t)'
  BY <1>2, <1>3 DEF OrderInv
<1>5. QED
  BY <1>1, <1>4

\* If it keeps every client served that was, it keeps the last announcement on its way.
LEMMA SteadyReach ==
    ASSUME NEW t \in Task, ReachInv(t), active \in Seq(Conn), active' = active, bc' = bc,
           announced' = announced,
           \A d \in Conn :
              up'[d] => up[d] /\ (Served(announced, d, t) => Served(announced, d, t)')
    PROVE  ReachInv(t)'
<1> SUFFICES ASSUME NEW k \in 1..Len(active), up'[active[k]]
             PROVE  \/ \E f \in Emitter : Latest(announced, f, t)' /\ bc[f].pos < k
                    \/ Served(announced, active[k], t)'
  BY DEF ReachInv, Served, Sets
<1>1. PICK d \in Conn : d = active[k]
  OBVIOUS
<1>. active'[k] = d /\ (Served(announced, active[k], t)' <=> Served(announced, d, t)')
  BY <1>1 DEF Served, Sets
<1>2. \A e \in Emitter : Latest(announced, e, t)' <=> Latest(announced, e, t)
  BY DEF Latest, Carries, Sets
<1>3. QED
  BY <1>1, <1>2 DEF ReachInv

\* A broadcast starts, of a message without tasks or of an announcement.
LEMMA EmitCatches ==
    ASSUME StatusInv, StatusInv', ListInv, ListInv', CatchInv, NEW e \in Emitter,
           NEW m \in Messages \union {None}, Broadcast(e, m), view' = view,
           \/ m = None /\ announced' = announced
           \/ \E u \in Task : /\ m = Message("task_update", [x \in {u} |-> store[u]])
                              /\ announced' = [announced EXCEPT ![u] = store[u]],
           NEW t \in Task, t \notin disturbed'
    PROVE  InOrder(t)'
<1> DEFINE b == [message |-> m, pos |-> 1, sent |-> {}, dead |-> {}]
           before == disturbed \ (TasksOf(m) \ UNION {UnderWay(x) : x \in Emitter})
<1>1. bc[e] = None /\ Send(e, b, waiting, before) /\ UNCHANGED <<up, endpoint, hello, view>>
  BY DEF Broadcast
<1>2. t \notin before
  BY <1>1 DEF Send, Leave
<1>3. \/ t \notin disturbed
      \/ t \in TasksOf(m) /\ \A x \in Emitter : ~Carries(x, t)
  BY <1>2, CarriesUnderWay
<1>4. Ready(e, b, waiting)
  BY <1>1, ReadyBroadcast
<1>5. InTurn(e, b, waiting, announced', t)
  <2>1. CASE m = None /\ announced' = announced
    <3>1. InOrder(t)
      BY <1>3, <2>1 DEF TasksOf, CatchInv
    <3>2. QED
      BY <1>1, <2>1, <3>1, TurnPlain
  <2>2. ASSUME NEW u \in Task, m = Message("task_update", [x \in {u} |-> store[u]]),
               announced' = [announced EXCEPT ![u] = store[u]]
        PROVE  InTurn(e, b, waiting, announced', t)
    <3>1. t \in TasksOf(m) => t = u
      BY <2>2 DEF TasksOf, Message
    <3>2. PlaceInv(t) /\ (t # u => InOrder(t))
      BY <1>3, <3>1 DEF CatchInv, InOrder, PlaceInv
    <3>3. QED
      BY <1>1, <2>2, <3>2, TurnAnnounce
  <2>3. QED
    BY <2>1, <2>2
<1> HIDE DEF b, before
<1>6. QED
  BY <1>1, <1>4, <1>5, SendCatches

\* A broadcast resumes.
LEMMA ResumeCatches ==
    ASSUME StatusInv', ListInv, ListInv', CatchInv, NEW c \in Conn, Resume(c),
           view' = view, announced' = announced, NEW t \in Task, t \notin disturbed'
    PROVE  InOrder(t)'
<1> DEFINE e == Head(waiting[c])
           others == [waiting EXCEPT ![c] = Tail(@)]
           b(f) == [bc[e] EXCEPT !.pos = @ + 1, !.dead = @ \union f]
<1>1. PICK f \in (IF up[c] THEN {{}} ELSE {{}, {c}}) : Send(e, b(f), others, disturbed)
  BY DEF Resume
<1>2. waiting[c] # <<>> /\ UNCHANGED <<up, endpoint, hello, view>>
  BY DEF Resume
<1>3. t \notin disturbed
  BY <1>1 DEF Send, Leave
<1>4. InOrder(t)
  BY <1>3 DEF CatchInv
<1>5. e \in Emitter /\ Ready(e, b(f), others)
  BY <1>2, ReadyResume
<1>6. InTurn(e, b(f), others, announced', t)
  BY <1>2, <1>4, TurnResume
<1> HIDE DEF e, others, b
<1>7. QED
  BY <1>1, <1>2, <1>5, <1>6, SendCatches

\* The initial state is written to c: what c waited for, it is to hear last.
LEMMA GreetCatches ==
    ASSUME ListInv, CatchInv, NEW c \in Conn, Greet(c), view' = view,
           announced' = announced, NEW t \in Task, t \notin disturbed'
    PROVE  InOrder(t)'
<1>1. /\ endpoint[c] = "greeting" /\ up[c] /\ chan' = Written(c, hello[c])
      /\ hello' = [hello EXCEPT ![c] = None]
      /\ endpoint' = [endpoint EXCEPT ![c] = "receiving"]
      /\ active' = active /\ up' = up /\ waiting' = waiting /\ bc' = bc /\ UNCHANGED <<disturbed, overtaken>>
  BY DEF Greet, historyVars
<1>2. /\ active \in Seq(Conn) /\ chan \in [Conn -> Seq(Messages)]
      /\ hello \in [Conn -> Messages \union {None}]
      /\ endpoint \in [Conn -> {"none", "greeting", "receiving"}]
  BY DEF ListInv, ManagerTypes
<1>3. PlaceInv(t) /\ OrderInv(t) /\ ReachInv(t)
  BY <1>1 DEF CatchInv, InOrder
<1>4. ASSUME NEW d \in Conn, Served(announced, d, t)
      PROVE  Served(announced, d, t)'
  <2>0. CASE <<d, t>> \in overtaken
    BY <1>1, <2>0 DEF Served
  <2>1. CASE d = c /\ <<d, t>> \notin overtaken
    <3>1. Sets(hello[c], t) /\ hello[c].tasks[t] >= announced[t]
      BY <1>1, <1>4, <2>1 DEF Served
    <3>2. hello[c] \in Messages /\ t \in DOMAIN hello[c].tasks
      BY <1>2, <3>1 DEF Sets
    <3>3. chan'[c] = Append(chan[c], hello[c]) /\ chan[c] \in Seq(Messages)
      BY <1>1, <1>2, <3>1 DEF Written, Sets
    <3>4. FreshIn(chan'[c], view'[c], t, announced'[t])
      BY <3>1, <3>2, <3>3, FreshNew
    <3>5. endpoint'[c] = "receiving"
      BY <1>1, <1>2
    <3>6. QED
      BY <2>1, <3>4, <3>5 DEF Served
  <2>2. CASE d # c
    <3>1. endpoint'[d] = endpoint[d] /\ hello'[d] = hello[d] /\ chan'[d] = chan[d]
      BY <1>1, <1>2, <2>2 DEF Written
    <3>2. QED
      BY <1>1, <1>4, <3>1 DEF Served, Sets
  <2>3. QED
    BY <2>0, <2>1, <2>2
<1>5. ReachInv(t)'
  BY <1>1, <1>2, <1>3, <1>4, SteadyReach
<1>6. QED
  BY <1>1, <1>3, <1>5, Steady DEF InOrder

\* The endpoint of a broken connection ends.
LEMMA EndCatches ==
    ASSUME ListInv, CatchInv, NEW c \in Conn, EndpointEnds(c), view' = view,
           announced' = announced, NEW t \in Task, t \notin disturbed'
    PROVE  InOrder(t)'
<1>1. /\ ~up[c] /\ Leave({c}, Emitter, disturbed) /\ hello' = [hello EXCEPT ![c] = None]
      /\ endpoint' = [endpoint EXCEPT ![c] = "none"]
      /\ up' = up /\ chan' = chan /\ waiting' = waiting /\ bc' = bc /\ overtaken' = overtaken
  BY DEF EndpointEnds
<1>2. /\ active \in Seq(Conn) /\ Len(active) \in Nat
      /\ hello \in [Conn -> Messages \union {None}]
      /\ endpoint \in [Conn -> {"none", "greeting", "receiving"}]
  BY DEF ListInv, ManagerTypes
<1>3. t \notin disturbed /\ (active' = active \/ \A e \in Emitter : ~Carries(e, t))
  BY <1>1, CarriesUnderWay DEF Leave
<1>4. PlaceInv(t) /\ OrderInv(t) /\ ReachInv(t)
  BY <1>3 DEF CatchInv, InOrder
<1>5. ASSUME NEW d \in Conn, up[d], Served(announced, d, t)
      PROVE  Served(announced, d, t)'
  <2>1. endpoint'[d] = endpoint[d] /\ hello'[d] = hello[d] /\ chan'[d] = chan[d]
    BY <1>1, <1>2, <1>5
  <2>2. QED
    BY <1>1, <1>5, <2>1 DEF Served, Sets
<1>6. CASE active' = active
  <2>1. ReachInv(t)'
    BY <1>1, <1>2, <1>4, <1>5, <1>6, SteadyReach
  <2>2. QED
    BY <1>1, <1>4, <1>6, <2>1, Steady DEF InOrder
<1>7. CASE \A e \in Emitter : ~Carries(e, t)
  <2>1. PlaceInv(t)' /\ OrderInv(t)'
    BY <1>1, <1>7 DEF PlaceInv, OrderInv, Carries, Sets
  <2>2. ASSUME NEW k \in 1..Len(active'), up'[active'[k]]
        PROVE  Served(announced, active[k], t)'
    <3>1. PICK j \in k..Len(active) : active'[k] = active[j]
      BY <1>1, LeaveFacts
    <3>2. j \in 1..Len(active)
      <4>1. Len(active') \in Nat
        BY <1>1, LeaveFacts
      <4>2. QED
        BY <1>2, <4>1
    <3>3. PICK d \in Conn : d = active[j]
      BY <1>2, <3>2
    <3>4. Served(announced, d, t)
      BY <1>1, <1>4, <1>7, <2>2, <3>1, <3>2, <3>3 DEF ReachInv, Latest
    <3>5. Served(announced, d, t)' /\ active'[k] = d
      BY <1>1, <1>5, <2>2, <3>1, <3>3, <3>4
    <3>6. QED
      BY <3>5 DEF Served
  <2>3. ReachInv(t)'
    BY <2>2 DEF ReachInv
  <2>4. QED
    BY <2>1, <2>3 DEF InOrder
<1>8. QED
  BY <1>3, <1>6, <1>7

\* The connection of c breaks, or its endpoint fails.
LEMMA BreakCatches ==
    ASSUME ListInv, CatchInv, NEW c \in Conn, Break(c) \/ EndpointFails(c), view' = view,
           announced' = announced, NEW t \in Task, t \notin disturbed'
    PROVE  InOrder(t)'
<1>1. /\ up' = [up EXCEPT ![c] = FALSE] /\ chan' = [chan EXCEPT ![c] = <<>>]
      /\ endpoint' = endpoint \/ endpoint' = [endpoint EXCEPT ![c] = "none"]
      /\ active' = active /\ hello' = hello
      /\ waiting' = waiting /\ bc' = bc /\ UNCHANGED <<disturbed, overtaken>>
  BY DEF Break, EndpointFails, historyVars
<1>2. /\ endpoint \in [Conn -> {"none", "greeting", "receiving"}]
      /\ active \in Seq(Conn) /\ chan \in [Conn -> Seq(Messages)] /\ up \in [Conn -> BOOLEAN]
  BY DEF ListInv, ManagerTypes
<1>3. PlaceInv(t) /\ OrderInv(t) /\ ReachInv(t)
  BY <1>1 DEF CatchInv, InOrder
<1>4. ASSUME NEW d \in Conn, up'[d]
      PROVE  up[d] /\ (Served(announced, d, t) => Served(announced, d, t)')
  <2>1. d # c /\ up[d] /\ chan'[d] = chan[d] /\ endpoint'[d] = endpoint[d]
    BY <1>1, <1>2, <1>4
  <2>2. QED
    BY <1>1, <2>1 DEF Served, Sets
<1>5. ReachInv(t)'
  BY <1>1, <1>2, <1>3, <1>4, SteadyReach
<1>6. QED
  BY <1>1, <1>3, <1>5, Steady DEF InOrder

\* A client connects at the end of the list: the initial state that waits for it was read
\* from the store in the same step, so it holds whatever was announced before.
LEMMA JoinCatches ==
    ASSUME StatusInv, ListInv, CatchInv, NEW c \in Conn, Join(c), NEW t \in Task, t \notin disturbed'
    PROVE  InOrder(t)'
<1> DEFINE m == Message("initial_state", store)
<1>1. /\ ~up[c] /\ Forgotten(c) /\ up' = [up EXCEPT ![c] = TRUE]
      /\ active' = Append(active, c)
      /\ endpoint' = [endpoint EXCEPT ![c] = "greeting"]
      /\ hello' = [hello EXCEPT ![c] = m]
      /\ view' = [view EXCEPT ![c] = NoTasks]
      /\ chan' = chan /\ waiting' = waiting /\ bc' = bc /\ disturbed' = disturbed
      /\ overtaken' = {told \in overtaken : told[1] # c}
      /\ announced' = announced
  BY DEF Join, Accept, Joined, monitorVars
<1>2. /\ active \in Seq(Conn) /\ Len(active) \in Nat /\ up \in [Conn -> BOOLEAN]
      /\ endpoint \in [Conn -> {"none", "greeting", "receiving"}]
      /\ hello \in [Conn -> Messages \union {None}]
      /\ bc \in [Emitter -> Broadcasts \union {None}]
      /\ DOMAIN view = Conn
  BY DEF ListInv, ManagerTypes, CatchInv
<1>3. PlaceInv(t) /\ OrderInv(t) /\ ReachInv(t)
  BY <1>1 DEF CatchInv, InOrder
<1>4. m \in Messages /\ m # None /\ m.tasks = store
  BY MonitorAssumption DEF StatusInv, Message, Messages
<1> HIDE DEF m
<1>5. /\ Len(active') = Len(active) + 1 /\ active'[Len(active) + 1] = c
      /\ \A i \in 1..Len(active) : active'[i] = active[i]
  BY <1>1, <1>2
<1>6. \A x \in Emitter : Carries(x, t) =>
        /\ bc[x].pos \in 1..Len(active) /\ bc[x].pos <= Len(active')
        /\ active'[bc[x].pos] = active[bc[x].pos]
  <2> SUFFICES ASSUME NEW x \in Emitter, Carries(x, t)
               PROVE  /\ bc[x].pos \in 1..Len(active) /\ bc[x].pos <= Len(active')
                      /\ active'[bc[x].pos] = active[bc[x].pos]
    OBVIOUS
  <2>1. bc[x].pos \in Nat \ {0} /\ bc[x].pos <= Len(active)
    BY <1>2, <1>3 DEF PlaceInv, InPlace, Broadcasts, Carries
  <2>2. bc[x].pos \in 1..Len(active) /\ bc[x].pos <= Len(active')
    BY <1>2, <1>5, <2>1
  <2>3. QED
    BY <1>5, <2>2
<1>7. PlaceInv(t)'
  <2> SUFFICES ASSUME NEW x \in Emitter, Carries(x, t)' PROVE InPlace(waiting, x)'
    BY DEF PlaceInv
  <2>1. Carries(x, t)
    BY <1>1 DEF Carries
  <2>2. InPlace(waiting, x)
    BY <1>3, <2>1 DEF PlaceInv
  <2>3. bc'[x].pos = bc[x].pos /\ waiting' = waiting
    BY <1>1
  <2>4. bc[x].pos <= Len(active') /\ active'[bc[x].pos] = active[bc[x].pos]
    BY <1>6, <2>1
  <2>5. QED
    BY <2>2, <2>3, <2>4 DEF InPlace
<1>8. \A x \in Emitter : /\ Latest(announced, x, t)' <=> Latest(announced, x, t)
                         /\ Carries(x, t)' <=> Carries(x, t)
  BY <1>1 DEF Latest, Carries, Sets
<1>9. OrderInv(t)'
  <2>1. \A x, f \in Emitter : Carries(x, t) /\ Behind(waiting, f, x) => Behind(waiting, f, x)'
    BY <1>1, <1>6 DEF Behind
  <2>2. QED
    BY <1>3, <1>8, <2>1 DEF OrderInv
<1>10. ReachInv(t)'
  <2> SUFFICES ASSUME NEW k \in 1..Len(active'), up'[active'[k]]
               PROVE  \/ \E f \in Emitter : Latest(announced, f, t)' /\ bc'[f].pos < k
                      \/ Served(announced, active[k], t)'
    BY DEF ReachInv
  <2>1. k \in 1..Len(active) \/ k = Len(active) + 1
    BY <1>2, <1>5
  <2>2. CASE k = Len(active) + 1
    <3>1. active'[k] = c /\ endpoint'[c] = "greeting" /\ hello'[c] = m
      BY <1>1, <1>2, <1>5, <2>2
    <3>2. t \in DOMAIN m.tasks /\ m.tasks[t] >= announced'[t]
      BY <1>1, <1>4 DEF StatusInv
    <3>3. QED
      BY <1>4, <3>1, <3>2 DEF Served, Sets
  <2>3. CASE k \in 1..Len(active)
    <3>1. PICK d \in Conn : d = active[k] /\ d = active'[k]
      BY <1>2, <1>5, <2>3
    <3>2. d # c
      BY <1>1, <2>3, <3>1 DEF Forgotten
    <3>3. /\ up[d] /\ endpoint'[d] = endpoint[d] /\ hello'[d] = hello[d]
          /\ view'[d] = view[d] /\ chan'[d] = chan[d]
          /\ <<d, t>> \in overtaken => <<d, t>> \in overtaken'
      BY <1>1, <1>2, <3>1, <3>2
    <3>4. Served(announced, d, t) => Served(announced, active[k], t)'
      BY <1>1, <3>1, <3>3 DEF Served, Sets
    <3>5. \/ \E f \in Emitter : Latest(announced, f, t) /\ bc[f].pos < k
          \/ Served(announced, d, t)
      BY <1>3, <2>3, <3>1, <3>3 DEF ReachInv
    <3>6. QED
      BY <1>1, <1>8, <3>4, <3>5
  <2>4. QED
    BY <2>1, <2>2, <2>3
<1>11. QED
  BY <1>7, <1>9, <1>10 DEF InOrder

\* A client handles a message: it shows what it was to hear.
LEMMA HandleCatches ==
    ASSUME ListInv, CatchInv, NEW c \in Conn, HandleMessage(c), NEW t \in Task, t \notin disturbed'
    PROVE  InOrder(t)'
<1>1. /\ chan[c] # <<>> /\ chan' = [chan EXCEPT ![c] = Tail(@)]
      /\ view' = [view EXCEPT ![c] = Applied(Head(chan[c]), @)]
      /\ active' = active /\ up' = up /\ endpoint' = endpoint /\ hello' = hello
      /\ waiting' = waiting /\ bc' = bc /\ UNCHANGED <<disturbed, overtaken>> /\ announced' = announced
  BY DEF HandleMessage, monitorVars, historyVars
<1>2. active \in Seq(Conn) /\ chan \in [Conn -> Seq(Messages)] /\ DOMAIN view = Conn
  BY DEF ListInv, ManagerTypes, CatchInv
<1>3. PlaceInv(t) /\ OrderInv(t) /\ ReachInv(t)
  BY <1>1 DEF CatchInv, InOrder
<1>4. ASSUME NEW d \in Conn, Served(announced, d, t)
      PROVE  Served(announced, d, t)'
  <2>1. CASE d = c
    <3>1. chan'[c] = Tail(chan[c]) /\ view'[c] = Applied(Head(chan[c]), view[c])
      BY <1>1, <1>2
    <3>2. FreshIn(chan[c], view[c], t, announced[t]) => FreshIn(chan'[c], view'[c], t, announced[t])
      BY <1>1, <1>2, <3>1, FreshHandled
    <3>3. QED
      BY <1>1, <1>4, <2>1, <3>2 DEF Served, Sets
  <2>2. CASE d # c
    <3>1. chan'[d] = chan[d] /\ view'[d] = view[d]
      BY <1>1, <1>2, <2>2
    <3>2. QED
      BY <1>1, <1>4, <3>1 DEF Served, Sets
  <2>3. QED
    BY <2>1, <2>2
<1>5. ReachInv(t)'
  BY <1>1, <1>2, <1>3, <1>4, SteadyReach
<1>6. QED
  BY <1>1, <1>3, <1>5, Steady DEF InOrder

\* Every step keeps CatchInv.
LEMMA CatchStep ==
    StatusInv /\ StatusInv' /\ ListInv /\ ListInv' /\ CatchInv /\ [Next]_vars => CatchInv'
<1> SUFFICES ASSUME StatusInv, StatusInv', ListInv, ListInv', CatchInv, [Next]_vars
             PROVE  CatchInv'
  OBVIOUS
<1>1. DOMAIN view' = Conn
  <2>1. view' = view \/ \E c \in Conn : \E v : view' = [view EXCEPT ![c] = v]
    BY DEF Next, vars, Emissions, Serve, Join, HandleMessage
  <2>2. QED
    BY <2>1 DEF CatchInv
<1>2. ASSUME NEW t \in Task, t \notin disturbed' PROVE InOrder(t)'
  <2>1. CASE UNCHANGED managerVars /\ announced' = announced /\ view' = view
    <3>1. /\ UNCHANGED <<active, up, endpoint, hello, chan, waiting, bc, disturbed, overtaken>>
          /\ active \in Seq(Conn) /\ PlaceInv(t) /\ OrderInv(t) /\ ReachInv(t)
      BY <1>2, <2>1 DEF managerVars, historyVars, CatchInv, InOrder, ListInv, ManagerTypes
    <3>2. \A d \in Conn : Served(announced, d, t) => Served(announced, d, t)'
      BY <2>1, <3>1 DEF Served, Sets
    <3>3. ReachInv(t)'
      BY <2>1, <3>1, <3>2, SteadyReach
    <3>4. QED
      BY <2>1, <3>1, <3>3, Steady DEF InOrder
  <2>2. CASE Emissions
    <3>1. view' = view /\ Loop \in Emitter
      BY <2>2, MonitorAssumption DEF Emissions
    <3>2. ASSUME NEW e \in Emitter, EmitTaskUpdate(e) PROVE InOrder(t)'
      <4>1. PICK u \in Task :
              /\ Broadcast(e, Message("task_update", [x \in {u} |-> store[u]]))
              /\ announced' = [announced EXCEPT ![u] = store[u]]
        BY <3>2 DEF EmitTaskUpdate
      <4>2. Message("task_update", [x \in {u} |-> store[u]]) \in Messages
        BY DEF StatusInv, Message, Messages
      <4>3. QED
        BY <1>2, <3>1, <4>1, <4>2, EmitCatches
    <3>3. ASSUME NEW e \in Emitter, Broadcast(e, None), announced' = announced
          PROVE  InOrder(t)'
      BY <1>2, <3>1, <3>3, EmitCatches
    <3>4. ASSUME NEW u \in Task, UpdateSilently(u) PROVE InOrder(t)'
      BY <2>1, <3>1, <3>4 DEF UpdateSilently
    <3>5. QED
      BY <2>2, <3>1, <3>2, <3>3, <3>4 DEF Emissions, Emit, EmitMetrics, EmitWorkerUpdate
  <2>3. ASSUME NEW c \in Conn, Serve(c) PROVE InOrder(t)'
    <3>1. view' = view /\ announced' = announced
      BY <2>3 DEF Serve, monitorVars
    <3>2. QED
      BY <1>2, <2>3, <3>1, ResumeCatches, GreetCatches, EndCatches, BreakCatches DEF Serve
  <2>4. ASSUME NEW c \in Conn, Join(c) \/ HandleMessage(c) PROVE InOrder(t)'
    BY <1>2, <2>4, JoinCatches, HandleCatches
  <2>5. CASE UNCHANGED vars
    BY <2>1, <2>5 DEF vars, monitorVars
  <2>6. QED
    BY <2>2, <2>3, <2>4, <2>5 DEF Next
<1>3. QED
  BY <1>1, <1>2 DEF CatchInv

\* A client at rest shows no task older than its last announcement, except where a client
\* left while that task was announced and no later announcement of it began on its own, or
\* where the last the client was told of it came before its initial state.
THEOREM CaughtUpHolds == Spec => []CaughtUp
<1>1. Init => CatchInv
  <2> SUFFICES ASSUME Init PROVE CatchInv
    OBVIOUS
  <2>1. /\ Len(active) = 0 /\ DOMAIN view = Conn /\ \A e \in Emitter : bc[e] = None
    BY DEF Init, ManagerInit
  <2>2. QED
    BY <2>1 DEF CatchInv, InOrder, PlaceInv, OrderInv, ReachInv, Carries
<1>2. ListInv /\ CatchInv => CaughtUp
  <2> SUFFICES ASSUME ListInv, CatchInv, NEW c \in Conn, NEW t \in Task, AtRest(c),
                      t \notin disturbed, <<c, t>> \notin overtaken
               PROVE  t \in DOMAIN view[c] /\ view[c][t] >= announced[t]
    BY DEF CaughtUp
  <2>1. PICK k \in 1..Len(active) : active[k] = c
    BY DEF AtRest, ListInv, UpIsListed
  <2>2. \A f \in Emitter : ~Latest(announced, f, t)
    BY DEF AtRest, Latest, Carries
  <2>3. Served(announced, c, t)
    BY <2>1, <2>2 DEF AtRest, CatchInv, InOrder, ReachInv
  <2>4. FreshIn(<<>>, view[c], t, announced[t])
    BY <2>3 DEF AtRest, Served
  <2>5. QED
    BY <2>4, FreshShown
<1>3. QED
  BY <1>1, <1>2, CatchStep, FeedInvariant, PTL DEF Spec
=============================================================================
