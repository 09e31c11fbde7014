------------------------- MODULE MemoryQueueProofs -------------------------
(***************************************************************************)
(* Theorems about MemoryQueue: for any number of partitions, consumers and *)
(* groups, no partition starves and stop() takes effect before another     *)
(* pass.                                                                   *)
(***************************************************************************)
EXTENDS MemoryQueue, TLAPS

(* The cursor *)

\* The partition a cursor stands at.
At(r) == IF r = N THEN 0 ELSE r

\* The looks a consumer makes from cursor r before it comes to partition q.
Dist(r, q) == IF q >= At(r) THEN q - At(r) ELSE q + N - At(r)

\* A remainder of a number below 2N.
LEMMA ModTwice ==
    ASSUME NEW a \in Nat, a < 2 * N
    PROVE  a % N = IF a < N THEN a ELSE a - N
<1>1. N \in Nat /\ N > 0
  BY QueueAssumption
<1>2. QED
  BY <1>1

\* A look goes to a partition.
LEMMA LookInPart ==
    ASSUME NEW r \in 0..N, NEW i \in Nat, i >= 1
    PROVE  Look(r, i) \in Part
<1>1. N \in Nat /\ N > 0
  BY QueueAssumption
<1>2. r + i - 1 \in Nat
  BY <1>1
<1>3. (r + i - 1) % N \in 0..(N - 1)
  BY <1>1, <1>2
<1>4. QED
  BY <1>3 DEF Look, Part

\* After Dist(r, q) looks elsewhere the next one goes to q.
LEMMA LookReaches ==
    ASSUME NEW r \in 0..N, NEW q \in Part
    PROVE  /\ Dist(r, q) \in 0..(N - 1)
           /\ Look(r, Dist(r, q) + 1) = q
<1>1. N \in Nat /\ N > 0
  BY QueueAssumption
<1>2. At(r) \in 0..(N - 1) /\ q \in 0..(N - 1)
  BY <1>1 DEF At, Part
<1>3. Dist(r, q) \in 0..(N - 1)
  BY <1>1, <1>2 DEF Dist
<1>4. r + (Dist(r, q) + 1) - 1 \in Nat /\ r + (Dist(r, q) + 1) - 1 < 2 * N
  BY <1>1, <1>3
<1>5. Look(r, Dist(r, q) + 1) =
        IF r + Dist(r, q) < N THEN r + Dist(r, q) ELSE r + Dist(r, q) - N
  BY <1>1, <1>3, <1>4, ModTwice DEF Look
<1>6. QED
  BY <1>1, <1>2, <1>3, <1>5 DEF Dist, At

\* Every look that does not go to q comes nearer to it.
LEMMA LookApproaches ==
    ASSUME NEW r \in 0..N, NEW q \in Part, NEW i \in 1..Dist(r, q)
    PROVE  Dist(Look(r, i) + 1, q) = Dist(r, q) - i
<1>1. N \in Nat /\ N > 0
  BY QueueAssumption
<1>2. At(r) \in 0..(N - 1) /\ q \in 0..(N - 1)
  BY <1>1 DEF At, Part
<1>3. Dist(r, q) \in 0..(N - 1)
  BY LookReaches
<1>4. r + i - 1 \in Nat /\ r + i - 1 < 2 * N
  BY <1>1, <1>3
<1>5. Look(r, i) = IF r + i - 1 < N THEN r + i - 1 ELSE r + i - 1 - N
  BY <1>1, <1>3, <1>4, ModTwice DEF Look
<1>6. QED
  BY <1>1, <1>2, <1>3, <1>5 DEF Dist, At

-----------------------------------------------------------------------------
(* Types *)

\* The i-th look of consumer c finds a message in partition p: what Take then does.
Taken(c, i, p) ==
    LET g == Group[c]
    IN  /\ i \in Hits(c)
        /\ p = Look(consumer_rr[g], i)
        /\ \A j \in Hits(c) : i <= j
        /\ queues' = [queues EXCEPT ![p] = Tail(@)]
        /\ consumer_rr' = [consumer_rr EXCEPT ![g] = p + 1]
        /\ looks' = [looks EXCEPT ![c] = (IF i <= looks[c] THEN looks[c] ELSE Ahead(c)) - i]
        /\ taken' = [taken EXCEPT ![g] = @ \union {<<p, Head(queues[p])>>}]
        /\ waited' = [h \in Groups |-> [q \in Part |->
                        IF q = p \/ queues[q] = <<>> THEN 0
                        ELSE waited[h][q] + (IF h = g THEN 1 ELSE 0)]]
        /\ late' = [late EXCEPT ![c] = @ + (IF running THEN 0 ELSE 1)]
        /\ UNCHANGED <<running, offsets, total_produced, ended>>

\* What the look was, and where it went.
LEMMA TakeFacts ==
    ASSUME TypeOK, NEW c \in Consumer, NEW i \in Hits(c)
    PROVE  /\ i \in Nat /\ i >= 1 /\ i <= Ahead(c)
           /\ Ahead(c) = looks[c] + (IF running THEN N ELSE 0)
           /\ Group[c] \in Groups
           /\ consumer_rr[Group[c]] \in 0..N
           /\ Look(consumer_rr[Group[c]], i) \in Part
           /\ queues[Look(consumer_rr[Group[c]], i)] # <<>>
<1>1. N \in Nat /\ N > 0
  BY QueueAssumption
<1>2. Ahead(c) = looks[c] + (IF running THEN N ELSE 0) /\ looks[c] \in 0..(N - 1)
  BY DEF Ahead, TypeOK
<1>3. i \in Nat /\ i >= 1 /\ i <= Ahead(c)
  BY <1>1, <1>2 DEF Hits
<1>4. Group[c] \in Groups
  BY DEF Groups
<1>5. consumer_rr[Group[c]] \in 0..N
  BY <1>4 DEF TypeOK
<1>6. QED
  BY <1>2, <1>3, <1>4, <1>5, LookInPart DEF Hits

\* Every Take is such a step.
LEMMA TakeIsTaken ==
    ASSUME TypeOK, NEW c \in Consumer, Take(c)
    PROVE  \E i \in Hits(c), p \in Part : Taken(c, i, p)
<1>1. PICK i \in Hits(c) : Taken(c, i, Look(consumer_rr[Group[c]], i))
  BY Zenon DEF Take, Taken
<1>2. Look(consumer_rr[Group[c]], i) \in Part
  BY TakeFacts
<1>3. QED
  BY <1>1, <1>2

\* The queue starts with its types.
LEMMA TypeInit == Init => TypeOK
BY QueueAssumption DEF Init, TypeOK, Part

\* Every step keeps them.
LEMMA TypeStep == TypeOK /\ [Next]_vars => TypeOK'
<1> SUFFICES ASSUME TypeOK, [Next]_vars PROVE TypeOK'
  OBVIOUS
<1> USE QueueAssumption
<1>1. CASE Stop
  BY <1>1 DEF Stop, TypeOK
<1>2. ASSUME NEW partition \in Partition, Produce(partition) PROVE TypeOK'
  <2> DEFINE n == IF partition = None THEN total_produced ELSE partition
             p == n % N
  <2>1. n \in Nat
    BY DEF TypeOK
  <2>2. p \in Part
    BY <2>1 DEF Part
  <2>3. /\ queues' = [queues EXCEPT ![p] = Append(@, offsets[p])]
        /\ offsets' = [offsets EXCEPT ![p] = @ + 1]
        /\ total_produced' = total_produced + 1
        /\ UNCHANGED <<running, consumer_rr, ended, looks, taken, waited, late>>
    BY <1>2 DEF Produce
  <2> HIDE DEF p
  <2>4. offsets[p] \in Nat /\ queues[p] \in Seq(Nat)
    BY <2>2 DEF TypeOK
  <2>5. queues' \in [Part -> Seq(Nat)]
    BY <2>2, <2>3, <2>4 DEF TypeOK
  <2>6. offsets' \in [Part -> Nat] /\ total_produced' \in Nat
    BY <2>2, <2>3 DEF TypeOK
  <2>7. QED
    BY <2>3, <2>5, <2>6 DEF TypeOK
<1>3. ASSUME NEW c \in Consumer, Take(c) PROVE TypeOK'
  <2>1. PICK i \in Hits(c), p \in Part : Taken(c, i, p)
    BY <1>3, TakeIsTaken
  <2>2. p \in Part /\ queues[p] # <<>> /\ Group[c] \in Groups
    BY <2>1, TakeFacts DEF Taken
  <2>3. /\ i \in Nat /\ i >= 1 /\ i <= Ahead(c)
        /\ Ahead(c) = looks[c] + (IF running THEN N ELSE 0)
    BY TakeFacts
  <2>4. queues[p] \in Seq(Nat) /\ Tail(queues[p]) \in Seq(Nat) /\ Head(queues[p]) \in Nat
    BY <2>2 DEF TypeOK
  <2>5. queues' \in [Part -> Seq(Nat)]
    BY <2>1, <2>4 DEF Taken, TypeOK
  <2>5a. taken' \in [Groups -> SUBSET (Part \X Nat)]
    BY <2>1, <2>2, <2>4 DEF Taken, TypeOK
  <2>6. consumer_rr' \in [Groups -> 0..N]
    <3>1. p + 1 \in 0..N
      BY <2>2 DEF Part
    <3>2. QED
      BY <2>1, <3>1 DEF TypeOK, Taken
  <2>7. looks' \in [Consumer -> 0..(N - 1)]
    <3>1. looks[c] \in 0..(N - 1) /\ running \in BOOLEAN
      BY DEF TypeOK
    <3>2. (IF i <= looks[c] THEN looks[c] ELSE Ahead(c)) - i \in 0..(N - 1)
      <4>1. CASE running
        BY <2>3, <3>1, <4>1
      <4>2. CASE ~running
        BY <2>3, <3>1, <4>2
      <4>3. QED
        BY <4>1, <4>2
    <3>3. QED
      BY <2>1, <3>2 DEF TypeOK, Taken
  <2>8. waited' \in [Groups -> [Part -> Nat]]
    <3>1. ASSUME NEW h \in Groups, NEW q \in Part
          PROVE  (IF q = p \/ queues[q] = <<>> THEN 0
                  ELSE waited[h][q] + (IF h = Group[c] THEN 1 ELSE 0)) \in Nat
      BY DEF TypeOK
    <3>2. QED
      BY <2>1, <3>1 DEF Taken
  <2>9. late' \in [Consumer -> Nat]
    BY <2>1 DEF TypeOK, Taken
  <2>10. QED
    BY <2>1, <2>5, <2>5a, <2>6, <2>7, <2>8, <2>9 DEF TypeOK, Taken
<1>4. ASSUME NEW c \in Consumer, GiveUp(c) PROVE TypeOK'
  <2>1. Group[c] \in Groups
    BY DEF Groups
  <2>2. looks[c] \in 0..(N - 1) /\ running \in BOOLEAN /\ consumer_rr[Group[c]] \in 0..N
    BY <2>1 DEF TypeOK
  <2>3. Ahead(c) \in Nat
    BY <2>2 DEF Ahead
  <2>4. (IF Ahead(c) = 0 THEN consumer_rr[Group[c]]
         ELSE Look(consumer_rr[Group[c]], Ahead(c)) + 1) \in 0..N
    <3>1. CASE Ahead(c) = 0
      BY <2>2, <3>1
    <3>2. CASE Ahead(c) # 0
      <4>1. Look(consumer_rr[Group[c]], Ahead(c)) \in Part
        BY <2>2, <2>3, <3>2, LookInPart
      <4>2. QED
        BY <3>2, <4>1 DEF Part
    <3>3. QED
      BY <3>1, <3>2
  <2>5. consumer_rr' \in [Groups -> 0..N]
    BY <1>4, <2>1, <2>4 DEF GiveUp, TypeOK
  <2>6. looks' \in [Consumer -> 0..(N - 1)] /\ ended' \in [Consumer -> BOOLEAN]
    BY <1>4, <2>2 DEF GiveUp, TypeOK
  <2>7. QED
    BY <1>4, <2>5, <2>6 DEF GiveUp, TypeOK
<1>5. CASE UNCHANGED vars
  BY <1>5 DEF vars, TypeOK
<1>6. QED
  BY <1>1, <1>2, <1>3, <1>4, <1>5 DEF Next

\* The state of the queue keeps its types: every cursor stays within 0..N and a pass
\* never has N looks left (consume).
THEOREM TypeCorrect == Spec => []TypeOK
<1>1. Spec => [][Next]_vars /\ Init
  BY DEF Spec
<1>2. QED
  BY <1>1, TypeInit, TypeStep, PTL

-----------------------------------------------------------------------------
(* stop *)

\* After stop() consumer c is given no more messages than its pass has looks left; before
\* it none counts as late.
StopInv ==
    \A c \in Consumer : IF running THEN late[c] = 0 ELSE late[c] + looks[c] < N

\* Every step keeps StopInv: a look costs a consumer one of the messages it may still get.
LEMMA StopStep == TypeOK /\ StopInv /\ [Next]_vars => StopInv'
<1> SUFFICES ASSUME TypeOK, StopInv, [Next]_vars PROVE StopInv'
  OBVIOUS
<1> USE QueueAssumption
<1>1. CASE Stop
  BY <1>1 DEF Stop, StopInv, TypeOK
<1>2. ASSUME NEW partition \in Partition, Produce(partition) PROVE StopInv'
  BY <1>2 DEF Produce, StopInv
<1>3. ASSUME NEW c \in Consumer, Take(c) PROVE StopInv'
  <2>1. PICK i \in Hits(c), p \in Part : Taken(c, i, p)
    BY <1>3, TakeIsTaken
  <2>2. /\ i \in Nat /\ i >= 1 /\ i <= Ahead(c)
        /\ Ahead(c) = looks[c] + (IF running THEN N ELSE 0)
    BY TakeFacts
  <2>3. /\ looks[c] \in 0..(N - 1) /\ late[c] \in Nat
        /\ IF running THEN late[c] = 0 ELSE late[c] + looks[c] < N
    BY DEF TypeOK, StopInv
  <2>4. /\ running' = running
        /\ looks' = [looks EXCEPT ![c] = (IF i <= looks[c] THEN looks[c] ELSE Ahead(c)) - i]
        /\ late' = [late EXCEPT ![c] = @ + (IF running THEN 0 ELSE 1)]
    BY <2>1 DEF Taken
  <2>5. ASSUME NEW d \in Consumer
        PROVE  IF running' THEN late'[d] = 0 ELSE late'[d] + looks'[d] < N
    <3>1. CASE d # c
      BY <2>4, <3>1 DEF StopInv, TypeOK
    <3>2. CASE d = c /\ running
      BY <2>3, <2>4, <3>2 DEF TypeOK
    <3>3. CASE d = c /\ ~running
      <4>1. late'[c] = late[c] + 1 /\ looks'[c] = looks[c] - i
        BY <2>2, <2>3, <2>4, <3>3 DEF TypeOK
      <4>2. QED
        BY <2>2, <2>3, <2>4, <3>3, <4>1
    <3>4. QED
      BY <3>1, <3>2, <3>3 DEF TypeOK
  <2>6. QED
    BY <2>5 DEF StopInv
<1>4. ASSUME NEW c \in Consumer, GiveUp(c) PROVE StopInv'
  BY <1>4 DEF GiveUp, StopInv, TypeOK
<1>5. CASE UNCHANGED vars
  BY <1>5 DEF vars, StopInv
<1>6. QED
  BY <1>1, <1>2, <1>3, <1>4, <1>5 DEF Next

\* A consumer that is inside a pass when stop() is called is given fewer messages than
\* there are partitions before it returns (consume reads _running between passes only).
THEOREM StopBoundedHolds == Spec => []StopBounded
<1>1. Init => StopInv
  BY DEF Init, StopInv
<1>2. TypeOK /\ StopInv => StopBounded
  <2> SUFFICES ASSUME TypeOK, StopInv, NEW c \in Consumer PROVE late[c] < N
    BY DEF StopBounded
  <2>1. /\ running \in BOOLEAN /\ late[c] \in Nat /\ looks[c] \in 0..(N - 1)
        /\ IF running THEN late[c] = 0 ELSE late[c] + looks[c] < N
    BY DEF TypeOK, StopInv
  <2>2. QED
    BY <2>1, QueueAssumption
<1>3. Spec => [][Next]_vars /\ Init
  BY DEF Spec
<1>4. QED
  BY <1>1, <1>2, <1>3, TypeCorrect, StopStep, PTL

-----------------------------------------------------------------------------
(* The fairness of the shared cursor *)

\* What group g has taken elsewhere while partition p had a message, and what its cursor
\* may still find on the way to p, are fewer than N together.
FairInv ==
    \A g \in Groups, p \in Part :
        /\ waited[g][p] + Dist(consumer_rr[g], p) < N
        /\ queues[p] = <<>> => waited[g][p] = 0

\* A consumer makes a finite number of looks before it sleeps or ends.
LEMMA AheadType ==
    ASSUME TypeOK, NEW c \in Consumer
    PROVE  Ahead(c) \in Nat
BY QueueAssumption DEF Ahead, TypeOK

\* A pass that finds nothing in its first i looks has not looked at a partition with a
\* message: it is i looks nearer.
LEMMA PassedBy ==
    ASSUME TypeOK, NEW c \in Consumer, NEW q \in Part, queues[q] # <<>>,
           NEW i \in Nat, i <= Ahead(c), \A j \in Hits(c) : i < j
    PROVE  i <= Dist(consumer_rr[Group[c]], q)
<1> DEFINE r == consumer_rr[Group[c]]
           d == Dist(r, q)
<1>1. r \in 0..N
  BY DEF TypeOK, Groups
<1>2. d \in 0..(N - 1) /\ Look(r, d + 1) = q
  BY <1>1, LookReaches
<1>3. Ahead(c) \in Nat
  BY AheadType
<1>4. N \in Nat
  BY QueueAssumption
<1> HIDE DEF d
<1>5. CASE d + 1 <= Ahead(c)
  <2>1. d + 1 \in Hits(c)
    BY <1>2, <1>3, <1>4, <1>5 DEF Hits
  <2>2. i < d + 1
    BY <2>1
  <2>3. QED
    BY <1>2, <1>4, <2>2 DEF d
<1>6. CASE d + 1 > Ahead(c)
  BY <1>2, <1>3, <1>4, <1>6 DEF d
<1>7. QED
  BY <1>2, <1>3, <1>4, <1>5, <1>6

\* A partition that was given a message is not empty.
LEMMA NotEmptied ==
    ASSUME NEW s \in Seq(Nat), NEW n \in Nat
    PROVE  Append(s, n) # <<>>
<1>1. Len(Append(s, n)) = Len(s) + 1 /\ Len(s) \in Nat
  OBVIOUS
<1>2. QED
  BY <1>1

\* Every step keeps FairInv: a message taken elsewhere brings the cursor nearer.
LEMMA FairStep == TypeOK /\ TypeOK' /\ FairInv /\ [Next]_vars => FairInv'
<1> SUFFICES ASSUME TypeOK, TypeOK', FairInv, [Next]_vars, NEW h \in Groups, NEW q \in Part
             PROVE  /\ waited'[h][q] + Dist(consumer_rr'[h], q) < N
                    /\ queues'[q] = <<>> => waited'[h][q] = 0
  BY DEF FairInv, Dist, At
<1> DEFINE Goal == /\ waited'[h][q] + Dist(consumer_rr'[h], q) < N
                   /\ queues'[q] = <<>> => waited'[h][q] = 0
<1> USE QueueAssumption
<1>0. /\ waited[h][q] + Dist(consumer_rr[h], q) < N
      /\ queues[q] = <<>> => waited[h][q] = 0
      /\ waited[h][q] \in Nat
      /\ consumer_rr[h] \in 0..N /\ consumer_rr'[h] \in 0..N
      /\ queues[q] \in Seq(Nat)
  BY DEF FairInv, TypeOK
<1>d. Dist(consumer_rr[h], q) \in 0..(N - 1) /\ Dist(consumer_rr'[h], q) \in 0..(N - 1)
  BY <1>0, LookReaches
<1>1. CASE Stop
  BY <1>0, <1>1 DEF Stop
<1>2. ASSUME NEW partition \in Partition, Produce(partition) PROVE Goal
  <2> DEFINE p == (IF partition = None THEN total_produced ELSE partition) % N
  <2>1. /\ queues' = [queues EXCEPT ![p] = Append(@, offsets[p])]
        /\ UNCHANGED <<consumer_rr, waited>>
    BY <1>2 DEF Produce
  <2> HIDE DEF p
  <2>2. queues'[q] = <<>> => queues[q] = <<>>
    <3>1. CASE q = p
      <4>1. offsets[q] \in Nat /\ queues'[q] = Append(queues[q], offsets[q])
        BY <2>1, <3>1 DEF TypeOK
      <4>2. Append(queues[q], offsets[q]) # <<>>
        BY <1>0, <4>1, NotEmptied
      <4>3. QED
        BY <4>1, <4>2
    <3>2. CASE q # p
      BY <1>0, <2>1, <3>2 DEF TypeOK
    <3>3. QED
      BY <3>1, <3>2
  <2>3. QED
    BY <1>0, <2>1, <2>2
<1>3. ASSUME NEW c \in Consumer, Take(c) PROVE Goal
  <2> DEFINE g == Group[c]
  <2>1. PICK i \in Hits(c), p \in Part : Taken(c, i, p)
    BY <1>3, TakeIsTaken
  <2>2. /\ i \in Nat /\ i >= 1 /\ i <= Ahead(c) /\ g \in Groups
        /\ p = Look(consumer_rr[g], i) /\ \A j \in Hits(c) : i <= j
    BY <2>1, TakeFacts DEF Taken
  <2>3. /\ queues' = [queues EXCEPT ![p] = Tail(@)]
        /\ consumer_rr' = [consumer_rr EXCEPT ![g] = p + 1]
        /\ waited'[h][q] = IF q = p \/ queues[q] = <<>> THEN 0
                           ELSE waited[h][q] + (IF h = g THEN 1 ELSE 0)
    BY <2>1 DEF Taken
  <2>4. CASE q = p \/ queues[q] = <<>>
    BY <1>d, <2>3, <2>4
  <2>5. CASE q # p /\ queues[q] # <<>>
    <3>1. queues'[q] # <<>>
      BY <2>3, <2>5 DEF TypeOK
    <3>2. CASE h # g
      <4>1. consumer_rr'[h] = consumer_rr[h] /\ waited'[h][q] = waited[h][q]
        BY <1>0, <2>3, <2>5, <3>2 DEF TypeOK
      <4>2. QED
        BY <1>0, <3>1, <4>1
    <3>3. CASE h = g
      <4> DEFINE r == consumer_rr[h]
      <4>1. Ahead(c) \in Nat /\ i - 1 \in Nat /\ i - 1 <= Ahead(c) /\ \A j \in Hits(c) : i - 1 < j
        <5>1. Ahead(c) \in Nat
          BY AheadType
        <5>2. \A j \in Hits(c) : j \in Nat
          BY <5>1 DEF Hits
        <5>3. QED
          BY <2>2, <5>1, <5>2
      <4>2. i - 1 <= Dist(r, q)
        BY <2>5, <3>3, <4>1, PassedBy
      <4>3. i # Dist(r, q) + 1
        BY <1>0, <2>2, <2>5, <3>3, LookReaches
      <4>4. i \in 1..Dist(r, q)
        BY <1>d, <2>2, <4>2, <4>3
      <4>5. consumer_rr'[h] = Look(r, i) + 1
        BY <2>2, <2>3, <3>3 DEF TypeOK
      <4>6. Dist(consumer_rr'[h], q) = Dist(r, q) - i
        BY <1>0, <4>4, <4>5, LookApproaches
      <4>7. waited'[h][q] = waited[h][q] + 1
        BY <2>3, <2>5, <3>3
      <4>8. \A w, d, k \in Int : k >= 1 /\ w + d < N => (w + 1) + (d - k) < N
        OBVIOUS
      <4>9. /\ Dist(r, q) \in Int /\ i \in Int /\ i >= 1 /\ waited[h][q] \in Int
            /\ waited[h][q] + Dist(r, q) < N
        BY <1>0, <1>d, <4>4
      <4>10. waited'[h][q] + Dist(consumer_rr'[h], q) < N
        BY <4>6, <4>7, <4>8, <4>9
      <4>11. QED
        BY <3>1, <4>10
    <3>4. QED
      BY <3>2, <3>3
  <2>6. QED
    BY <2>4, <2>5
<1>4. ASSUME NEW c \in Consumer, GiveUp(c) PROVE Goal
  <2> DEFINE g == Group[c]
             n == Ahead(c)
  <2>1. /\ waited' = waited /\ queues' = queues /\ Hits(c) = {} /\ g \in Groups
        /\ consumer_rr' = [consumer_rr EXCEPT ![g] = IF n = 0 THEN @ ELSE Look(@, n) + 1]
    BY <1>4 DEF GiveUp, Groups
  <2>2. n \in Nat
    BY AheadType
  <2> HIDE DEF n
  <2>3. CASE h # g \/ n = 0
    <3>1. consumer_rr'[h] = consumer_rr[h]
      BY <2>1, <2>3 DEF TypeOK
    <3>2. QED
      BY <1>0, <2>1, <3>1
  <2>4. CASE queues[q] = <<>>
    BY <1>0, <1>d, <2>1, <2>4
  <2>5. CASE h = g /\ n # 0 /\ queues[q] # <<>>
    <3> DEFINE r == consumer_rr[h]
    <3>1. n <= Dist(r, q)
      BY <2>1, <2>2, <2>5, PassedBy DEF n
    <3>2. n \in 1..Dist(r, q)
      BY <1>d, <2>2, <2>5, <3>1
    <3>3. consumer_rr'[h] = Look(r, n) + 1
      BY <2>1, <2>5 DEF TypeOK
    <3>4. Dist(consumer_rr'[h], q) = Dist(r, q) - n
      BY <1>0, <3>2, <3>3, LookApproaches
    <3>5. waited'[h][q] = waited[h][q] /\ queues'[q] = queues[q]
      BY <2>1
    <3>6. waited[h][q] + (Dist(r, q) - n) < N
      BY <1>0, <1>d, <3>2
    <3>7. QED
      BY <2>5, <3>4, <3>5, <3>6
  <2>6. QED
    BY <2>3, <2>4, <2>5
<1>5. CASE UNCHANGED vars
  BY <1>0, <1>5 DEF vars
<1>6. QED
  BY <1>1, <1>2, <1>3, <1>4, <1>5 DEF Next

\* While a partition has a message, a group takes at most N - 1 messages from the others
\* before it takes that one, however its consumers interrupt each other's passes over the
\* one cursor they share (consume, _consumer_rr).
THEOREM CursorFairHolds == Spec => []CursorFair
<1>1. Init => FairInv
  <2> SUFFICES ASSUME Init, NEW g \in Groups, NEW p \in Part
               PROVE  /\ waited[g][p] + Dist(consumer_rr[g], p) < N
                      /\ waited[g][p] = 0
    BY DEF FairInv
  <2>1. waited[g][p] = 0 /\ consumer_rr[g] = 0 /\ 0 \in 0..N /\ N \in Nat
    BY QueueAssumption DEF Init
  <2>2. Dist(0, p) \in 0..(N - 1)
    BY <2>1, LookReaches
  <2>3. QED
    BY <2>1, <2>2
<1>2. TypeOK /\ FairInv => CursorFair
  <2> SUFFICES ASSUME TypeOK, FairInv, NEW g \in Groups, NEW p \in Part PROVE waited[g][p] < N
    BY DEF CursorFair
  <2>1. /\ waited[g][p] \in Nat /\ consumer_rr[g] \in 0..N
        /\ waited[g][p] + Dist(consumer_rr[g], p) < N
    BY DEF TypeOK, FairInv
  <2>2. Dist(consumer_rr[g], p) \in 0..(N - 1) /\ N \in Nat
    BY <2>1, LookReaches, QueueAssumption
  <2>3. QED
    BY <2>1, <2>2
<1>3. Spec => [][Next]_vars /\ Init
  BY DEF Spec
<1>4. QED
  BY <1>1, <1>2, <1>3, TypeCorrect, FairStep, PTL
=============================================================================
