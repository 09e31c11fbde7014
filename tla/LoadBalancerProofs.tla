------------------------- MODULE LoadBalancerProofs -------------------------
(***************************************************************************)
(* Proofs about LoadBalancer, for any number of workers and coroutines.    *)
(***************************************************************************)
EXTENDS LoadBalancer, FiniteSetTheorems, TLAPS

\* Workers are positive naturals and None is not one of them.
LEMMA WorkerFacts == Worker \subseteq Nat /\ None \notin Worker
BY NumWorkersAssumption, NoneAssumption DEF Worker

\* Clamping keeps load_pct a percentage.
LEMMA LoadRange ==
    ASSUME NEW load \in 0..100
    PROVE  LoadAfterAssign(load) \in 0..100 /\ LoadAfterRelease(load) \in 0..100
BY DEF LoadAfterAssign, LoadAfterRelease

\* The holders of a worker form a finite set, no larger than the set of coroutines.
LEMMA HoldersFinite ==
    ASSUME NEW w \in Worker
    PROVE  /\ IsFiniteSet(Holders(w))
           /\ Cardinality(Holders(w)) \in Nat
           /\ Cardinality(Holders(w)) <= Cardinality(Pipe)
           /\ Cardinality(Pipe) \in Nat
<1>1. Holders(w) \subseteq Pipe
  BY DEF Holders
<1>2. QED
  BY <1>1, PipeAssumption, FS_Subset, FS_CardinalityType

\* An assignment adds one holder to one worker and leaves the others alone.
LEMMA AssignHolders ==
    ASSUME LBTypeOK, NEW p \in Pipe, NEW w \in Worker,
           worker_id[p] = None,
           worker_id' = [worker_id EXCEPT ![p] = w]
    PROVE  /\ Holders(w)' = Holders(w) \union {p}
           /\ Cardinality(Holders(w)') = Cardinality(Holders(w)) + 1
           /\ \A v \in Worker \ {w} : Holders(v)' = Holders(v)
<1>1. p \notin Holders(w)
  BY WorkerFacts DEF Holders
<1>2. Holders(w)' = Holders(w) \union {p}
  BY DEF LBTypeOK, Holders
<1>3. \A v \in Worker \ {w} : Holders(v)' = Holders(v)
  BY WorkerFacts DEF LBTypeOK, Holders
<1>4. Cardinality(Holders(w) \union {p}) = Cardinality(Holders(w)) + 1
  BY <1>1, HoldersFinite, FS_AddElement
<1>5. QED
  BY <1>2, <1>3, <1>4

\* A release removes one holder from one worker and leaves the others alone.
LEMMA ReleaseHolders ==
    ASSUME LBTypeOK, NEW p \in Pipe, NEW w \in Worker,
           worker_id[p] = w,
           worker_id' = [worker_id EXCEPT ![p] = None]
    PROVE  /\ Holders(w)' = Holders(w) \ {p}
           /\ Cardinality(Holders(w)) \in Nat \ {0}
           /\ Cardinality(Holders(w)') = Cardinality(Holders(w)) - 1
           /\ \A v \in Worker \ {w} : Holders(v)' = Holders(v)
<1>1. p \in Holders(w)
  BY DEF Holders
<1>2. Holders(w)' = Holders(w) \ {p}
  BY WorkerFacts DEF LBTypeOK, Holders
<1>3. \A v \in Worker \ {w} : Holders(v)' = Holders(v)
  BY WorkerFacts DEF LBTypeOK, Holders
<1>4. Cardinality(Holders(w) \ {p}) = Cardinality(Holders(w)) - 1
  BY <1>1, HoldersFinite, FS_RemoveElement
<1>5. Cardinality(Holders(w)) # 0
  BY <1>1, HoldersFinite, FS_EmptySet
<1>6. QED
  BY <1>2, <1>3, <1>4, <1>5, HoldersFinite

-----------------------------------------------------------------------------
\* What an assignment does, with the chosen worker named.
AssignTo(p, t, w) ==
    /\ worker_id[p] = None
    /\ worker_id' = [worker_id EXCEPT ![p] = w]
    /\ workers' = [workers EXCEPT ![w] = Busy(workers[w], t)]
    /\ overbooked' = [overbooked EXCEPT
            ![w] = Excess(overbooked[w], Cardinality(Holders(w)) + 1)]

\* What a release does, with the released worker named.
ReleaseFrom(p, success, w) ==
    /\ worker_id[p] = w
    /\ worker_id' = [worker_id EXCEPT ![p] = None]
    /\ workers' = [workers EXCEPT ![w] = Released(workers[w], success)]
    /\ overbooked' = [overbooked EXCEPT
            ![w] = IF Holders(w) = {p} THEN 0 ELSE overbooked[w]]

\* Every step of the load balancer is one of the two, on a registered worker.
LEMMA StepForms ==
    ASSUME LBTypeOK, LBNext
    PROVE  \E p \in Pipe, w \in Worker :
              \/ \E t \in Task : AssignTo(p, t, w)
              \/ \E success \in BOOLEAN : ReleaseFrom(p, success, w)
<1>1. PICK p \in Pipe :
        \/ \E t \in Task, type \in {"cpu", "io"} : AssignWorker(p, t, type)
        \/ \E success \in BOOLEAN : ReleaseWorker(p, success)
  BY DEF LBNext
<1>2. CASE \E t \in Task, type \in {"cpu", "io"} : AssignWorker(p, t, type)
  BY <1>2 DEF AssignWorker, AssignTo, LeastLoaded, Candidates
<1>3. CASE \E success \in BOOLEAN : ReleaseWorker(p, success)
  BY <1>3 DEF ReleaseWorker, ReleaseFrom, LBTypeOK
<1>4. QED
  BY <1>1, <1>2, <1>3

\* The type invariant is inductive.
LEMMA LBTypeStep == LBTypeOK /\ [LBNext]_lbVars => LBTypeOK'
<1> SUFFICES ASSUME LBTypeOK, LBNext PROVE LBTypeOK'
  BY DEF LBTypeOK, lbVars
<1>1. PICK p \in Pipe, w \in Worker :
        \/ \E t \in Task : AssignTo(p, t, w)
        \/ \E success \in BOOLEAN : ReleaseFrom(p, success, w)
  BY StepForms
<1>2. /\ LoadAfterAssign(workers[w].load_pct) \in 0..100
      /\ LoadAfterRelease(workers[w].load_pct) \in 0..100
  BY LoadRange DEF LBTypeOK, WorkerStatus
<1> Cardinality(Holders(w)) \in Nat /\ overbooked[w] \in Nat
  BY HoldersFinite DEF LBTypeOK
<1>3. CASE \E t \in Task : AssignTo(p, t, w)
  <2>1. Excess(overbooked[w], Cardinality(Holders(w)) + 1) \in Nat
    BY DEF Excess
  <2>2. QED
    BY <1>2, <1>3, <2>1 DEF LBTypeOK, WorkerStatus, AssignTo, Busy
<1>4. CASE \E success \in BOOLEAN : ReleaseFrom(p, success, w)
  BY <1>2, <1>4 DEF LBTypeOK, WorkerStatus, ReleaseFrom, Released
<1>5. QED
  BY <1>1, <1>3, <1>4

\* Worker records keep their type through every sequence of assignments and
\* releases; in particular load_pct stays a percentage.
THEOREM LBTypeCorrect == LBSpec => []LBTypeOK
<1>1. LBInit => LBTypeOK
  BY DEF LBInit, LBTypeOK, Registered, WorkerStatus
<1>2. QED
  BY <1>1, LBTypeStep, PTL DEF LBSpec

-----------------------------------------------------------------------------
\* load_pct never exceeds 25 per coroutine that holds the worker, for every number
\* of coroutines: the clamps only ever lose load.
THEOREM LoadNeverOverstatedHolds == LBSpec => []LoadNeverOverstated
<1>1. LBInit => LoadNeverOverstated
  BY HoldersFinite DEF LBInit, LoadNeverOverstated, Registered
<1>2. LBTypeOK /\ LoadNeverOverstated /\ [LBNext]_lbVars => LoadNeverOverstated'
  <2>1. SUFFICES ASSUME LBTypeOK, LoadNeverOverstated, LBNext
                 PROVE  LoadNeverOverstated'
    BY DEF LoadNeverOverstated, Holders, lbVars
  <2>2. PICK p \in Pipe, w \in Worker :
          \/ \E t \in Task : AssignTo(p, t, w)
          \/ \E success \in BOOLEAN : ReleaseFrom(p, success, w)
    BY <2>1, StepForms
  <2>3. /\ workers[w].load_pct \in 0..100
        /\ workers[w].load_pct <= 25 * Cardinality(Holders(w))
        /\ Cardinality(Holders(w)) \in Nat
    BY <2>1, HoldersFinite DEF LBTypeOK, WorkerStatus, LoadNeverOverstated
  <2>4. CASE \E t \in Task : AssignTo(p, t, w)
    <3>1. /\ Cardinality(Holders(w)') = Cardinality(Holders(w)) + 1
          /\ \A v \in Worker \ {w} : Holders(v)' = Holders(v)
      BY <2>1, <2>4, AssignHolders DEF AssignTo
    <3>2. /\ workers'[w].load_pct = LoadAfterAssign(workers[w].load_pct)
          /\ \A v \in Worker \ {w} : workers'[v] = workers[v]
      BY <2>1, <2>4 DEF AssignTo, Busy, LBTypeOK, WorkerStatus
    <3>3. workers'[w].load_pct <= 25 * Cardinality(Holders(w)')
      BY <2>3, <3>1, <3>2 DEF LoadAfterAssign
    <3>4. QED
      BY <2>1, <3>1, <3>2, <3>3 DEF LoadNeverOverstated
  <2>5. CASE \E success \in BOOLEAN : ReleaseFrom(p, success, w)
    <3>1. /\ Cardinality(Holders(w)') = Cardinality(Holders(w)) - 1
          /\ Cardinality(Holders(w)) # 0
          /\ \A v \in Worker \ {w} : Holders(v)' = Holders(v)
      BY <2>1, <2>5, ReleaseHolders DEF ReleaseFrom
    <3>2. /\ workers'[w].load_pct = LoadAfterRelease(workers[w].load_pct)
          /\ \A v \in Worker \ {w} : workers'[v] = workers[v]
      BY <2>1, <2>5 DEF ReleaseFrom, Released, LBTypeOK, WorkerStatus
    <3>3. workers'[w].load_pct <= 25 * Cardinality(Holders(w)')
      BY <2>3, <3>1, <3>2 DEF LoadAfterRelease
    <3>4. QED
      BY <2>1, <3>1, <3>2, <3>3 DEF LoadNeverOverstated
  <2>6. QED
    BY <2>2, <2>4, <2>5
<1>3. QED
  BY <1>1, <1>2, LBTypeCorrect, PTL DEF LBSpec

-----------------------------------------------------------------------------
\* No interleaving leaves a worker busy, or with a current task, that no coroutine
\* holds: release_worker clears both, and only then is the last holder gone.
THEOREM NoPhantomBusyHolds == LBSpec => []NoPhantomBusy
<1>1. LBInit => NoPhantomBusy
  BY DEF LBInit, NoPhantomBusy, Registered
<1>2. LBTypeOK /\ NoPhantomBusy /\ [LBNext]_lbVars => NoPhantomBusy'
  <2>1. SUFFICES ASSUME LBTypeOK, NoPhantomBusy, LBNext
                 PROVE  NoPhantomBusy'
    BY DEF NoPhantomBusy, Holders, lbVars
  <2>2. PICK p \in Pipe, w \in Worker :
          \/ \E t \in Task : AssignTo(p, t, w)
          \/ \E success \in BOOLEAN : ReleaseFrom(p, success, w)
    BY <2>1, StepForms
  <2>3. CASE \E t \in Task : AssignTo(p, t, w)
    <3>1. /\ Holders(w)' = Holders(w) \union {p}
          /\ \A v \in Worker \ {w} : Holders(v)' = Holders(v)
      BY <2>1, <2>3, AssignHolders DEF AssignTo
    <3>2. \A v \in Worker \ {w} : workers'[v] = workers[v]
      BY <2>1, <2>3 DEF AssignTo, LBTypeOK
    <3>3. QED
      BY <2>1, <3>1, <3>2 DEF NoPhantomBusy
  <2>4. CASE \E success \in BOOLEAN : ReleaseFrom(p, success, w)
    <3>1. \A v \in Worker \ {w} : Holders(v)' = Holders(v)
      BY <2>1, <2>4, ReleaseHolders DEF ReleaseFrom
    <3>2. /\ workers'[w].status = "idle" /\ workers'[w].current_task = None
          /\ \A v \in Worker \ {w} : workers'[v] = workers[v]
      BY <2>1, <2>4 DEF ReleaseFrom, Released, LBTypeOK
    <3>3. QED
      BY <2>1, <3>1, <3>2 DEF NoPhantomBusy
  <2>5. QED
    BY <2>2, <2>3, <2>4
<1>3. QED
  BY <1>1, <1>2, LBTypeCorrect, PTL DEF LBSpec

-----------------------------------------------------------------------------
\* The clamp at 100 loses no more than 25 for every holder beyond four, for any
\* number of coroutines on any number of workers.
THEOREM LoadLossBoundedHolds == LBSpec => []LoadLossBounded
<1>1. LBInit => LoadLossBounded
  <2>1. SUFFICES ASSUME LBInit, NEW w \in Worker
                 PROVE  25 * Cardinality(Holders(w))
                            <= workers[w].load_pct + 25 * overbooked[w]
    BY DEF LoadLossBounded
  <2>2. Holders(w) = {}
    BY <2>1, WorkerFacts DEF LBInit, Holders
  <2>3. Cardinality(Holders(w)) = 0
    BY <2>2, FS_EmptySet
  <2>4. QED
    BY <2>1, <2>3 DEF LBInit, Registered
<1>2. LBTypeOK /\ LoadLossBounded /\ [LBNext]_lbVars => LoadLossBounded'
  <2>1. SUFFICES ASSUME LBTypeOK, LoadLossBounded, LBNext
                 PROVE  LoadLossBounded'
    BY DEF LoadLossBounded, Holders, lbVars
  <2>2. PICK p \in Pipe, w \in Worker :
          \/ \E t \in Task : AssignTo(p, t, w)
          \/ \E success \in BOOLEAN : ReleaseFrom(p, success, w)
    BY <2>1, StepForms
  <2>3. /\ workers[w].load_pct \in 0..100
        /\ overbooked[w] \in Nat
        /\ Cardinality(Holders(w)) \in Nat
        /\ 25 * Cardinality(Holders(w)) <= workers[w].load_pct + 25 * overbooked[w]
    BY <2>1, HoldersFinite DEF LBTypeOK, WorkerStatus, LoadLossBounded
  <2>4. CASE \E t \in Task : AssignTo(p, t, w)
    <3>1. /\ Cardinality(Holders(w)') = Cardinality(Holders(w)) + 1
          /\ \A v \in Worker \ {w} : Holders(v)' = Holders(v)
      BY <2>1, <2>4, AssignHolders DEF AssignTo
    <3>2. /\ workers'[w].load_pct = LoadAfterAssign(workers[w].load_pct)
          /\ overbooked'[w] = Excess(overbooked[w], Cardinality(Holders(w)) + 1)
          /\ \A v \in Worker \ {w} :
                workers'[v] = workers[v] /\ overbooked'[v] = overbooked[v]
      BY <2>1, <2>4 DEF AssignTo, Busy, LBTypeOK, WorkerStatus
    <3>3. 25 * Cardinality(Holders(w)') <= workers'[w].load_pct + 25 * overbooked'[w]
      BY <2>3, <3>1, <3>2 DEF LoadAfterAssign, Excess
    <3>4. QED
      BY <2>1, <3>1, <3>2, <3>3 DEF LoadLossBounded
  <2>5. CASE \E success \in BOOLEAN : ReleaseFrom(p, success, w)
    <3>1. /\ Cardinality(Holders(w)') = Cardinality(Holders(w)) - 1
          /\ Cardinality(Holders(w)) # 0
          /\ Holders(w)' = Holders(w) \ {p}
          /\ \A v \in Worker \ {w} : Holders(v)' = Holders(v)
      BY <2>1, <2>5, ReleaseHolders DEF ReleaseFrom
    <3>2. /\ workers'[w].load_pct = LoadAfterRelease(workers[w].load_pct)
          /\ overbooked'[w] = IF Holders(w) = {p} THEN 0 ELSE overbooked[w]
          /\ \A v \in Worker \ {w} :
                workers'[v] = workers[v] /\ overbooked'[v] = overbooked[v]
      BY <2>1, <2>5 DEF ReleaseFrom, Released, LBTypeOK, WorkerStatus
    <3>3. 25 * Cardinality(Holders(w)') <= workers'[w].load_pct + 25 * overbooked'[w]
      <4>1. CASE Holders(w) = {p}
        <5>1. Holders(w)' = {}
          BY <3>1, <4>1
        <5>2. Cardinality(Holders(w)') = 0
          BY <5>1, FS_EmptySet
        <5>3. workers'[w].load_pct \in Nat
          BY <2>3, <3>2 DEF LoadAfterRelease
        <5>4. overbooked'[w] = 0
          BY <3>2, <4>1
        <5>5. QED
          BY <5>2, <5>3, <5>4
      <4>2. CASE Holders(w) # {p}
        <5>1. overbooked'[w] = overbooked[w]
          BY <3>2, <4>2
        <5>2. QED
          BY <2>3, <3>1, <3>2, <5>1 DEF LoadAfterRelease
      <4>3. QED
        BY <4>1, <4>2
    <3>4. QED
      BY <2>1, <3>1, <3>2, <3>3 DEF LoadLossBounded
  <2>6. QED
    BY <2>2, <2>4, <2>5
<1>3. QED
  BY <1>1, <1>2, LBTypeCorrect, PTL DEF LBSpec

-----------------------------------------------------------------------------
\* Nothing ever takes a worker offline.
NoneOffline == \A w \in Worker : workers[w].status # "offline"

LEMMA NoneOfflineHolds == LBSpec => []NoneOffline
<1>1. LBInit => NoneOffline
  BY DEF LBInit, NoneOffline, Registered
<1>2. LBTypeOK /\ NoneOffline /\ [LBNext]_lbVars => NoneOffline'
  <2>1. SUFFICES ASSUME LBTypeOK, NoneOffline, LBNext
                 PROVE  NoneOffline'
    BY DEF NoneOffline, lbVars
  <2>2. PICK p \in Pipe, w \in Worker :
          \/ \E t \in Task : AssignTo(p, t, w)
          \/ \E success \in BOOLEAN : ReleaseFrom(p, success, w)
    BY <2>1, StepForms
  <2>3. workers'[w].status \in {"busy", "idle"}
    BY <2>1, <2>2 DEF AssignTo, Busy, ReleaseFrom, Released, LBTypeOK
  <2>4. \A v \in Worker \ {w} : workers'[v] = workers[v]
    BY <2>1, <2>2 DEF AssignTo, ReleaseFrom, LBTypeOK
  <2>5. QED
    BY <2>1, <2>3, <2>4 DEF NoneOffline
<1>3. QED
  BY <1>1, <1>2, LBTypeCorrect, PTL DEF LBSpec

\* The worker a coroutine is given has at most as many holders as any other of its
\* type, plus the holders beyond four it has had itself: between what load_pct says
\* and the real utilisation lies no more than that.
THEOREM LeastUtilizedChosenHolds == LBSpec => LeastUtilizedChosen
<1> DEFINE Chosen ==
      \A p \in Pipe :
         worker_id[p] = None /\ worker_id'[p] # None =>
            \A v \in Worker :
                WorkerType(v) = WorkerType(worker_id'[p]) =>
                    Cardinality(Holders(worker_id'[p]))
                        <= Cardinality(Holders(v)) + overbooked[worker_id'[p]]
<1>1. LBTypeOK /\ LoadNeverOverstated /\ LoadLossBounded /\ NoneOffline
        /\ [LBNext]_lbVars => [Chosen]_lbVars
  <2>1. SUFFICES ASSUME LBTypeOK, LoadNeverOverstated, LoadLossBounded, NoneOffline,
                        LBNext,
                        NEW p \in Pipe, worker_id[p] = None, worker_id'[p] # None,
                        NEW v \in Worker,
                        WorkerType(v) = WorkerType(worker_id'[p])
                 PROVE  Cardinality(Holders(worker_id'[p]))
                            <= Cardinality(Holders(v)) + overbooked[worker_id'[p]]
    BY DEF lbVars
  <2>2. PICK t \in Task, type \in {"cpu", "io"} : AssignWorker(p, t, type)
    <3>1. PICK q \in Pipe :
            \/ \E t \in Task, type \in {"cpu", "io"} : AssignWorker(q, t, type)
            \/ \E success \in BOOLEAN : ReleaseWorker(q, success)
      BY <2>1 DEF LBNext
    <3>2. q = p
      BY <2>1, <3>1 DEF AssignWorker, ReleaseWorker, LBTypeOK
    <3>3. QED
      BY <2>1, <3>1, <3>2 DEF ReleaseWorker
  <2>3. PICK w \in LeastLoaded(type) : worker_id' = [worker_id EXCEPT ![p] = w]
    BY <2>2 DEF AssignWorker
  <2>4. w \in Worker /\ worker_id'[p] = w /\ WorkerType(w) = type
    BY <2>1, <2>3 DEF LeastLoaded, Candidates, LBTypeOK
  <2>5. v \in Candidates(type)
    BY <2>1, <2>4 DEF Candidates, NoneOffline
  <2>6. workers[w].load_pct \in Nat /\ workers[v].load_pct \in Nat
    BY <2>1, <2>4 DEF LBTypeOK, WorkerStatus
  <2>7. workers[w].load_pct <= workers[v].load_pct
    BY <2>3, <2>5, <2>6 DEF LeastLoaded
  <2>8. /\ 25 * Cardinality(Holders(w)) <= workers[w].load_pct + 25 * overbooked[w]
        /\ workers[v].load_pct <= 25 * Cardinality(Holders(v))
        /\ Cardinality(Holders(w)) \in Nat /\ Cardinality(Holders(v)) \in Nat
        /\ overbooked[w] \in Nat
    BY <2>1, <2>4, HoldersFinite DEF LoadNeverOverstated, LoadLossBounded, LBTypeOK
  <2>9. Cardinality(Holders(w)) <= Cardinality(Holders(v)) + overbooked[w]
    BY <2>6, <2>7, <2>8
  <2>10. QED
    BY <2>4, <2>9
<1>2. QED
  BY <1>1, LBTypeCorrect, LoadNeverOverstatedHolds, LoadLossBoundedHolds,
     NoneOfflineHolds, PTL DEF LBSpec, LeastUtilizedChosen
=============================================================================
