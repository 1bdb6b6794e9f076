-------------------------- MODULE WorkerPoolProofs --------------------------
(***************************************************************************)
(* The pool for any number of tasks, submitters and workers, any size of   *)
(* the queue and any threshold of the breaker.                             *)
(*                                                                         *)
(* Why the backlog never understates: a ref is put into the queue before   *)
(* it is counted, and a submitter between the two stands for it; the       *)
(* worker that takes it stands for it until its finally clause uncounts    *)
(* it.  Each step moves a ref by one on both sides, or the counter stands  *)
(* at its bound and the two sets cannot be larger.                         *)
(***************************************************************************)
EXTENDS WorkerPool, FiniteSetTheorems, TLAPS

USE BreakerAssumption, PoolAssumption

\* A breaker that tests a task has its probe out.
ProbeOut == \A t \in Task : breaker[t].state = "HALF_OPEN" => breaker[t].probing

IInv == TypeOK /\ BacklogCovers /\ ProbeOut
-----------------------------------------------------------------------------
\* The sets that are compared are finite, and bounded where the counter is.
LEMMA QueuedBounded ==
  ASSUME NEW t
  PROVE  /\ IsFiniteSet(Queued(t)) /\ Cardinality(Queued(t)) \in 0 .. QueueMax
<1>1. IsFiniteSet(Place) /\ Cardinality(Place) = QueueMax
  BY FS_Interval DEF Place
<1>2. Queued(t) \subseteq Place
  BY DEF Queued
<1> QED
  BY <1>1, <1>2, FS_Subset, FS_CardinalityType

LEMMA HandlingBounded ==
  ASSUME NEW t
  PROVE  /\ IsFiniteSet(Handling(t))
         /\ Cardinality(Handling(t)) \in 0 .. Cardinality(Worker)
<1>1. Handling(t) \subseteq Worker
  BY DEF Handling
<1> QED
  BY <1>1, FS_Subset, FS_CardinalityType

LEMMA UncountedFinite ==
  ASSUME NEW t
  PROVE  IsFiniteSet(Uncounted(t)) /\ Cardinality(Uncounted(t)) \in Nat
<1>1. Uncounted(t) \subseteq Submitter
  BY DEF Uncounted
<1> QED
  BY <1>1, FS_Subset, FS_CardinalityType

LEMMA OneMore ==
  ASSUME NEW S, IsFiniteSet(S), NEW x, x \notin S, NEW T, T = S \cup {x}
  PROVE  Cardinality(T) = Cardinality(S) + 1
  BY FS_AddElement

LEMMA OneLess ==
  ASSUME NEW S, IsFiniteSet(S), NEW x \in S, NEW T, T = S \ {x}
  PROVE  Cardinality(T) = Cardinality(S) - 1
  BY FS_RemoveElement
-----------------------------------------------------------------------------
\* What the methods of the breaker keep.
LEMMA BreakerMethods ==
  ASSUME NEW b \in Breaker, b.state = "HALF_OPEN" => b.probing
  PROVE  \A c \in {AllowNext(b), RecordSuccess(b), RecordFailure(b), Cool(b), GoStale(b)} :
             c \in Breaker /\ (c.state = "HALF_OPEN" => c.probing)
<1> DEFINE Good(c) == c \in Breaker /\ (c.state = "HALF_OPEN" => c.probing)
<1>1. Good(AllowNext(b))
  <2>1. CASE AllowResult(b) /\ b.state # "CLOSED"
    BY <2>1 DEF AllowNext, Breaker
  <2>2. CASE ~(AllowResult(b) /\ b.state # "CLOSED")
    BY <2>2 DEF AllowNext, Breaker
  <2> QED
    BY <2>1, <2>2
<1>2. Good(RecordSuccess(b))
  <2>1. RecordSuccess(b).state = "CLOSED"
    BY DEF RecordSuccess, Breaker
  <2>2. RecordSuccess(b) \in Breaker
    <3>1. 0 \in 0 .. FailureThreshold /\ FALSE \in BOOLEAN
      OBVIOUS
    <3>2. \A n \in 0 .. FailureThreshold :
             [b EXCEPT !.failures = n, !.probing = FALSE, !.state = "CLOSED"] \in Breaker
      BY DEF Breaker
    <3> QED
      BY <3>1, <3>2 DEF RecordSuccess
  <2> QED
    BY <2>1, <2>2
<1>3. Good(RecordFailure(b))
  <2> DEFINE n == IF b.failures < FailureThreshold THEN b.failures + 1 ELSE b.failures
             c == [b EXCEPT !.probing = FALSE, !.failures = n]
  <2>1. n \in 0 .. FailureThreshold
    BY DEF Breaker
  <2> HIDE DEF n
  <2>2. c \in Breaker /\ c.state = b.state
    BY <2>1 DEF Breaker
  <2>3. c \in Breaker /\ [c EXCEPT !.state = "OPEN", !.cooled = FALSE] \in Breaker
    BY <2>2 DEF Breaker
  <2>4. [c EXCEPT !.state = "OPEN", !.cooled = FALSE].state = "OPEN"
    BY <2>2 DEF Breaker
  <2>5. RecordFailure(b) = IF b.state = "HALF_OPEN" \/ n >= FailureThreshold
                           THEN [c EXCEPT !.state = "OPEN", !.cooled = FALSE] ELSE c
    BY DEF RecordFailure, n
  <2> HIDE DEF c
  <2> QED
    BY <2>2, <2>3, <2>4, <2>5
<1>4. Good(Cool(b)) /\ Good(GoStale(b))
  BY DEF Cool, GoStale, Breaker
<1> QED
  BY <1>1, <1>2, <1>3, <1>4

\* A step on the breaker of one task keeps what is known of the breakers.
LEMMA BreakerStep ==
  ASSUME breaker \in [Task -> Breaker], ProbeOut, NEW t \in Task,
         NEW c \in {AllowNext(breaker[t]), RecordSuccess(breaker[t]), RecordFailure(breaker[t]),
                    Cool(breaker[t]), GoStale(breaker[t])},
         breaker' = [breaker EXCEPT ![t] = c]
  PROVE  breaker' \in [Task -> Breaker] /\ ProbeOut'
<1>1. c \in Breaker /\ (c.state = "HALF_OPEN" => c.probing)
  BY BreakerMethods DEF ProbeOut
<1> QED
  BY <1>1 DEF ProbeOut

LEMMA InitIInv == Init => IInv
<1> SUFFICES ASSUME Init PROVE IInv
  OBVIOUS
<1>1. NewBreaker \in Breaker /\ NewBreaker.state = "CLOSED"
  BY DEF NewBreaker, Breaker
<1>2. TypeOK
  BY <1>1 DEF Init, TypeOK
<1>3. ProbeOut
  BY <1>1 DEF Init, ProbeOut
<1>4. BacklogCovers
  <2> SUFFICES ASSUME NEW t \in Task
               PROVE  counts[t] + Cardinality(Uncounted(t))
                        >= Cardinality(Queued(t)) + Cardinality(Handling(t))
    BY DEF BacklogCovers
  <2>1. Queued(t) = {} /\ Handling(t) = {}
    BY DEF Init, Queued, Handling, Idle, At
  <2>2. Cardinality(Queued(t)) = 0 /\ Cardinality(Handling(t)) = 0
    BY <2>1, FS_EmptySet
  <2>3. counts[t] = 0
    BY DEF Init
  <2> QED
    BY <2>2, <2>3, UncountedFinite
<1> QED
  BY <1>2, <1>3, <1>4 DEF IInv
-----------------------------------------------------------------------------
\* Steps that touch neither the queue nor a counter, and count no submitter or worker
\* in or out.
LEMMA BacklogKept ==
  ASSUME BacklogCovers, UNCHANGED <<queue, counts>>,
         \A t \in Task : Uncounted(t)' = Uncounted(t) /\ Handling(t)' = Handling(t)
  PROVE  BacklogCovers'
  BY DEF BacklogCovers, Queued

LEMMA SubmitInv ==
  ASSUME IInv, NEW s \in Submitter, NEW t \in Task, Submit(s, t)
  PROVE  IInv'
<1>1. TypeOK'
  BY DEF IInv, TypeOK, Submit, At
<1>2. ProbeOut'
  BY DEF IInv, ProbeOut, Submit
<1>3. \A u \in Task : Uncounted(u)' = Uncounted(u) /\ Handling(u)' = Handling(u)
  BY DEF IInv, TypeOK, Submit, Uncounted, Handling, At, Idle
<1> QED
  BY <1>1, <1>2, <1>3, BacklogKept DEF IInv, Submit

LEMMA AllowInv ==
  ASSUME IInv, NEW s \in Submitter, Allow(s)
  PROVE  IInv'
<1>1. sub[s].task \in Task
  BY DEF IInv, TypeOK, Allow, Idle, At
<1>2. breaker' \in [Task -> Breaker] /\ ProbeOut'
  BY <1>1, BreakerStep DEF IInv, TypeOK, Allow
<1>3. TypeOK'
  <2>1. sub' \in [Submitter -> {Idle} \cup [at : {"allow", "put", "count"}, task : Task]]
    BY <1>1 DEF IInv, TypeOK, Allow, At
  <2> QED
    BY <1>2, <2>1 DEF IInv, TypeOK, Allow
<1>4. \A u \in Task : Uncounted(u)' = Uncounted(u) /\ Handling(u)' = Handling(u)
  BY DEF IInv, TypeOK, Allow, Uncounted, Handling, At, Idle
<1> QED
  BY <1>2, <1>3, <1>4, BacklogKept DEF IInv, Allow

LEMMA PutInv ==
  ASSUME IInv, NEW s \in Submitter, Put(s)
  PROVE  IInv'
<1> DEFINE t == sub[s].task
<1>1. t \in Task /\ t # NoTask
  BY DEF IInv, TypeOK, Put, Idle, At
<1>2. ProbeOut'
  BY DEF IInv, ProbeOut, Put
<1>3. \A u \in Task : Handling(u)' = Handling(u)
  BY DEF Put, Handling
<1>4. CASE \E p \in Queued(NoTask) : queue' = [queue EXCEPT ![p] = t] /\ sub' = [sub EXCEPT ![s].at = "count"]
  <2>1. PICK p \in Queued(NoTask) : queue' = [queue EXCEPT ![p] = t] /\ sub' = [sub EXCEPT ![s].at = "count"]
    BY <1>4
  <2>2. p \in Place /\ queue[p] = NoTask
    BY DEF Queued
  <2>3. sub[s] = At("put", t) /\ sub' = [sub EXCEPT ![s] = At("count", t)]
    <3>1. sub[s] = At("put", t)
      BY DEF IInv, TypeOK, Put, Idle, At
    <3>2. [sub[s] EXCEPT !.at = "count"] = At("count", t)
      BY <3>1 DEF At
    <3> QED
      BY <2>1, <3>1, <3>2
  <2>4. TypeOK'
    <3>1. queue' \in [Place -> Task \cup {NoTask}]
      BY <1>1, <2>1, <2>2 DEF IInv, TypeOK
    <3>2. sub' \in [Submitter -> {Idle} \cup [at : {"allow", "put", "count"}, task : Task]]
      BY <1>1, <2>3 DEF IInv, TypeOK, At
    <3> QED
      BY <3>1, <3>2 DEF IInv, TypeOK, Put
  <2>5. BacklogCovers'
    <3> SUFFICES ASSUME NEW u \in Task
                 PROVE  (counts[u] + Cardinality(Uncounted(u))
                          >= Cardinality(Queued(u)) + Cardinality(Handling(u)))'
      BY DEF BacklogCovers
    <3>0. counts[u] + Cardinality(Uncounted(u)) >= Cardinality(Queued(u)) + Cardinality(Handling(u))
      BY DEF IInv, BacklogCovers
    <3>1. CASE u = t
      <4>1. p \notin Queued(u) /\ Queued(u)' = Queued(u) \cup {p}
        BY <1>1, <2>1, <2>2, <3>1 DEF IInv, TypeOK, Queued
      <4>2. s \notin Uncounted(u) /\ Uncounted(u)' = Uncounted(u) \cup {s}
        BY <2>3, <3>1 DEF IInv, TypeOK, Uncounted, At
      <4>3. Cardinality(Queued(u)') = Cardinality(Queued(u)) + 1
        BY <4>1, QueuedBounded, OneMore
      <4>4. Cardinality(Uncounted(u)') = Cardinality(Uncounted(u)) + 1
        BY <4>2, UncountedFinite, OneMore
      <4>5. counts' = counts /\ counts[u] \in Nat
        BY DEF IInv, TypeOK, Put
      <4> HIDE DEF t
      <4> QED
        BY <1>3, <3>0, <4>3, <4>4, <4>5, QueuedBounded, UncountedFinite, HandlingBounded
    <3>2. CASE u # t
      <4>1. Queued(u)' = Queued(u)
        BY <1>1, <2>1, <2>2, <3>2 DEF IInv, TypeOK, Queued
      <4>2. Uncounted(u)' = Uncounted(u)
        BY <1>1, <2>3, <3>2 DEF IInv, TypeOK, Uncounted, At
      <4> QED
        BY <1>3, <3>0, <4>1, <4>2 DEF Put
    <3> QED
      BY <3>1, <3>2
  <2> QED
    BY <1>2, <2>4, <2>5 DEF IInv
<1>5. CASE sub' = [sub EXCEPT ![s] = Idle] /\ UNCHANGED queue
  <2>1. TypeOK'
    BY <1>5 DEF IInv, TypeOK, Put
  <2>2. \A u \in Task : Uncounted(u)' = Uncounted(u)
    BY <1>5 DEF IInv, TypeOK, Put, Uncounted, At, Idle
  <2> QED
    BY <1>2, <1>3, <1>5, <2>1, <2>2, BacklogKept DEF IInv, Put
<1> QED
  BY <1>4, <1>5 DEF Put

LEMMA CountInv ==
  ASSUME IInv, NEW s \in Submitter, Count(s)
  PROVE  IInv'
<1> DEFINE t == sub[s].task
<1>1. t \in Task /\ sub[s] = At("count", t)
  BY DEF IInv, TypeOK, Count, Idle, At
<1>2. ProbeOut'
  BY DEF IInv, ProbeOut, Count
<1>3. counts[t] \in 0 .. CountsCap
      /\ counts' = [counts EXCEPT ![t] = IF counts[t] < CountsCap THEN counts[t] + 1 ELSE counts[t]]
  BY <1>1 DEF IInv, TypeOK, Count
<1>4. TypeOK'
  <2>1. counts' \in [Task -> 0 .. CountsCap]
    BY <1>1, <1>3 DEF IInv, TypeOK
  <2>2. sub' \in [Submitter -> {Idle} \cup [at : {"allow", "put", "count"}, task : Task]]
    BY DEF IInv, TypeOK, Count
  <2> QED
    BY <2>1, <2>2 DEF IInv, TypeOK, Count
<1>5. BacklogCovers'
  <2> SUFFICES ASSUME NEW u \in Task
               PROVE  (counts[u] + Cardinality(Uncounted(u))
                        >= Cardinality(Queued(u)) + Cardinality(Handling(u)))'
    BY DEF BacklogCovers
  <2>0. /\ counts[u] + Cardinality(Uncounted(u)) >= Cardinality(Queued(u)) + Cardinality(Handling(u))
        /\ Queued(u)' = Queued(u) /\ Handling(u)' = Handling(u)
    BY DEF IInv, BacklogCovers, Count, Queued, Handling
  <2>1. CASE u = t
    <3>1. s \in Uncounted(u) /\ Uncounted(u)' = Uncounted(u) \ {s}
      BY <1>1, <2>1 DEF IInv, TypeOK, Count, Uncounted, At, Idle
    <3>2. Cardinality(Uncounted(u)') = Cardinality(Uncounted(u)) - 1
      BY <3>1, UncountedFinite, OneLess
    <3>2a. Cardinality(Uncounted(u)') \in Nat
      BY <3>1, UncountedFinite, FS_RemoveElement, FS_CardinalityType
    <3>3. counts'[u] = IF counts[u] < CountsCap THEN counts[u] + 1 ELSE counts[u]
      BY <1>1, <1>3, <2>1 DEF IInv, TypeOK
    <3>4. Cardinality(Queued(u)) + Cardinality(Handling(u)) <= CountsCap
      BY QueuedBounded, HandlingBounded, FS_CardinalityType
    <3>5. counts[u] \in 0 .. CountsCap
      BY <1>3, <2>1
    <3> HIDE DEF t
    <3> QED
      BY <2>0, <3>2, <3>2a, <3>3, <3>4, <3>5, QueuedBounded, UncountedFinite, HandlingBounded
  <2>2. CASE u # t
    <3>1. Uncounted(u)' = Uncounted(u)
      BY <1>1, <2>2 DEF IInv, TypeOK, Count, Uncounted, At, Idle
    <3>2. counts'[u] = counts[u]
      BY <1>3, <2>2 DEF IInv, TypeOK
    <3> QED
      BY <2>0, <3>1, <3>2
  <2> QED
    BY <2>1, <2>2
<1> QED
  BY <1>2, <1>4, <1>5 DEF IInv
-----------------------------------------------------------------------------
LEMMA GetInv ==
  ASSUME IInv, NEW w \in Worker, Get(w)
  PROVE  IInv'
<1> PICK p \in Place \ Queued(NoTask) :
       /\ queue' = [queue EXCEPT ![p] = NoTask]
       /\ work' = [work EXCEPT ![w] = At("process", queue[p])]
  BY DEF Get
<1> DEFINE t == queue[p]
<1>1. t \in Task /\ work[w] = Idle /\ NoTask \notin Task
  BY DEF IInv, TypeOK, Get, Queued
<1>2. ProbeOut'
  BY DEF IInv, ProbeOut, Get
<1>3. TypeOK'
  <2>1. queue' \in [Place -> Task \cup {NoTask}]
    BY DEF IInv, TypeOK
  <2>2. work' \in [Worker -> {Idle, At("dead", NoTask)} \cup [at : {"process", "record"}, task : Task]]
    BY <1>1 DEF IInv, TypeOK, At
  <2> QED
    BY <2>1, <2>2 DEF IInv, TypeOK, Get
<1>4. BacklogCovers'
  <2> SUFFICES ASSUME NEW u \in Task
               PROVE  (counts[u] + Cardinality(Uncounted(u))
                        >= Cardinality(Queued(u)) + Cardinality(Handling(u)))'
    BY DEF BacklogCovers
  <2>0. /\ counts[u] + Cardinality(Uncounted(u)) >= Cardinality(Queued(u)) + Cardinality(Handling(u))
        /\ Uncounted(u)' = Uncounted(u) /\ counts' = counts /\ counts[u] \in Nat
    BY DEF IInv, TypeOK, BacklogCovers, Get, Uncounted
  <2>1. CASE u = t
    <3>1. p \in Queued(u) /\ Queued(u)' = Queued(u) \ {p}
      BY <1>1, <2>1 DEF IInv, TypeOK, Queued
    <3>2. w \notin Handling(u) /\ Handling(u)' = Handling(u) \cup {w}
      BY <1>1, <2>1 DEF IInv, TypeOK, Handling, Idle, At
    <3>3. Cardinality(Queued(u)') = Cardinality(Queued(u)) - 1
      BY <3>1, QueuedBounded, OneLess
    <3>4. Cardinality(Handling(u)') = Cardinality(Handling(u)) + 1
      BY <3>2, HandlingBounded, OneMore
    <3> HIDE DEF t
    <3> QED
      BY <2>0, <3>3, <3>4, QueuedBounded, UncountedFinite, HandlingBounded, FS_CardinalityType
  <2>2. CASE u # t
    <3>1. Queued(u)' = Queued(u) /\ Handling(u)' = Handling(u)
      BY <1>1, <2>2 DEF IInv, TypeOK, Queued, Handling, Idle, At
    <3> QED
      BY <2>0, <3>1
  <2> QED
    BY <2>1, <2>2
<1> QED
  BY <1>2, <1>3, <1>4 DEF IInv

LEMMA ProcessInv ==
  ASSUME IInv, NEW w \in Worker, Process(w)
  PROVE  IInv'
<1>1. \A verdict \in Verdicts : verdict \in Seq({"success", "failure"})
  <2> SUFFICES ASSUME NEW verdict \in Verdicts PROVE verdict \in Seq({"success", "failure"})
    OBVIOUS
  <2>1. \A x, y \in {"success", "failure"} :
           /\ <<>> \in Seq({"success", "failure"}) /\ <<x>> \in Seq({"success", "failure"})
           /\ <<x, y>> \in Seq({"success", "failure"})
    OBVIOUS
  <2> QED
    BY <2>1 DEF Verdicts
<1>2. TypeOK'
  <2>1. work[w].task \in Task /\ work' = [work EXCEPT ![w] = At("record", work[w].task)]
    <3>1. work[w] \in [at : {"process", "record"}, task : Task]
      BY DEF IInv, TypeOK, Process, Idle, At
    <3>2. [work[w] EXCEPT !.at = "record"] = At("record", work[w].task)
      BY <3>1 DEF At
    <3> QED
      BY <3>1, <3>2 DEF Process
  <2>2. work' \in [Worker -> {Idle, At("dead", NoTask)} \cup [at : {"process", "record"}, task : Task]]
    BY <2>1 DEF IInv, TypeOK, At
  <2>3. owed' \in [Worker -> Seq({"success", "failure"})]
    BY <1>1 DEF IInv, TypeOK, Process
  <2> QED
    BY <2>2, <2>3 DEF IInv, TypeOK, Process
<1>3. ProbeOut'
  BY DEF IInv, ProbeOut, Process
<1>4. \A u \in Task : Uncounted(u)' = Uncounted(u) /\ Handling(u)' = Handling(u)
  BY DEF IInv, TypeOK, Process, Uncounted, Handling, At, Idle
<1> QED
  BY <1>2, <1>3, <1>4, BacklogKept DEF IInv, Process

LEMMA RecordInv ==
  ASSUME IInv, NEW w \in Worker, Record(w)
  PROVE  IInv'
<1>1. work[w].task \in Task
  BY DEF IInv, TypeOK, Record, Idle, At
<1>2. breaker' \in [Task -> Breaker] /\ ProbeOut'
  <2>1. CASE Head(owed[w]) = "success"
    BY <1>1, <2>1, BreakerStep DEF IInv, TypeOK, Record
  <2>2. CASE Head(owed[w]) # "success"
    BY <1>1, <2>2, BreakerStep DEF IInv, TypeOK, Record
  <2> QED
    BY <2>1, <2>2
<1>3. owed' \in [Worker -> Seq({"success", "failure"})]
  BY DEF IInv, TypeOK, Record
<1>4. TypeOK'
  BY <1>2, <1>3 DEF IInv, TypeOK, Record
<1>5. \A u \in Task : Uncounted(u)' = Uncounted(u) /\ Handling(u)' = Handling(u)
  BY DEF Record, Uncounted, Handling
<1> QED
  BY <1>2, <1>4, <1>5, BacklogKept DEF IInv, Record

LEMMA FinallyInv ==
  ASSUME IInv, NEW w \in Worker, Finally(w)
  PROVE  IInv'
<1> PICK place \in {"idle", "dead"} : work' = [work EXCEPT ![w] = At(place, NoTask)]
  BY DEF Finally
<1> DEFINE t == work[w].task
<1>1. t \in Task /\ NoTask \notin Task
  <2>1. work[w] \in [at : {"process", "record"}, task : Task]
    BY DEF IInv, TypeOK, Finally, Idle, At
  <2> QED
    BY <2>1
<1>2. counts[t] \in 0 .. CountsCap
      /\ counts' = [counts EXCEPT ![t] = IF counts[t] > 0 THEN counts[t] - 1 ELSE counts[t]]
  BY <1>1 DEF IInv, TypeOK, Finally
<1>3. ProbeOut'
  BY DEF IInv, ProbeOut, Finally
<1>4. TypeOK'
  <2>1. counts' \in [Task -> 0 .. CountsCap]
    BY <1>1, <1>2 DEF IInv, TypeOK
  <2>2. work' \in [Worker -> {Idle, At("dead", NoTask)} \cup [at : {"process", "record"}, task : Task]]
    BY DEF IInv, TypeOK, Idle
  <2> QED
    BY <2>1, <2>2 DEF IInv, TypeOK, Finally
<1>5. BacklogCovers'
  <2> SUFFICES ASSUME NEW u \in Task
               PROVE  (counts[u] + Cardinality(Uncounted(u))
                        >= Cardinality(Queued(u)) + Cardinality(Handling(u)))'
    BY DEF BacklogCovers
  <2>0. /\ counts[u] + Cardinality(Uncounted(u)) >= Cardinality(Queued(u)) + Cardinality(Handling(u))
        /\ Queued(u)' = Queued(u) /\ Uncounted(u)' = Uncounted(u)
    BY DEF IInv, BacklogCovers, Finally, Queued, Uncounted
  <2>1. CASE u = t
    <3>1. w \in Handling(u) /\ Handling(u)' = Handling(u) \ {w}
      BY <1>1, <2>1 DEF IInv, TypeOK, Handling, At
    <3>2. Cardinality(Handling(u)') = Cardinality(Handling(u)) - 1
      BY <3>1, HandlingBounded, OneLess
    <3>3. counts'[u] = IF counts[u] > 0 THEN counts[u] - 1 ELSE counts[u]
      BY <1>1, <1>2, <2>1 DEF IInv, TypeOK
    <3>4. counts[u] \in 0 .. CountsCap
      BY <1>2, <2>1
    <3>5. CASE counts[u] > 0
      <4>1. counts'[u] = counts[u] - 1
        BY <3>3, <3>5
      <4>2. /\ Cardinality(Queued(u)) \in Nat /\ Cardinality(Handling(u)) \in Nat
            /\ Cardinality(Uncounted(u)) \in Nat
        BY QueuedBounded, UncountedFinite, HandlingBounded, FS_CardinalityType
      <4> HIDE DEF t
      <4> QED
        BY <2>0, <3>2, <3>4, <4>1, <4>2
    <3>6. CASE counts[u] = 0
      <4> HIDE DEF t
      <4> QED
        BY <2>0, <3>2, <3>3, <3>4, <3>6, QueuedBounded, UncountedFinite, HandlingBounded, FS_CardinalityType
    <3> QED
      BY <3>4, <3>5, <3>6
  <2>2. CASE u # t
    <3>1. Handling(u)' = Handling(u)
      BY <1>1, <2>2 DEF IInv, TypeOK, Handling, At
    <3>2. counts'[u] = counts[u]
      BY <1>2, <2>2 DEF IInv, TypeOK
    <3> QED
      BY <2>0, <3>1, <3>2
  <2> QED
    BY <2>1, <2>2
<1> QED
  BY <1>3, <1>4, <1>5 DEF IInv

LEMMA RestartInv ==
  ASSUME IInv, NEW w \in Worker, Restart(w)
  PROVE  IInv'
<1>1. TypeOK'
  BY DEF IInv, TypeOK, Restart
<1>2. ProbeOut'
  BY DEF IInv, ProbeOut, Restart
<1>3. \A u \in Task : Uncounted(u)' = Uncounted(u) /\ Handling(u)' = Handling(u)
  <2>1. work[w].task = NoTask /\ work' = [work EXCEPT ![w] = At("idle", NoTask)]
    <3>1. work[w] = At("dead", NoTask)
      <4>1. \/ work[w] = Idle \/ work[w] = At("dead", NoTask)
            \/ work[w] \in [at : {"process", "record"}, task : Task]
        BY DEF IInv, TypeOK
      <4>2. work[w].at = "dead"
        BY DEF Restart
      <4> QED
        BY <4>1, <4>2 DEF Idle, At
    <3> QED
      BY <3>1 DEF Restart, At, Idle
  <2>2. \A v \in Worker : work'[v].task = work[v].task
    BY <2>1 DEF IInv, TypeOK, At
  <2> QED
    BY <2>2 DEF Restart, Uncounted, Handling
<1> QED
  BY <1>1, <1>2, <1>3, BacklogKept DEF IInv, Restart

\* Operators pause and resume tasks, and time passes for a breaker.
LEMMA TaskInv ==
  ASSUME IInv, NEW t \in Task, PauseTask(t) \/ ResumeTask(t) \/ Elapse(t)
  PROVE  IInv'
<1>1. breaker' \in [Task -> Breaker] /\ ProbeOut'
  <2>1. CASE PauseTask(t) \/ ResumeTask(t)
    BY <2>1 DEF IInv, TypeOK, ProbeOut, PauseTask, ResumeTask
  <2>2. CASE Elapse(t)
    BY <2>2, BreakerStep DEF IInv, TypeOK, Elapse
  <2> QED
    BY <2>1, <2>2
<1>2. UNCHANGED <<queue, counts, sub, work, owed>>
  BY DEF PauseTask, ResumeTask, Elapse
<1>3. paused' \subseteq Task
  BY DEF IInv, TypeOK, PauseTask, ResumeTask, Elapse
<1>4. TypeOK'
  BY <1>1, <1>2, <1>3 DEF IInv, TypeOK
<1>5. \A u \in Task : Uncounted(u)' = Uncounted(u) /\ Handling(u)' = Handling(u)
  BY <1>2 DEF Uncounted, Handling
<1> QED
  BY <1>1, <1>2, <1>4, <1>5, BacklogKept DEF IInv

LEMMA StepIInv == IInv /\ [Next]_vars => IInv'
<1> SUFFICES ASSUME IInv, [Next]_vars PROVE IInv'
  OBVIOUS
<1>1. CASE \E s \in Submitter, t \in Task : Submit(s, t)
  BY <1>1, SubmitInv
<1>2. CASE \E s \in Submitter : SubmitStep(s)
  BY <1>2, AllowInv, PutInv, CountInv DEF SubmitStep
<1>3. CASE \E t \in Task : PauseTask(t) \/ ResumeTask(t) \/ Elapse(t)
  BY <1>3, TaskInv
<1>4. CASE \E w \in Worker : WorkStep(w) \/ Restart(w)
  BY <1>4, GetInv, ProcessInv, RecordInv, FinallyInv, RestartInv DEF WorkStep
<1>5. CASE UNCHANGED vars
  <2>1. \A u \in Task : Uncounted(u)' = Uncounted(u) /\ Handling(u)' = Handling(u)
    BY <1>5 DEF vars, Uncounted, Handling
  <2> QED
    BY <1>5, <2>1, BacklogKept DEF IInv, TypeOK, ProbeOut, vars
<1> QED
  BY <1>1, <1>2, <1>3, <1>4, <1>5 DEF Next

\* The invariant holds in every state of every behaviour of the pool.
THEOREM Inductive == Spec => []IInv
  BY InitIInv, StepIInv, PTL DEF Spec
-----------------------------------------------------------------------------
\* Every variable of the pool, its counters and its breakers keep their types: no
\* counter goes below zero, no breaker counts beyond its threshold.
THEOREM TypeCorrect == Spec => []TypeOK
<1>1. IInv => TypeOK
  BY DEF IInv
<1> QED
  BY <1>1, Inductive, PTL

\* queue_backlog covers what is queued and handled, for any number of threads.
THEOREM BacklogCovered == Spec => []BacklogCovers
<1>1. IInv => BacklogCovers
  BY DEF IInv
<1> QED
  BY <1>1, Inductive, PTL

\* A half-open breaker admits a second submit only over a probe that is overdue.
THEOREM ProbeAlone == Spec => ProbeIsAlone
<1> DEFINE Lone ==
      \A s \in Submitter :
          /\ sub[s].at = "allow" /\ sub'[s].at = "put"
          /\ breaker[sub[s].task].state = "HALF_OPEN"
          => breaker[sub[s].task].stale
<1>1. IInv /\ [Next]_vars => [Lone]_vars
  <2> SUFFICES ASSUME IInv, Next, NEW s \in Submitter,
                      sub[s].at = "allow", sub'[s].at = "put",
                      breaker[sub[s].task].state = "HALF_OPEN"
               PROVE  breaker[sub[s].task].stale
    OBVIOUS
  <2>1. sub[s].task \in Task
    BY DEF IInv, TypeOK, Idle, At
  <2>2. Allow(s)
    <3>1. sub'[s] # sub[s]
      OBVIOUS
    <3>2. CASE \E r \in Submitter, t \in Task : Submit(r, t)
      BY <3>2 DEF IInv, TypeOK, Submit, At
    <3>3. CASE \E r \in Submitter : SubmitStep(r)
      <4> PICK r \in Submitter : SubmitStep(r)
        BY <3>3
      <4>1. CASE Allow(r)
        BY <3>1, <4>1 DEF IInv, TypeOK, Allow
      <4>2. CASE Put(r)
        BY <3>1, <4>2 DEF IInv, TypeOK, Put
      <4>3. CASE Count(r)
        BY <3>1, <4>3 DEF IInv, TypeOK, Count
      <4> QED
        BY <4>1, <4>2, <4>3 DEF SubmitStep
    <3>4. CASE \E t \in Task : PauseTask(t) \/ ResumeTask(t) \/ Elapse(t)
      BY <3>1, <3>4 DEF PauseTask, ResumeTask, Elapse
    <3>5. CASE \E w \in Worker : WorkStep(w) \/ Restart(w)
      BY <3>1, <3>5 DEF WorkStep, Get, Process, Record, Finally, Restart
    <3> QED
      BY <3>2, <3>3, <3>4, <3>5 DEF Next
  <2>3. AllowResult(breaker[sub[s].task])
    BY <2>2 DEF IInv, TypeOK, Allow, Idle, At
  <2> QED
    BY <2>1, <2>3 DEF IInv, ProbeOut, AllowResult
<1>2. Spec => [][Lone]_vars
  BY <1>1, Inductive, PTL DEF Spec
<1> QED
  BY <1>2 DEF ProbeIsAlone
=============================================================================
