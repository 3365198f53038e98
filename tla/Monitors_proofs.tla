-------------------------- MODULE Monitors_proofs --------------------------
(***************************************************************************)
(* The two queues with condition variables.  ThreadPool, for any           *)
(* producers, workers, tasks and bound of the queue: its types, the order  *)
(* and bound of the queue, and that no notification is lost.               *)
(* BlockingQueue, for any number of workers and messages and any           *)
(* capacities: the latches count what they stand for, every thread is      *)
(* started before messages are put, and no thread sleeps through what it   *)
(* waits for.                                                              *)
(***************************************************************************)
EXTENDS ThreadPool, FiniteSetTheorems, TLAPS

(* A thread that is not idle inside run has a task to submit, and once the  *)
(* pool stops no worker waits.                                              *)
PoolInv ==
    /\ TypeOK
    /\ \A p \in Producers : producer[p] # "idle" => offered[p] \in Tasks
    /\ ~running => At(worker, "waiting") = {}

(* notify changes at most one thread, from waiting to woken; with nobody    *)
(* waiting it changes nothing.                                              *)
LEMMA NotifyOne ==
    ASSUME NEW state, NEW next, Notify(state, next)
    PROVE  \/ At(state, "waiting") = {} /\ next = state
           \/ \E t \in DOMAIN state :
                 state[t] = "waiting" /\ next = [state EXCEPT ![t] = "woken"]
BY DEF Notify, At

(* notify wakes at most one producer. *)
LEMMA NotifyProducers ==
    ASSUME TypeOK, NEW next, Notify(producer, next)
    PROVE  /\ next \in [Producers -> {"idle", "waiting", "woken"}]
           /\ \A p \in Producers : next[p] # "idle" => producer[p] # "idle"
BY NotifyOne DEF TypeOK

(* notify wakes at most one worker. *)
LEMMA NotifyWorkers ==
    ASSUME PoolInv, NEW next, Notify(worker, next)
    PROVE  /\ next \in [Workers -> {"check", "take", "waiting", "woken", "task", "done"}]
           /\ ~running => At(next, "waiting") = {}
BY NotifyOne DEF PoolInv, TypeOK, At

(* Appending keeps a sequence's members. *)
LEMMA AppendType ==
    ASSUME NEW S, NEW s \in Seq(S), NEW e \in S
    PROVE  Append(s, e) \in Seq(S)
OBVIOUS

(* Every step keeps the types. *)
LEMMA PoolStep == PoolInv /\ [Next]_vars => PoolInv'
<1> SUFFICES ASSUME PoolInv, [Next]_vars PROVE PoolInv'
  OBVIOUS
<1> USE DEF PoolInv, TypeOK
<1>1. ASSUME NEW p \in Producers, RunAgain(p) PROVE PoolInv'
  <2>1. CASE isFull
    BY <1>1, <2>1 DEF RunAgain
  <2>2. CASE ~isFull
    <3>1. Notify(worker, worker')
      BY <1>1, <2>2 DEF RunAgain
    <3>2. /\ worker' \in [Workers -> {"check", "take", "waiting", "woken", "task", "done"}]
          /\ ~running => At(worker', "waiting") = {}
      BY <3>1, NotifyWorkers
    <3>3. offered[p] \in Tasks
      BY <1>1 DEF RunAgain
    <3>4. queue' \in Seq(Tasks) /\ submitted' \in Seq(Tasks)
      <4>1. /\ queue' = Append(queue, offered[p])
            /\ submitted' = Append(submitted, offered[p])
        BY <1>1, <2>2 DEF RunAgain
      <4> QED
        BY <3>3, <4>1, AppendType
    <3>5. /\ producer' \in [Producers -> {"idle", "waiting", "woken"}]
          /\ offered' \in [Producers -> Tasks \union {NoTask}]
          /\ \A q \in Producers : producer'[q] # "idle" => offered'[q] \in Tasks
      BY <1>1, <2>2 DEF RunAgain
    <3>6. UNCHANGED <<running, doing, stopped, started>>
      BY <1>1 DEF RunAgain
    <3> QED
      BY <3>2, <3>4, <3>5, <3>6
  <2> QED
    BY <2>1, <2>2
<1>2. ASSUME NEW p \in Producers, NEW t \in Tasks, Run(p, t) PROVE PoolInv'
  <2>1. CASE isFull
    BY <1>2, <2>1 DEF Run
  <2>2. CASE ~isFull
    <3>1. Notify(worker, worker')
      BY <1>2, <2>2 DEF Run
    <3>2. /\ worker' \in [Workers -> {"check", "take", "waiting", "woken", "task", "done"}]
          /\ ~running => At(worker', "waiting") = {}
      BY <3>1, NotifyWorkers
    <3>3. queue' \in Seq(Tasks) /\ submitted' \in Seq(Tasks)
      <4>1. queue' = Append(queue, t) /\ submitted' = Append(submitted, t)
        BY <1>2, <2>2 DEF Run
      <4> QED
        BY <4>1, AppendType
    <3>4. UNCHANGED <<running, producer, offered, doing, stopped, started>>
      BY <1>2, <2>2 DEF Run
    <3> QED
      BY <3>2, <3>3, <3>4
  <2> QED
    BY <2>1, <2>2
<1>3. ASSUME NEW w \in Workers, Check(w) PROVE PoolInv'
  BY <1>3 DEF Check, At
<1>4. ASSUME NEW w \in Workers, Take(w) PROVE PoolInv'
  <2>1. Head(queue) \in Tasks /\ Tail(queue) \in Seq(Tasks)
    BY <1>4 DEF Take
  <2>2. /\ producer' \in [Producers -> {"idle", "waiting", "woken"}]
        /\ \A p \in Producers : producer'[p] # "idle" => producer[p] # "idle"
    BY <1>4, NotifyProducers DEF Take
  <2>3. ~running => At(worker', "waiting") = {}
    BY <1>4 DEF Take, At
  <2>4. /\ queue' \in Seq(Tasks) /\ started' \in Seq(Tasks)
        /\ doing' \in [Workers -> Tasks \union {NoTask}]
    BY <1>4, <2>1 DEF Take
  <2>5. worker' \in [Workers -> {"check", "take", "waiting", "woken", "task", "done"}]
    BY <1>4 DEF Take
  <2>6. UNCHANGED <<running, offered, stopped, submitted>>
    BY <1>4 DEF Take
  <2> QED
    BY <2>2, <2>3, <2>4, <2>5, <2>6
<1>5. ASSUME NEW w \in Workers, TakeNothing(w) PROVE PoolInv'
  BY <1>5 DEF TakeNothing, At
<1>6. ASSUME NEW w \in Workers, TaskReturn(w) PROVE PoolInv'
  BY <1>6 DEF TaskReturn, At
<1>7. CASE Stop
  BY <1>7 DEF Stop, At
<1>8. CASE Join
  BY <1>8 DEF Join, At
<1>9. CASE SpuriousWakeup
  <2>1. ASSUME NEW w \in At(worker, "waiting"),
               worker' = [worker EXCEPT ![w] = "woken"], UNCHANGED producer
        PROVE  PoolInv'
    BY <1>9, <2>1 DEF SpuriousWakeup, At
  <2>2. ASSUME NEW p \in At(producer, "waiting"),
               producer' = [producer EXCEPT ![p] = "woken"], UNCHANGED worker
        PROVE  PoolInv'
    BY <1>9, <2>2 DEF SpuriousWakeup, At
  <2> QED
    BY <1>9, <2>1, <2>2 DEF SpuriousWakeup
<1>10. CASE UNCHANGED vars
  BY <1>10 DEF vars, At
<1> QED
  BY <1>1, <1>2, <1>3, <1>4, <1>5, <1>6, <1>7, <1>8, <1>9, <1>10
     DEF Next, WorkerStep

(* The types hold at first. *)
LEMMA PoolInit == Init => PoolInv
<1> SUFFICES ASSUME Init PROVE PoolInv
  OBVIOUS
<1>1. /\ producer \in [Producers -> {"idle", "waiting", "woken"}]
      /\ offered \in [Producers -> Tasks \union {NoTask}]
  BY DEF Init
<1>2. /\ worker \in [Workers -> {"check", "take", "waiting", "woken", "task", "done"}]
      /\ doing \in [Workers -> Tasks \union {NoTask}]
  BY DEF Init
<1>3. /\ queue \in Seq(Tasks) /\ submitted \in Seq(Tasks)
      /\ started \in Seq(Tasks)
      /\ running = TRUE /\ stopped = FALSE
  BY DEF Init
<1>4. \A p \in Producers : producer[p] = "idle"
  BY DEF Init
<1> QED
  BY <1>1, <1>2, <1>3, <1>4 DEF PoolInv, TypeOK

(* The variables of ThreadPool keep their types; in particular a producer   *)
(* woken from its wait still has the task it came with.                     *)
THEOREM TypeCorrect == Spec => []TypeOK
<1>1. PoolInv => TypeOK
  BY DEF PoolInv
<1> QED
  BY <1>1, PoolInit, PoolStep, PTL DEF Spec

-----------------------------------------------------------------------------
(* Appending to the second of two sequences. *)
LEMMA ConcatAppend ==
    ASSUME NEW S, NEW s \in Seq(S), NEW u \in Seq(S), NEW e \in S
    PROVE  s \o Append(u, e) = Append(s \o u, e)
OBVIOUS

(* Moving a head from one sequence to another. *)
LEMMA MoveHead ==
    ASSUME NEW S, NEW s \in Seq(S), NEW u \in Seq(S), u # <<>>
    PROVE  Append(s, Head(u)) \o Tail(u) = s \o u
OBVIOUS

(* Tasks start in the order they were queued, each once. *)
THEOREM TasksStartInOrder == Spec => []StartedInOrder
<1>1. Init => StartedInOrder
  BY DEF Init, StartedInOrder
<1>2. PoolInv /\ StartedInOrder /\ [Next]_vars => StartedInOrder'
  <2> SUFFICES ASSUME PoolInv, StartedInOrder, [Next]_vars
               PROVE  StartedInOrder'
    OBVIOUS
  <2> USE DEF StartedInOrder, PoolInv, TypeOK
  <2>1. ASSUME NEW p \in Producers, RunAgain(p) PROVE StartedInOrder'
    <3>1. offered[p] \in Tasks
      BY <2>1 DEF RunAgain
    <3>2. CASE isFull
      BY <2>1, <3>2 DEF RunAgain
    <3>3. CASE ~isFull
      <4>1. /\ queue' = Append(queue, offered[p])
            /\ submitted' = Append(submitted, offered[p])
            /\ started' = started
        BY <2>1, <3>3 DEF RunAgain
      <4>2. started \o Append(queue, offered[p]) = Append(started \o queue, offered[p])
        BY <3>1, ConcatAppend
      <4> QED
        BY <4>1, <4>2
    <3> QED
      BY <3>2, <3>3
  <2>2. ASSUME NEW p \in Producers, NEW t \in Tasks, Run(p, t)
        PROVE  StartedInOrder'
    <3>1. CASE isFull
      BY <2>2, <3>1 DEF Run
    <3>2. CASE ~isFull
      <4>1. /\ queue' = Append(queue, t)
            /\ submitted' = Append(submitted, t)
            /\ started' = started
        BY <2>2, <3>2 DEF Run
      <4>2. started \o Append(queue, t) = Append(started \o queue, t)
        BY ConcatAppend
      <4> QED
        BY <4>1, <4>2
    <3> QED
      BY <3>1, <3>2
  <2>3. ASSUME NEW w \in Workers, Take(w) PROVE StartedInOrder'
    BY <2>3, MoveHead DEF Take
  <2>4. ASSUME NEW w \in Workers, Check(w) \/ TakeNothing(w) \/ TaskReturn(w)
        PROVE  StartedInOrder'
    BY <2>4 DEF Check, TakeNothing, TaskReturn
  <2>5. CASE Stop \/ Join \/ SpuriousWakeup \/ UNCHANGED vars
    BY <2>5 DEF Stop, Join, SpuriousWakeup, vars
  <2> QED
    BY <2>1, <2>2, <2>3, <2>4, <2>5 DEF Next, WorkerStep
<1> QED
  BY <1>1, <1>2, PoolInit, PoolStep, PTL DEF Spec

(* However many producers pass the wait, the queue keeps its bound. *)
THEOREM QueueKeepsBound == Spec => []QueueBounded
<1>1. Init => QueueBounded
  BY MaxQueueAssumption DEF Init, QueueBounded
<1>2. PoolInv /\ QueueBounded /\ [Next]_vars => QueueBounded'
  <2> SUFFICES ASSUME PoolInv, QueueBounded, [Next]_vars
               PROVE  QueueBounded'
    OBVIOUS
  <2> USE MaxQueueAssumption DEF QueueBounded, PoolInv, TypeOK
  <2>1. ASSUME NEW p \in Producers, RunAgain(p) PROVE QueueBounded'
    <3>1. offered[p] \in Tasks
      BY <2>1 DEF RunAgain
    <3> QED
      BY <2>1, <3>1 DEF RunAgain, isFull
  <2>2. ASSUME NEW p \in Producers, NEW t \in Tasks, Run(p, t)
        PROVE  QueueBounded'
    BY <2>2 DEF Run, isFull
  <2>3. ASSUME NEW w \in Workers, Take(w) PROVE QueueBounded'
    BY <2>3 DEF Take
  <2>4. ASSUME NEW w \in Workers, Check(w) \/ TakeNothing(w) \/ TaskReturn(w)
        PROVE  QueueBounded'
    BY <2>4 DEF Check, TakeNothing, TaskReturn
  <2>5. CASE Stop \/ Join \/ SpuriousWakeup \/ UNCHANGED vars
    BY <2>5 DEF Stop, Join, SpuriousWakeup, vars
  <2> QED
    BY <2>1, <2>2, <2>3, <2>4, <2>5 DEF Next, WorkerStep
<1> QED
  BY <1>1, <1>2, PoolInit, PoolStep, PTL DEF Spec

(* Order and bound of the queue together, as the run of the pool checks them. *)
THEOREM QueueIsKept == Spec => []QueueKept
BY TasksStartInOrder, QueueKeepsBound, PTL DEF QueueKept

-----------------------------------------------------------------------------
(* No worker fewer is awake if all those awake still are. *)
LEMMA AwakeGrows ==
    ASSUME Awake \subseteq Awake'
    PROVE  /\ Cardinality(Awake) \in Nat
           /\ Cardinality(Awake') \in Nat
           /\ Cardinality(Awake) <= Cardinality(Awake')
<1>1. IsFiniteSet(Awake) /\ IsFiniteSet(Awake')
  BY FS_Subset, WorkersAssumption DEF Awake
<1> QED
  BY <1>1, FS_Subset, FS_CardinalityType

(* One worker wakes. *)
LEMMA AwakeGains ==
    ASSUME NEW w \in Workers, w \notin Awake, Awake' = Awake \union {w}
    PROVE  /\ Cardinality(Awake) \in Nat
           /\ Cardinality(Awake') = Cardinality(Awake) + 1
<1>1. IsFiniteSet(Awake)
  BY FS_Subset, WorkersAssumption DEF Awake
<1> QED
  BY <1>1, FS_AddElement, FS_CardinalityType

(* One worker falls asleep. *)
LEMMA AwakeLoses ==
    ASSUME NEW w \in Awake, Awake' = Awake \ {w}
    PROVE  /\ Cardinality(Awake) \in Nat
           /\ Cardinality(Awake') = Cardinality(Awake) - 1
<1>1. IsFiniteSet(Awake)
  BY FS_Subset, WorkersAssumption DEF Awake
<1> QED
  BY <1>1, FS_RemoveElement, FS_CardinalityType

(* A task queued with a notification leaves as many workers awake as there  *)
(* are tasks, or nobody asleep.                                             *)
LEMMA QueuedIsAnswered ==
    ASSUME PoolInv, NoSleepingWorker, NEW t \in Tasks,
           queue' = Append(queue, t), Notify(worker, worker')
    PROVE  NoSleepingWorker'
<1> USE DEF PoolInv, TypeOK
<1>1. CASE At(worker, "waiting") = {} /\ worker' = worker
  BY <1>1 DEF NoSleepingWorker, At
<1>2. ASSUME NEW w \in DOMAIN worker, worker[w] = "waiting",
             worker' = [worker EXCEPT ![w] = "woken"]
      PROVE  NoSleepingWorker'
  <2>1. w \in Workers /\ w \notin Awake /\ Awake' = Awake \union {w}
    BY <1>2 DEF Awake
  <2>2. /\ Cardinality(Awake) \in Nat
        /\ Cardinality(Awake') = Cardinality(Awake) + 1
    BY <2>1, AwakeGains
  <2>3. Len(queue) <= Cardinality(Awake)
    BY <1>2 DEF NoSleepingWorker, At
  <2>4. Len(queue') = Len(queue) + 1 /\ Len(queue) \in Nat
    OBVIOUS
  <2> QED
    BY <2>2, <2>3, <2>4 DEF NoSleepingWorker
<1> QED
  BY <1>1, <1>2, NotifyOne

(* No worker sleeps on a task nobody is coming for: notify wakes one worker *)
(* per task, and a worker that tests the queue again finds it empty before  *)
(* it sleeps.                                                               *)
THEOREM NoWorkerOversleeps == Spec => []NoSleepingWorker
<1>1. Init => NoSleepingWorker
  BY DEF Init, NoSleepingWorker, At
<1>2. PoolInv /\ NoSleepingWorker /\ [Next]_vars => NoSleepingWorker'
  <2> SUFFICES ASSUME PoolInv, NoSleepingWorker, [Next]_vars
               PROVE  NoSleepingWorker'
    OBVIOUS
  <2> USE DEF PoolInv, TypeOK
  <2>0. ASSUME Awake \subseteq Awake', queue' = queue,
               At(worker', "waiting") \subseteq At(worker, "waiting")
        PROVE  NoSleepingWorker'
    BY <2>0, AwakeGrows DEF NoSleepingWorker
  <2>1. ASSUME NEW p \in Producers, RunAgain(p) PROVE NoSleepingWorker'
    <3>1. CASE isFull
      BY <2>0, <2>1, <3>1 DEF RunAgain, Awake
    <3>2. CASE ~isFull
      <4>1. offered[p] \in Tasks
        BY <2>1 DEF RunAgain
      <4>2. queue' = Append(queue, offered[p]) /\ Notify(worker, worker')
        BY <2>1, <3>2 DEF RunAgain
      <4> QED
        BY <4>1, <4>2, QueuedIsAnswered
    <3> QED
      BY <3>1, <3>2
  <2>2. ASSUME NEW p \in Producers, NEW t \in Tasks, Run(p, t)
        PROVE  NoSleepingWorker'
    <3>1. CASE isFull
      BY <2>0, <2>2, <3>1 DEF Run, Awake
    <3>2. CASE ~isFull
      <4>1. queue' = Append(queue, t) /\ Notify(worker, worker')
        BY <2>2, <3>2 DEF Run
      <4> QED
        BY <4>1, QueuedIsAnswered
    <3> QED
      BY <3>1, <3>2
  <2>3. ASSUME NEW w \in Workers, Check(w) PROVE NoSleepingWorker'
    <3>1. CASE running
      <4>1. Awake \subseteq Awake'
        BY <2>3, <3>1 DEF Check, Awake
      <4>2. At(worker', "waiting") \subseteq At(worker, "waiting")
        BY <2>3, <3>1 DEF Check, At
      <4> QED
        BY <2>0, <2>3, <4>1, <4>2 DEF Check
    <3>2. CASE ~running
      BY <2>3, <3>2 DEF Check, At, NoSleepingWorker
    <3> QED
      BY <3>1, <3>2
  <2>4. ASSUME NEW w \in Workers, Take(w) PROVE NoSleepingWorker'
    <3>1. w \in Awake /\ Awake' = Awake \ {w}
      BY <2>4 DEF Take, Awake
    <3>2. /\ Cardinality(Awake) \in Nat
          /\ Cardinality(Awake') = Cardinality(Awake) - 1
      BY <3>1, AwakeLoses
    <3>3. Len(queue') = Len(queue) - 1 /\ Len(queue) \in Nat
      BY <2>4 DEF Take
    <3>4. At(worker', "waiting") \subseteq At(worker, "waiting")
      BY <2>4 DEF Take, At
    <3> QED
      BY <3>2, <3>3, <3>4 DEF NoSleepingWorker
  <2>5. ASSUME NEW w \in Workers, TakeNothing(w) PROVE NoSleepingWorker'
    <3>1. Len(queue') = 0
      BY <2>5 DEF TakeNothing
    <3>2. IsFiniteSet(Awake')
      BY FS_Subset, WorkersAssumption DEF Awake
    <3>3. Cardinality(Awake') \in Nat
      BY <3>2, FS_CardinalityType
    <3> QED
      BY <3>1, <3>3 DEF NoSleepingWorker
  <2>6. ASSUME NEW w \in Workers, TaskReturn(w) PROVE NoSleepingWorker'
    <3>1. Awake \subseteq Awake'
      BY <2>6 DEF TaskReturn, Awake
    <3>2. At(worker', "waiting") \subseteq At(worker, "waiting")
      BY <2>6 DEF TaskReturn, At
    <3> QED
      BY <2>0, <2>6, <3>1, <3>2 DEF TaskReturn
  <2>7. CASE Stop
    BY <2>7 DEF Stop, At, NoSleepingWorker
  <2>8. CASE SpuriousWakeup
    <3>1. Awake \subseteq Awake'
      BY <2>8 DEF SpuriousWakeup, Awake, At
    <3>2. At(worker', "waiting") \subseteq At(worker, "waiting")
      BY <2>8 DEF SpuriousWakeup, At
    <3> QED
      BY <2>0, <2>8, <3>1, <3>2 DEF SpuriousWakeup
  <2>9. CASE Join \/ UNCHANGED vars
    BY <2>0, <2>9 DEF Join, vars, Awake
  <2> QED
    BY <2>1, <2>2, <2>3, <2>4, <2>5, <2>6, <2>7, <2>8, <2>9
       DEF Next, WorkerStep
<1> QED
  BY <1>1, <1>2, PoolInit, PoolStep, PTL DEF Spec

-----------------------------------------------------------------------------
Woken == At(producer, "woken")

(* No producer fewer is woken if all those woken still are. *)
LEMMA WokenGrows ==
    ASSUME PoolInv, PoolInv', Woken \subseteq Woken'
    PROVE  /\ Cardinality(Woken) \in Nat
           /\ Cardinality(Woken') \in Nat
           /\ Cardinality(Woken) <= Cardinality(Woken')
<1>1. Woken \subseteq Producers /\ Woken' \subseteq Producers
  BY DEF PoolInv, TypeOK, Woken, At
<1>2. IsFiniteSet(Woken) /\ IsFiniteSet(Woken')
  BY <1>1, FS_Subset, ProducersAssumption
<1> QED
  BY <1>2, FS_Subset, FS_CardinalityType

(* One producer is woken. *)
LEMMA WokenGains ==
    ASSUME PoolInv, NEW p \in Producers, p \notin Woken, Woken' = Woken \union {p}
    PROVE  /\ Cardinality(Woken) \in Nat
           /\ Cardinality(Woken') = Cardinality(Woken) + 1
<1>1. Woken \subseteq Producers
  BY DEF PoolInv, TypeOK, Woken, At
<1>2. IsFiniteSet(Woken)
  BY <1>1, FS_Subset, ProducersAssumption
<1> QED
  BY <1>2, FS_AddElement, FS_CardinalityType

(* One woken producer goes on. *)
LEMMA WokenLoses ==
    ASSUME PoolInv, NEW p \in Woken, Woken' = Woken \ {p}
    PROVE  /\ Cardinality(Woken) \in Nat
           /\ Cardinality(Woken') = Cardinality(Woken) - 1
<1>1. Woken \subseteq Producers
  BY DEF PoolInv, TypeOK, Woken, At
<1>2. IsFiniteSet(Woken)
  BY <1>1, FS_Subset, ProducersAssumption
<1> QED
  BY <1>2, FS_RemoveElement, FS_CardinalityType

(* No producer sleeps on room in the queue that nobody is coming for: take  *)
(* wakes one producer per place it frees, and the producer that takes the   *)
(* place fills it.                                                          *)
THEOREM NoProducerOversleeps == Spec => []NoSleepingProducer
<1>1. Init => NoSleepingProducer
  BY DEF Init, NoSleepingProducer, At
<1>2. PoolInv /\ PoolInv' /\ NoSleepingProducer /\ [Next]_vars
        => NoSleepingProducer'
  <2> SUFFICES ASSUME PoolInv, PoolInv', NoSleepingProducer, [Next]_vars
               PROVE  NoSleepingProducer'
    OBVIOUS
  <2> USE DEF PoolInv, TypeOK
  <2>0. /\ Cardinality(Woken) \in Nat /\ Len(queue) \in Nat
        /\ Cardinality(Woken') \in Nat /\ Len(queue') \in Nat
    <3>1. Woken \subseteq Producers /\ Woken' \subseteq Producers
      BY DEF Woken, At
    <3>2. IsFiniteSet(Woken) /\ IsFiniteSet(Woken')
      BY <3>1, FS_Subset, ProducersAssumption
    <3>3. Cardinality(Woken) \in Nat /\ Cardinality(Woken') \in Nat
      BY <3>2, FS_CardinalityType
    <3>4. Len(queue) \in Nat /\ Len(queue') \in Nat
      OBVIOUS
    <3> QED
      BY <3>3, <3>4
  <2>1. ASSUME Woken \subseteq Woken', queue' = queue,
               At(producer', "waiting") \subseteq At(producer, "waiting")
        PROVE  NoSleepingProducer'
    <3>1. Cardinality(Woken) <= Cardinality(Woken')
      BY <2>1, WokenGrows
    <3> QED
      BY <2>0, <2>1, <3>1, MaxQueueAssumption DEF NoSleepingProducer, Woken
  <2>2. ASSUME isFull, queue' = queue PROVE NoSleepingProducer'
    BY <2>0, <2>2, MaxQueueAssumption DEF isFull, NoSleepingProducer, Woken
  <2>3. ASSUME NEW p \in Producers, RunAgain(p) PROVE NoSleepingProducer'
    <3>1. CASE isFull
      BY <2>2, <2>3, <3>1 DEF RunAgain
    <3>2. CASE ~isFull
      <4>1. p \in Woken /\ Woken' = Woken \ {p}
        BY <2>3, <3>2 DEF RunAgain, Woken, At
      <4>2. Cardinality(Woken') = Cardinality(Woken) - 1
        BY <4>1, WokenLoses
      <4>3. offered[p] \in Tasks /\ queue' = Append(queue, offered[p])
        BY <2>3, <3>2 DEF RunAgain
      <4>4. Len(queue') = Len(queue) + 1
        BY <4>3
      <4>5. At(producer', "waiting") \subseteq At(producer, "waiting")
        BY <2>3, <3>2 DEF RunAgain, At
      <4> QED
        BY <2>0, <4>2, <4>4, <4>5, MaxQueueAssumption
           DEF NoSleepingProducer, Woken
    <3> QED
      BY <3>1, <3>2
  <2>4. ASSUME NEW p \in Producers, NEW t \in Tasks, Run(p, t)
        PROVE  NoSleepingProducer'
    <3>1. CASE isFull
      BY <2>2, <2>4, <3>1 DEF Run
    <3>2. CASE ~isFull
      <4>1. producer' = producer /\ queue' = Append(queue, t)
        BY <2>4, <3>2 DEF Run
      <4>2. Len(queue') = Len(queue) + 1
        BY <4>1
      <4>3. /\ At(producer', "waiting") = At(producer, "waiting")
            /\ At(producer', "woken") = At(producer, "woken")
        BY <4>1
      <4> QED
        BY <2>0, <4>2, <4>3, MaxQueueAssumption DEF NoSleepingProducer, Woken
    <3> QED
      BY <3>1, <3>2
  <2>5. ASSUME NEW w \in Workers, Take(w) PROVE NoSleepingProducer'
    <3>1. Len(queue') = Len(queue) - 1
      BY <2>5 DEF Take
    <3>2. CASE MaxQueue = 0
      BY <2>0, <3>2 DEF NoSleepingProducer, Woken
    <3>3. CASE MaxQueue > 0
      <4>1. Notify(producer, producer')
        BY <2>5, <3>3 DEF Take
      <4>2. CASE At(producer, "waiting") = {} /\ producer' = producer
        BY <4>2 DEF NoSleepingProducer, At
      <4>3. ASSUME NEW p \in DOMAIN producer, producer[p] = "waiting",
                   producer' = [producer EXCEPT ![p] = "woken"]
            PROVE  NoSleepingProducer'
        <5>1. /\ p \in Producers /\ p \notin Woken
              /\ Woken' = Woken \union {p}
          BY <4>3 DEF Woken, At
        <5>2. Cardinality(Woken') = Cardinality(Woken) + 1
          BY <5>1, WokenGains
        <5>3. MaxQueue <= Len(queue) + Cardinality(Woken)
          BY <4>3 DEF NoSleepingProducer, Woken, At
        <5> QED
          BY <2>0, <3>1, <5>2, <5>3, MaxQueueAssumption
             DEF NoSleepingProducer, Woken
      <4> QED
        BY <4>1, <4>2, <4>3, NotifyOne
    <3> QED
      BY <3>2, <3>3, MaxQueueAssumption
  <2>6. CASE SpuriousWakeup
    <3>1. Woken \subseteq Woken'
      BY <2>6 DEF SpuriousWakeup, Woken, At
    <3>2. At(producer', "waiting") \subseteq At(producer, "waiting")
      BY <2>6 DEF SpuriousWakeup, At
    <3> QED
      BY <2>1, <2>6, <3>1, <3>2 DEF SpuriousWakeup
  <2>7. ASSUME UNCHANGED <<producer, queue>> PROVE NoSleepingProducer'
    BY <2>1, <2>7 DEF Woken
  <2>8. ASSUME NEW w \in Workers, Check(w) \/ TakeNothing(w) \/ TaskReturn(w)
        PROVE  NoSleepingProducer'
    BY <2>7, <2>8 DEF Check, TakeNothing, TaskReturn
  <2>9. CASE Stop \/ Join \/ UNCHANGED vars
    BY <2>7, <2>9 DEF Stop, Join, vars
  <2> QED
    BY <2>3, <2>4, <2>5, <2>6, <2>8, <2>9 DEF Next, WorkerStep
<1> QED
  BY <1>1, <1>2, PoolInit, PoolStep, PTL DEF Spec

(* Neither side sleeps while there is something for it to do                *)
(* (ThreadPool.cc:79-126).                                                  *)
THEOREM PoolNeverOversleeps == Spec => []NobodyOversleeps
BY NoWorkerOversleeps, NoProducerOversleeps, PTL DEF NobodyOversleeps

-----------------------------------------------------------------------------
(* BlockingQueue, for any number of workers and messages and any            *)
(* capacities.                                                              *)
CONSTANTS Consumers, Messages, Capacities
VARIABLES capacity, messages, pc, k, count, tid, waitsOn

Queue == INSTANCE BlockingQueue WITH Workers <- Consumers, queue <- messages

(* What BlockingQueue assumes of its constants. *)
QueueAssumption ==
    /\ Consumers \in Nat \ {0} /\ Messages \in Nat
    /\ Capacities \subseteq Nat \ {0}

W == 1..Consumers

(* The workers that have not counted down Main's latch yet, and those about *)
(* to take. *)
Uncounted == {t \in W : pc[t] \in {"none", "run", "count"}}
Takers == {t \in W : Queue!At(t, "take")}

(* Where a thread may be, and wait. *)
Places ==
    /\ pc[Queue!Main] \in {"create", "start", "latch", "put", "join", "done"}
    /\ waitsOn[Queue!Main] \in {"none", "started", "all", "notFull"}
    /\ waitsOn[Queue!Main] = "started" => pc[Queue!Main] = "start"
    /\ waitsOn[Queue!Main] = "all" => pc[Queue!Main] = "latch"
    /\ waitsOn[Queue!Main] = "notFull" => pc[Queue!Main] = "put"
    /\ \A t \in W :
          /\ pc[t] \in {"none", "run", "count", "take", "done"}
          /\ waitsOn[t] \in {"none", "notEmpty"}
          /\ waitsOn[t] = "notEmpty" => pc[t] = "take"

(* How far the starting of the workers is: those before k run. *)
Starting ==
    /\ tid = {t \in W : pc[t] \notin {"none", "run"}}
    /\ \A t \in W : count[t] = IF pc[t] \in {"none", "run"} THEN 1 ELSE 0
    /\ pc[Queue!Main] \in {"create", "start", "join"} => k \in W
    /\ pc[Queue!Main] = "latch" => k = 1
    /\ pc[Queue!Main] = "put" => k \in 1..Messages + Consumers
    /\ \A t \in W : pc[t] = "none" => pc[Queue!Main] \in {"create", "start"} /\ t >= k
    /\ \A t \in W : pc[t] = "run" => pc[Queue!Main] = "start" /\ t = k
    /\ pc[Queue!Main] = "create" => \A t \in W : t >= k => pc[t] = "none"
    /\ pc[Queue!Main] = "start" => pc[k] # "none" /\ \A t \in W : t > k => pc[t] = "none"

(* Main's latch counts the workers that have not counted down. *)
LatchInv ==
    /\ count[Queue!Main] = Cardinality(Uncounted)
    /\ pc[Queue!Main] \in {"put", "join", "done"} => Uncounted = {}

(* NobodyOversleeps, of the workers and of Main. *)
WorkersAwake == (\E t \in W : waitsOn[t] = "notEmpty") => Len(messages) <= Cardinality(Takers)

MainAwake ==
    /\ waitsOn[Queue!Main] = "notFull" => Len(messages) = capacity
    /\ waitsOn[Queue!Main] = "all" => count[Queue!Main] > 0
    /\ waitsOn[Queue!Main] = "started" => count[k] > 0

BlockingInv == Queue!TypeOK /\ Places /\ Starting /\ LatchInv /\ WorkersAwake /\ MainAwake

-----------------------------------------------------------------------------
(* BlockingQueue counts as this module does. *)
LEMMA SameCardinality == \A S : Queue!Cardinality(S) = Cardinality(S)
BY DEF Queue!Cardinality, Cardinality

(* What Places says of one thread. *)
LEMMA ThreadFacts ==
    ASSUME QueueAssumption PROVE
    /\ Consumers \in Nat /\ Messages \in Nat /\ Consumers >= 1
    /\ Queue!Threads = {Queue!Main} \union W /\ Queue!Main \notin W /\ W \subseteq Nat
    /\ 1 \in W /\ Consumers \in W
<1>1. Consumers \in Nat /\ Messages \in Nat /\ Consumers >= 1
  BY DEF QueueAssumption
<1> QED BY <1>1 DEF Queue!Threads, Queue!Main, W

(* Sets of workers are finite; a larger one has at least as many members. *)
LEMMA WorkerSets ==
    ASSUME QueueAssumption, NEW S \in SUBSET W, NEW R \in SUBSET W
    PROVE  /\ IsFiniteSet(S) /\ Cardinality(S) \in Nat
           /\ S \subseteq R => Cardinality(S) <= Cardinality(R)
<1>1. IsFiniteSet(W)
  BY ThreadFacts, FS_Interval DEF W
<1>2. IsFiniteSet(S) /\ IsFiniteSet(R)
  BY <1>1, FS_Subset
<1> QED BY <1>2, FS_Subset, FS_CardinalityType

(* A worker more in a set of workers. *)
LEMMA WorkerGained ==
    ASSUME QueueAssumption, NEW S \in SUBSET W, NEW t \in W, t \notin S
    PROVE  Cardinality(S \union {t}) = Cardinality(S) + 1
BY WorkerSets, FS_AddElement

(* A worker less. *)
LEMMA WorkerLost ==
    ASSUME QueueAssumption, NEW S \in SUBSET W, NEW t \in S
    PROVE  Cardinality(S \ {t}) = Cardinality(S) - 1
BY WorkerSets, FS_RemoveElement

(* A notification of notEmpty wakes one of the workers that wait, if any. *)
LEMMA NotifyTaker ==
    ASSUME QueueAssumption, Queue!TypeOK, Places, Queue!Notify("notEmpty")
    PROVE  \/ waitsOn' = waitsOn /\ \A t \in W : waitsOn[t] # "notEmpty"
           \/ \E t \in W : /\ waitsOn[t] = "notEmpty"
                           /\ waitsOn' = [waitsOn EXCEPT ![t] = "none"]
BY ThreadFacts DEF Queue!Notify, Queue!WaitOn, Places

(* One of notFull wakes Main, which alone waits for it. *)
LEMMA NotifyPutter ==
    ASSUME QueueAssumption, Queue!TypeOK, Places, Queue!Notify("notFull")
    PROVE  waitsOn' = [waitsOn EXCEPT ![Queue!Main] = IF @ = "notFull" THEN "none" ELSE @]
<1>1. \A t \in Queue!Threads : waitsOn[t] = "notFull" => t = Queue!Main
  BY ThreadFacts DEF Places
<1>2. CASE waitsOn[Queue!Main] = "notFull"
  BY <1>1, <1>2, ThreadFacts DEF Queue!Notify, Queue!WaitOn, Queue!TypeOK
<1>3. CASE waitsOn[Queue!Main] # "notFull"
  BY <1>1, <1>3, ThreadFacts DEF Queue!Notify, Queue!WaitOn, Queue!TypeOK
<1> QED BY <1>2, <1>3

(* countDown by a worker of a latch that is not down. *)
LEMMA Counted ==
    ASSUME QueueAssumption, Queue!TypeOK, Places,
           NEW l \in Queue!Latches, NEW c \in {"all", "started"}, Queue!CountDown(l, c),
           count[l] > 0
    PROVE  /\ count' = [count EXCEPT ![l] = @ - 1]
           /\ count' \in [Queue!Latches -> 0..Consumers]
           /\ waitsOn' \in [Queue!Threads -> Queue!Conditions]
           /\ \A t \in W : waitsOn'[t] = waitsOn[t]
           /\ waitsOn'[Queue!Main] \in {"none", waitsOn[Queue!Main]}
           /\ waitsOn'[Queue!Main] = c => count'[l] # 0
<1>1. count' = [count EXCEPT ![l] = @ - 1]
  BY DEF Queue!CountDown
<1>2. count' \in [Queue!Latches -> 0..Consumers]
  <2>1. count[l] - 1 \in 0..Consumers
    BY ThreadFacts DEF Queue!TypeOK
  <2> QED BY <1>1, <2>1 DEF Queue!TypeOK
<1>3. CASE count'[l] = 0
  <2>1. waitsOn' = [t \in Queue!Threads |-> IF waitsOn[t] = c THEN "none" ELSE waitsOn[t]]
    BY <1>3 DEF Queue!CountDown, Queue!NotifyAll
  <2>2. \A t \in W : waitsOn[t] # c
    BY DEF Places
  <2> QED BY <1>1, <1>2, <2>1, <2>2, ThreadFacts DEF Queue!TypeOK, Queue!Conditions
<1>4. CASE count'[l] # 0
  BY <1>1, <1>2, <1>4 DEF Queue!CountDown, Queue!TypeOK
<1> QED BY <1>3, <1>4

(* A step that leaves the queue and those about to take alone. *)
LEMMA StillAwake ==
    ASSUME QueueAssumption, WorkersAwake, messages' = messages, Takers \subseteq Takers',
           \A t \in W : waitsOn'[t] = "notEmpty" => waitsOn[t] = "notEmpty"
    PROVE  WorkersAwake'
<1>1. Takers \subseteq W /\ Takers' \subseteq W
  BY DEF Takers
<1>2. /\ Cardinality(Takers) \in Nat /\ Cardinality(Takers') \in Nat
      /\ Cardinality(Takers) <= Cardinality(Takers')
  BY <1>1, WorkerSets
<1>3. ASSUME Len(messages) <= Cardinality(Takers) PROVE Len(messages) <= Cardinality(Takers')
  BY <1>2, <1>3
<1> QED BY <1>3 DEF WorkersAwake

-----------------------------------------------------------------------------
(* Thread::start of the next worker. *)
LEMMA CreateStep ==
    ASSUME QueueAssumption PROVE BlockingInv /\ Queue!Create => BlockingInv'
<1> SUFFICES ASSUME BlockingInv, Queue!Create PROVE BlockingInv'
  OBVIOUS
<1> USE DEF BlockingInv
<1>1. /\ Queue!TypeOK /\ Places /\ Starting /\ LatchInv /\ WorkersAwake /\ MainAwake
      /\ pc[Queue!Main] = "create" /\ waitsOn[Queue!Main] = "none"
      /\ pc' = [pc EXCEPT ![Queue!Main] = "start", ![k] = "run"]
      /\ UNCHANGED <<capacity, messages, k, count, tid, waitsOn>>
  BY DEF Queue!Create, Queue!At
<1>2. k \in W /\ k # Queue!Main /\ pc[k] = "none"
  <2>1. k \in W /\ \A t \in W : t >= k => pc[t] = "none"
    BY <1>1 DEF Starting
  <2>2. k # Queue!Main /\ k >= k
    BY <2>1, ThreadFacts
  <2> QED BY <2>1, <2>2
<1>3. /\ pc'[Queue!Main] = "start" /\ pc'[k] = "run"
      /\ \A t \in W : t # k => pc'[t] = pc[t]
  BY <1>1, <1>2, ThreadFacts DEF Queue!TypeOK
<1>4. Queue!TypeOK'
  BY <1>1 DEF Queue!TypeOK
<1>5. Places'
  BY <1>1, <1>2, <1>3 DEF Places
<1>6. Starting'
  <2>1. \A t \in W : t >= k => t = k \/ t > k
    BY <1>2, ThreadFacts
  <2>2. k >= k /\ \A t \in W : t > k => t # k /\ t >= k
    BY <1>2, ThreadFacts
  <2>3. tid' = {t \in W : pc'[t] \notin {"none", "run"}}
    BY <1>1, <1>2, <1>3 DEF Starting
  <2>4. \A t \in W : count'[t] = IF pc'[t] \in {"none", "run"} THEN 1 ELSE 0
    BY <1>1, <1>2, <1>3 DEF Starting
  <2> QED BY <1>1, <1>2, <1>3, <2>1, <2>2, <2>3, <2>4 DEF Starting
<1>7. LatchInv'
  <2>1. Uncounted' = Uncounted
    BY <1>2, <1>3 DEF Uncounted
  <2> QED BY <1>1, <1>3, <2>1 DEF LatchInv
<1>8. WorkersAwake'
  <2>1. Takers \subseteq Takers'
    BY <1>1, <1>2, <1>3 DEF Takers, Queue!At
  <2> QED BY <1>1, <2>1, StillAwake
<1>9. MainAwake'
  BY <1>1 DEF MainAwake
<1> QED BY <1>4, <1>5, <1>6, <1>7, <1>8, <1>9

(* Its wait for the thread to run. *)
LEMMA StartedStep ==
    ASSUME QueueAssumption PROVE BlockingInv /\ Queue!Started => BlockingInv'
<1> SUFFICES ASSUME BlockingInv, Queue!Started PROVE BlockingInv'
  OBVIOUS
<1> USE DEF BlockingInv
<1>0. /\ Queue!TypeOK /\ Places /\ Starting /\ LatchInv /\ WorkersAwake /\ MainAwake
      /\ pc[Queue!Main] = "start" /\ waitsOn[Queue!Main] = "none"
      /\ k \in W /\ pc[k] # "none"
      /\ UNCHANGED <<capacity, messages, count, tid>>
  BY DEF Queue!Started, Queue!At, Starting
<1>1. CASE count[k] > 0
  <2>1. waitsOn' = [waitsOn EXCEPT ![Queue!Main] = "started"] /\ pc' = pc /\ k' = k
    BY <1>0, <1>1 DEF Queue!Started, Queue!LatchWait, Queue!WaitOn
  <2>2. waitsOn'[Queue!Main] = "started" /\ \A t \in W : waitsOn'[t] = waitsOn[t]
    BY <1>0, <2>1, ThreadFacts DEF Queue!TypeOK
  <2>3. Queue!TypeOK' /\ Places'
    BY <1>0, <2>1, <2>2 DEF Queue!TypeOK, Places, Queue!Conditions
  <2>4. Starting'
    BY <1>0, <2>1 DEF Starting
  <2>5. LatchInv' /\ MainAwake'
    BY <1>0, <1>1, <2>1, <2>2 DEF LatchInv, MainAwake, Uncounted
  <2>6. Takers' = Takers
    BY <2>1, <2>2 DEF Takers, Queue!At
  <2> QED BY <1>0, <2>2, <2>3, <2>4, <2>5, <2>6, StillAwake
<1>2. CASE ~(count[k] > 0)
  <2>1. pc[k] \notin {"none", "run"}
    BY <1>0, <1>2 DEF Starting
  <2> DEFINE next == IF k < Consumers THEN "create" ELSE "latch"
  <2>2. pc' = [pc EXCEPT ![Queue!Main] = next] /\ waitsOn' = waitsOn
    BY <1>0, <1>2 DEF Queue!Started, Queue!LatchWait
  <2>3. pc'[Queue!Main] = next /\ \A t \in W : pc'[t] = pc[t]
    BY <1>0, <2>2, ThreadFacts DEF Queue!TypeOK
  <2>4. k' = IF k < Consumers THEN k + 1 ELSE 1
    BY <1>0, <2>3 DEF Queue!Started
  <2>5. k' \in W /\ k' \in 1..Messages + Consumers + 1
    BY <1>0, <2>4, ThreadFacts DEF W
  <2>6. Queue!TypeOK' /\ Places'
    BY <1>0, <2>2, <2>3, <2>5 DEF Queue!TypeOK, Places
  <2>7. Starting'
    <3>1. \A t \in W : pc[t] # "run"
      BY <1>0, <2>1 DEF Starting
    <3>2. \A t \in W : pc[t] = "none" => t > k
      <4>1. \A t \in W : t >= k /\ t # k => t > k
        BY <1>0, ThreadFacts
      <4> QED BY <1>0, <2>1, <4>1 DEF Starting
    <3>3. tid' = {t \in W : pc'[t] \notin {"none", "run"}}
      BY <1>0, <2>3 DEF Starting
    <3>4. \A t \in W : count'[t] = IF pc'[t] \in {"none", "run"} THEN 1 ELSE 0
      BY <1>0, <2>3 DEF Starting
    <3>5. CASE k < Consumers
      <4>1. k' = k + 1 /\ pc'[Queue!Main] = "create"
        BY <2>3, <2>4, <3>5
      <4>2. \A t \in W : t >= k' <=> t > k
        BY <1>0, <4>1, ThreadFacts
      <4>3. \A t \in W : t > k => pc[t] = "none"
        BY <1>0 DEF Starting
      <4> QED BY <2>3, <2>5, <3>1, <3>2, <3>3, <3>4, <4>1, <4>2, <4>3 DEF Starting
    <3>6. CASE ~(k < Consumers)
      <4>1. k' = 1 /\ pc'[Queue!Main] = "latch"
        BY <2>3, <2>4, <3>6
      <4>2. \A t \in W : ~(t > k)
        BY <1>0, <3>6, ThreadFacts DEF W
      <4> QED BY <2>3, <3>1, <3>2, <3>3, <3>4, <4>1, <4>2 DEF Starting
    <3> QED BY <3>5, <3>6
  <2>8. Uncounted' = Uncounted /\ Takers' = Takers
    BY <2>2, <2>3 DEF Uncounted, Takers, Queue!At
  <2>9. LatchInv'
    BY <1>0, <2>3, <2>8 DEF LatchInv
  <2>10. MainAwake'
    BY <1>0, <2>2 DEF MainAwake
  <2> QED BY <1>0, <2>2, <2>6, <2>7, <2>8, <2>9, <2>10, StillAwake
<1> QED BY <1>1, <1>2

(* A worker runs and tells its starter. *)
LEMMA RunStep ==
    ASSUME QueueAssumption, BlockingInv, NEW t \in W, Queue!RunInThread(t)
    PROVE  BlockingInv'
<1> USE DEF BlockingInv
<1>1. /\ Queue!TypeOK /\ Places /\ Starting /\ LatchInv /\ WorkersAwake /\ MainAwake
      /\ pc[t] = "run" /\ waitsOn[t] = "none"
      /\ tid' = tid \union {t}
      /\ pc' = [pc EXCEPT ![t] = "count"]
      /\ UNCHANGED <<capacity, messages, k>>
  BY DEF Queue!RunInThread, Queue!At
<1>2. pc[Queue!Main] = "start" /\ t = k /\ count[t] = 1 /\ t # Queue!Main /\ t \in Queue!Latches
  BY <1>1, ThreadFacts DEF Starting, Queue!Latches
<1>3. /\ count' = [count EXCEPT ![t] = @ - 1]
      /\ count' \in [Queue!Latches -> 0..Consumers]
      /\ waitsOn' \in [Queue!Threads -> Queue!Conditions]
      /\ \A u \in W : waitsOn'[u] = waitsOn[u]
      /\ waitsOn'[Queue!Main] \in {"none", waitsOn[Queue!Main]}
      /\ waitsOn'[Queue!Main] = "started" => count'[t] # 0
  BY <1>1, <1>2, Counted DEF Queue!RunInThread
<1>4. /\ count'[t] = 0 /\ count'[Queue!Main] = count[Queue!Main]
      /\ \A u \in W : u # t => count'[u] = count[u]
  BY <1>1, <1>2, <1>3, ThreadFacts DEF Queue!TypeOK, Queue!Latches
<1>5. /\ pc'[t] = "count" /\ pc'[Queue!Main] = "start"
      /\ \A u \in W : u # t => pc'[u] = pc[u]
  BY <1>1, <1>2, ThreadFacts DEF Queue!TypeOK
<1>6. Queue!TypeOK'
  BY <1>1, <1>3, ThreadFacts DEF Queue!TypeOK
<1>7. Places'
  BY <1>1, <1>2, <1>3, <1>5 DEF Places
<1>8. Starting'
  BY <1>1, <1>2, <1>4, <1>5 DEF Starting
<1>9. Uncounted' = Uncounted /\ Takers \subseteq Takers'
  BY <1>1, <1>3, <1>5 DEF Uncounted, Takers, Queue!At
<1>10. LatchInv'
  BY <1>1, <1>4, <1>5, <1>9 DEF LatchInv
<1>11. MainAwake'
  BY <1>1, <1>2, <1>3, <1>4 DEF MainAwake, Places
<1> QED BY <1>1, <1>3, <1>6, <1>7, <1>8, <1>9, <1>10, <1>11, StillAwake

(* A worker counts Main's latch down. *)
LEMMA CountStep ==
    ASSUME QueueAssumption, BlockingInv, NEW t \in W, Queue!CountSelf(t)
    PROVE  BlockingInv'
<1> USE DEF BlockingInv
<1>1. /\ Queue!TypeOK /\ Places /\ Starting /\ LatchInv /\ WorkersAwake /\ MainAwake
      /\ pc[t] = "count" /\ waitsOn[t] = "none"
      /\ pc' = [pc EXCEPT ![t] = "take"]
      /\ UNCHANGED <<capacity, messages, k, tid>>
  BY DEF Queue!CountSelf, Queue!At
<1>2. t \in Uncounted /\ t # Queue!Main /\ Queue!Main \in Queue!Latches
  BY <1>1, ThreadFacts DEF Uncounted, Queue!Latches
<1>3. /\ pc'[t] = "take" /\ pc'[Queue!Main] = pc[Queue!Main]
      /\ \A u \in W : u # t => pc'[u] = pc[u]
  BY <1>1, <1>2, ThreadFacts DEF Queue!TypeOK
<1>4. /\ Cardinality(Uncounted) \in Nat /\ Cardinality(Uncounted') \in Nat
      /\ Uncounted' = Uncounted \ {t}
      /\ Cardinality(Uncounted') = Cardinality(Uncounted) - 1
  <2>1. Uncounted \in SUBSET W /\ Uncounted' \in SUBSET W
    BY DEF Uncounted
  <2>2. Uncounted' = Uncounted \ {t}
    BY <1>2, <1>3 DEF Uncounted
  <2> QED BY <1>2, <2>1, <2>2, WorkerSets, WorkerLost
<1>5. count[Queue!Main] > 0
  BY <1>1, <1>4 DEF LatchInv
<1>6. /\ count' = [count EXCEPT ![Queue!Main] = @ - 1]
      /\ count' \in [Queue!Latches -> 0..Consumers]
      /\ waitsOn' \in [Queue!Threads -> Queue!Conditions]
      /\ \A u \in W : waitsOn'[u] = waitsOn[u]
      /\ waitsOn'[Queue!Main] \in {"none", waitsOn[Queue!Main]}
      /\ waitsOn'[Queue!Main] = "all" => count'[Queue!Main] # 0
  BY <1>1, <1>2, <1>5, Counted DEF Queue!CountSelf
<1>7. count'[Queue!Main] = count[Queue!Main] - 1 /\ \A u \in W : count'[u] = count[u]
  BY <1>1, <1>2, <1>6, ThreadFacts DEF Queue!TypeOK, Queue!Latches
<1>8. Queue!TypeOK'
  BY <1>1, <1>6, ThreadFacts DEF Queue!TypeOK
<1>9. Places'
  BY <1>1, <1>3, <1>6 DEF Places
<1>10. Starting'
  <2>1. tid' = {u \in W : pc'[u] \notin {"none", "run"}}
    BY <1>1, <1>3 DEF Starting
  <2>2. \A u \in W : count'[u] = IF pc'[u] \in {"none", "run"} THEN 1 ELSE 0
    BY <1>1, <1>3, <1>7 DEF Starting
  <2>3. pc[Queue!Main] = "start" => k \in W /\ pc'[k] # "none"
    BY <1>1, <1>3 DEF Starting
  <2>4. pc[Queue!Main] = "create" => \A u \in W : u >= k => pc'[u] = "none"
    BY <1>1, <1>3 DEF Starting
  <2>5. pc[Queue!Main] = "start" => \A u \in W : u > k => pc'[u] = "none"
    BY <1>1, <1>3 DEF Starting
  <2> QED BY <1>1, <1>3, <2>1, <2>2, <2>3, <2>4, <2>5 DEF Starting
<1>11. LatchInv'
  BY <1>1, <1>3, <1>4, <1>7 DEF LatchInv
<1>12. Takers \subseteq Takers'
  BY <1>1, <1>3, <1>6 DEF Takers, Queue!At
<1>13. MainAwake'
  <2>1. waitsOn'[Queue!Main] = "all" => count'[Queue!Main] > 0
    <3>1. count'[Queue!Main] \in 0..Consumers
      BY <1>2, <1>6
    <3>2. count'[Queue!Main] # 0 => count'[Queue!Main] > 0
      BY <3>1, ThreadFacts
    <3> QED BY <1>6, <3>2
  <2>2. waitsOn'[Queue!Main] = "started" => count'[k'] > 0
    BY <1>1, <1>6, <1>7 DEF MainAwake, Places, Starting
  <2> QED BY <1>1, <1>6, <2>1, <2>2 DEF MainAwake
<1> QED BY <1>1, <1>6, <1>8, <1>9, <1>10, <1>11, <1>12, <1>13, StillAwake

-----------------------------------------------------------------------------
(* Main's wait for all workers. *)
LEMMA AllStartedStep ==
    ASSUME QueueAssumption PROVE BlockingInv /\ Queue!AllStarted => BlockingInv'
<1> SUFFICES ASSUME BlockingInv, Queue!AllStarted PROVE BlockingInv'
  OBVIOUS
<1> USE DEF BlockingInv
<1>0. /\ Queue!TypeOK /\ Places /\ Starting /\ LatchInv /\ WorkersAwake /\ MainAwake
      /\ pc[Queue!Main] = "latch" /\ waitsOn[Queue!Main] = "none" /\ k = 1
      /\ UNCHANGED <<capacity, messages, k, count, tid>>
  BY DEF Queue!AllStarted, Queue!At, Starting
<1>1. CASE count[Queue!Main] > 0
  <2>1. waitsOn' = [waitsOn EXCEPT ![Queue!Main] = "all"] /\ pc' = pc
    BY <1>1 DEF Queue!AllStarted, Queue!LatchWait, Queue!WaitOn
  <2>2. waitsOn'[Queue!Main] = "all" /\ \A t \in W : waitsOn'[t] = waitsOn[t]
    BY <1>0, <2>1, ThreadFacts DEF Queue!TypeOK
  <2>3. Queue!TypeOK' /\ Places'
    BY <1>0, <2>1, <2>2 DEF Queue!TypeOK, Places, Queue!Conditions
  <2>4. Starting'
    BY <1>0, <2>1 DEF Starting
  <2>5. LatchInv' /\ MainAwake'
    BY <1>0, <1>1, <2>1, <2>2 DEF LatchInv, MainAwake, Uncounted
  <2>6. Takers' = Takers
    BY <2>1, <2>2 DEF Takers, Queue!At
  <2> QED BY <1>0, <2>2, <2>3, <2>4, <2>5, <2>6, StillAwake
<1>2. CASE ~(count[Queue!Main] > 0)
  <2>1. Uncounted = {}
    <3>1. Uncounted \in SUBSET W
      BY DEF Uncounted
    <3>2. IsFiniteSet(Uncounted) /\ Cardinality(Uncounted) = 0
      BY <1>0, <1>2, <3>1, WorkerSets DEF LatchInv
    <3> QED BY <3>2, FS_EmptySet
  <2>2. pc' = [pc EXCEPT ![Queue!Main] = "put"] /\ waitsOn' = waitsOn
    BY <1>2 DEF Queue!AllStarted, Queue!LatchWait
  <2>3. pc'[Queue!Main] = "put" /\ \A t \in W : pc'[t] = pc[t]
    BY <1>0, <2>2, ThreadFacts DEF Queue!TypeOK
  <2>4. Queue!TypeOK' /\ Places'
    BY <1>0, <2>2, <2>3 DEF Queue!TypeOK, Places
  <2>5. Uncounted' = Uncounted /\ Takers' = Takers
    BY <2>2, <2>3 DEF Uncounted, Takers, Queue!At
  <2>6. Starting'
    <3>1. \A t \in W : pc[t] \notin {"none", "run"}
      BY <2>1 DEF Uncounted
    <3>2. k \in 1..Messages + Consumers
      BY <1>0, ThreadFacts
    <3> QED BY <1>0, <2>3, <3>1, <3>2 DEF Starting
  <2>7. LatchInv' /\ MainAwake'
    BY <1>0, <2>1, <2>2, <2>5 DEF LatchInv, MainAwake
  <2> QED BY <1>0, <2>2, <2>4, <2>5, <2>6, <2>7, StillAwake
<1> QED BY <1>1, <1>2

(* put finds the queue full. *)
LEMMA PutWaitsStep ==
    ASSUME QueueAssumption PROVE BlockingInv /\ Queue!PutWaits => BlockingInv'
<1> SUFFICES ASSUME BlockingInv, Queue!PutWaits PROVE BlockingInv'
  OBVIOUS
<1> USE DEF BlockingInv
<1>1. /\ Queue!TypeOK /\ Places /\ Starting /\ LatchInv /\ WorkersAwake /\ MainAwake
      /\ pc[Queue!Main] = "put" /\ Len(messages) = capacity
      /\ waitsOn' = [waitsOn EXCEPT ![Queue!Main] = "notFull"]
      /\ UNCHANGED <<capacity, messages, pc, k, count, tid>>
  BY DEF Queue!PutWaits, Queue!At, Queue!WaitOn
<1>2. waitsOn'[Queue!Main] = "notFull" /\ \A t \in W : waitsOn'[t] = waitsOn[t]
  BY <1>1, ThreadFacts DEF Queue!TypeOK
<1>3. Queue!TypeOK' /\ Places'
  BY <1>1, <1>2 DEF Queue!TypeOK, Places, Queue!Conditions
<1>4. Starting' /\ LatchInv' /\ MainAwake'
  BY <1>1, <1>2 DEF Starting, LatchInv, MainAwake, Uncounted
<1>5. Takers' = Takers
  BY <1>1, <1>2 DEF Takers, Queue!At
<1> QED BY <1>1, <1>2, <1>3, <1>4, <1>5, StillAwake

(* put: a message for which a taker is woken, if one waits. *)
LEMMA PutStep ==
    ASSUME QueueAssumption PROVE BlockingInv /\ Queue!Put => BlockingInv'
<1> SUFFICES ASSUME BlockingInv, Queue!Put PROVE BlockingInv'
  OBVIOUS
<1> USE DEF BlockingInv
<1>0. /\ Queue!TypeOK /\ Places /\ Starting /\ LatchInv /\ WorkersAwake
      /\ pc[Queue!Main] = "put" /\ waitsOn[Queue!Main] = "none"
      /\ messages' = Append(messages, IF k <= Messages THEN k ELSE Queue!Stop)
      /\ Queue!Notify("notEmpty")
      /\ UNCHANGED <<capacity, count, tid>>
      /\ Uncounted = {}
  BY DEF Queue!Put, Queue!At, Queue!TellTaker, LatchInv
<1>1. /\ pc'[Queue!Main] \in {"put", "join"} /\ \A t \in W : pc'[t] = pc[t]
      /\ pc' \in [Queue!Threads -> {"none", "create", "start", "latch", "put", "join",
                              "run", "count", "take", "done"}]
      /\ k' \in 1..Messages + Consumers
      /\ pc'[Queue!Main] = "join" => k' \in W
  <2>1. k \in 1..Messages + Consumers
    BY <1>0 DEF Starting
  <2>2. CASE k < Messages + Consumers
    <3>1. k' = k + 1 /\ pc' = pc
      BY <2>2 DEF Queue!Put
    <3>2. k' \in 1..Messages + Consumers
      BY <2>1, <2>2, <3>1, ThreadFacts
    <3> QED BY <1>0, <3>1, <3>2 DEF Queue!TypeOK
  <2>3. CASE ~(k < Messages + Consumers)
    <3>1. k' = 1 /\ pc' = [pc EXCEPT ![Queue!Main] = "join"]
      BY <2>3 DEF Queue!Put
    <3>2. k' \in 1..Messages + Consumers
      BY <3>1, ThreadFacts
    <3> QED BY <1>0, <3>1, <3>2, ThreadFacts DEF Queue!TypeOK
  <2> QED BY <2>2, <2>3
<1>2. messages' \in Seq(0..Messages) /\ Len(messages') = Len(messages) + 1 /\ Len(messages) \in Nat
  <2>1. (IF k <= Messages THEN k ELSE Queue!Stop) \in 0..Messages
    BY <1>0, ThreadFacts DEF Starting, Queue!Stop
  <2> QED BY <1>0, <2>1 DEF Queue!TypeOK
<1>3. /\ waitsOn' \in [Queue!Threads -> Queue!Conditions]
      /\ waitsOn'[Queue!Main] = waitsOn[Queue!Main]
      /\ \A t \in W : waitsOn'[t] \in {"none", waitsOn[t]}
  BY <1>0, NotifyTaker, ThreadFacts DEF Queue!TypeOK, Queue!Conditions
<1>4. Queue!TypeOK'
  <2>1. k' \in 1..Messages + Consumers + 1
    BY <1>1, ThreadFacts
  <2> QED BY <1>0, <1>1, <1>2, <1>3, <2>1 DEF Queue!TypeOK
<1>5. Places'
  BY <1>0, <1>1, <1>3 DEF Places
<1>6. Uncounted' = {}
  BY <1>0, <1>1 DEF Uncounted
<1>7. Starting'
  <2>1. \A t \in W : pc[t] \notin {"none", "run"}
    BY <1>0 DEF Uncounted
  <2> QED BY <1>0, <1>1, <2>1 DEF Starting
<1>8. LatchInv'
  <2>1. count[Queue!Main] = Cardinality(Uncounted)
    BY DEF LatchInv
  <2> QED BY <1>0, <1>6, <2>1 DEF LatchInv
<1>9. MainAwake'
  BY <1>0, <1>3 DEF MainAwake
<1>10. WorkersAwake'
  <2>1. CASE waitsOn' = waitsOn /\ \A t \in W : waitsOn[t] # "notEmpty"
    BY <2>1 DEF WorkersAwake
  <2>2. ASSUME NEW t \in W, waitsOn[t] = "notEmpty",
               waitsOn' = [waitsOn EXCEPT ![t] = "none"]
        PROVE  WorkersAwake'
    <3>1. Len(messages) <= Cardinality(Takers)
      BY <1>0, <2>2 DEF WorkersAwake
    <3>2. t \notin Takers /\ Takers \in SUBSET W
      BY <2>2 DEF Takers, Queue!At
    <3>3. Takers' = Takers \union {t}
      <4>1. pc[t] = "take" /\ waitsOn'[t] = "none"
        BY <1>0, <2>2, ThreadFacts DEF Places, Queue!TypeOK
      <4>2. \A u \in W : u # t => waitsOn'[u] = waitsOn[u]
        BY <1>0, <2>2, ThreadFacts DEF Queue!TypeOK
      <4> QED BY <1>1, <4>1, <4>2 DEF Takers, Queue!At
    <3>4. /\ Cardinality(Takers) \in Nat
          /\ Cardinality(Takers') = Cardinality(Takers) + 1
      BY <3>2, <3>3, WorkerSets, WorkerGained
    <3>5. Len(messages') <= Cardinality(Takers')
      BY <1>2, <3>1, <3>4
    <3> QED BY <3>5 DEF WorkersAwake
  <2> QED BY <1>0, <2>1, <2>2, NotifyTaker
<1> QED BY <1>4, <1>5, <1>7, <1>8, <1>9, <1>10

(* take finds the queue empty. *)
LEMMA TakeWaitsStep ==
    ASSUME QueueAssumption, BlockingInv, NEW t \in W, Queue!TakeWaits(t)
    PROVE  BlockingInv'
<1> USE DEF BlockingInv
<1>1. /\ Queue!TypeOK /\ Places /\ Starting /\ LatchInv /\ WorkersAwake /\ MainAwake
      /\ pc[t] = "take" /\ messages = <<>> /\ t # Queue!Main /\ t \in Queue!Threads
      /\ waitsOn' = [waitsOn EXCEPT ![t] = "notEmpty"]
      /\ UNCHANGED <<capacity, messages, pc, k, count, tid>>
  BY ThreadFacts DEF Queue!TakeWaits, Queue!At, Queue!WaitOn
<1>2. /\ waitsOn'[t] = "notEmpty" /\ waitsOn'[Queue!Main] = waitsOn[Queue!Main]
      /\ \A u \in W : u # t => waitsOn'[u] = waitsOn[u]
  BY <1>1, ThreadFacts DEF Queue!TypeOK
<1>3. Queue!TypeOK' /\ Places'
  BY <1>1, <1>2 DEF Queue!TypeOK, Places, Queue!Conditions
<1>4. Starting' /\ LatchInv' /\ MainAwake'
  BY <1>1, <1>2 DEF Starting, LatchInv, MainAwake, Uncounted
<1>5. WorkersAwake'
  <2>1. Takers' \in SUBSET W
    BY DEF Takers
  <2>2. Cardinality(Takers') \in Nat /\ Len(messages') = 0
    BY <1>1, <2>1, WorkerSets
  <2>3. Len(messages') <= Cardinality(Takers')
    BY <2>2
  <2> QED BY <2>3 DEF WorkersAwake
<1> QED BY <1>3, <1>4, <1>5

(* take: a place for which Main is woken, if it waits. *)
LEMMA TakeStep ==
    ASSUME QueueAssumption, BlockingInv, NEW t \in W, Queue!Take(t)
    PROVE  BlockingInv'
<1> USE DEF BlockingInv
<1>0. /\ Queue!TypeOK /\ Places /\ Starting /\ LatchInv /\ WorkersAwake /\ MainAwake
      /\ pc[t] = "take" /\ waitsOn[t] = "none" /\ messages # <<>> /\ t # Queue!Main /\ t \in Queue!Threads
      /\ messages' = Tail(messages)
      /\ Queue!Notify("notFull")
      /\ pc' = [pc EXCEPT ![t] = IF Head(messages) = Queue!Stop THEN "done" ELSE "take"]
      /\ UNCHANGED <<capacity, k, count, tid>>
  BY ThreadFacts DEF Queue!Take, Queue!At
<1>1. /\ pc'[t] \in {"take", "done"} /\ pc'[Queue!Main] = pc[Queue!Main]
      /\ \A u \in W : u # t => pc'[u] = pc[u]
  BY <1>0, ThreadFacts DEF Queue!TypeOK
<1>2. messages' \in Seq(0..Messages) /\ Len(messages') = Len(messages) - 1 /\ Len(messages) \in Nat
  BY <1>0 DEF Queue!TypeOK
<1>3. /\ waitsOn' \in [Queue!Threads -> Queue!Conditions]
      /\ waitsOn'[Queue!Main] \in {"none", waitsOn[Queue!Main]} /\ waitsOn'[Queue!Main] # "notFull"
      /\ \A u \in W : waitsOn'[u] = waitsOn[u]
  BY <1>0, NotifyPutter, ThreadFacts DEF Queue!TypeOK, Queue!Conditions
<1>4. Queue!TypeOK'
  BY <1>0, <1>2, <1>3 DEF Queue!TypeOK
<1>5. Places'
  BY <1>0, <1>1, <1>3 DEF Places
<1>6. Starting'
  <2>1. tid' = {u \in W : pc'[u] \notin {"none", "run"}}
    BY <1>0, <1>1 DEF Starting
  <2>2. \A u \in W : count'[u] = IF pc'[u] \in {"none", "run"} THEN 1 ELSE 0
    BY <1>0, <1>1 DEF Starting
  <2>3. pc[Queue!Main] = "start" => k \in W /\ pc'[k] # "none"
    BY <1>0, <1>1 DEF Starting
  <2>4. pc[Queue!Main] = "create" => \A u \in W : u >= k => pc'[u] = "none"
    BY <1>0, <1>1 DEF Starting
  <2>5. pc[Queue!Main] = "start" => \A u \in W : u > k => pc'[u] = "none"
    BY <1>0, <1>1 DEF Starting
  <2> QED BY <1>0, <1>1, <2>1, <2>2, <2>3, <2>4, <2>5 DEF Starting
<1>7. LatchInv'
  <2>1. Uncounted' = Uncounted
    BY <1>0, <1>1 DEF Uncounted
  <2> QED BY <1>0, <1>1, <2>1 DEF LatchInv
<1>8. MainAwake'
  BY <1>0, <1>3 DEF MainAwake
<1>9. WorkersAwake'
  <2> SUFFICES ASSUME NEW u \in W, waitsOn[u] = "notEmpty"
               PROVE  Len(messages') <= Cardinality(Takers')
    BY <1>3 DEF WorkersAwake
  <2>1. Len(messages) <= Cardinality(Takers)
    BY <1>0 DEF WorkersAwake
  <2>2. t \in Takers /\ Takers \in SUBSET W /\ Takers' \in SUBSET W
    BY <1>0 DEF Takers, Queue!At
  <2>3. Takers \ {t} \subseteq Takers' /\ Takers \ {t} \in SUBSET W
    BY <1>1, <1>3, <2>2 DEF Takers, Queue!At
  <2>4. /\ Cardinality(Takers) \in Nat /\ Cardinality(Takers') \in Nat
        /\ Cardinality(Takers \ {t}) = Cardinality(Takers) - 1
        /\ Cardinality(Takers \ {t}) <= Cardinality(Takers')
    BY <2>2, <2>3, WorkerSets, WorkerLost
  <2> QED BY <1>2, <2>1, <2>4
<1> QED BY <1>4, <1>5, <1>6, <1>7, <1>8, <1>9

(* Thread::join. *)
LEMMA JoinStep ==
    ASSUME QueueAssumption PROVE BlockingInv /\ Queue!Join => BlockingInv'
<1> SUFFICES ASSUME BlockingInv, Queue!Join PROVE BlockingInv'
  OBVIOUS
<1> USE DEF BlockingInv
<1>0. /\ Queue!TypeOK /\ Places /\ Starting /\ LatchInv /\ WorkersAwake /\ MainAwake
      /\ pc[Queue!Main] = "join" /\ waitsOn[Queue!Main] = "none" /\ k \in W
      /\ UNCHANGED <<capacity, messages, count, tid, waitsOn>>
  BY DEF Queue!Join, Queue!At, Starting
<1>1. /\ pc'[Queue!Main] \in {"join", "done"} /\ \A t \in W : pc'[t] = pc[t]
      /\ pc' \in [Queue!Threads -> {"none", "create", "start", "latch", "put", "join",
                              "run", "count", "take", "done"}]
      /\ k' \in W
  <2>1. CASE k < Consumers
    BY <1>0, <2>1, ThreadFacts DEF Queue!Join, Queue!TypeOK, W
  <2>2. CASE ~(k < Consumers)
    BY <1>0, <2>2, ThreadFacts DEF Queue!Join, Queue!TypeOK
  <2> QED BY <2>1, <2>2
<1>2. Queue!TypeOK'
  <2>1. k' \in 1..Messages + Consumers + 1
    BY <1>1, ThreadFacts DEF W
  <2> QED BY <1>0, <1>1, <2>1 DEF Queue!TypeOK
<1>3. Places'
  BY <1>0, <1>1 DEF Places
<1>4. Uncounted' = Uncounted /\ Uncounted = {} /\ Takers' = Takers
  BY <1>0, <1>1 DEF Uncounted, Takers, Queue!At, LatchInv
<1>5. Starting'
  <2>1. \A t \in W : pc[t] \notin {"none", "run"}
    BY <1>4 DEF Uncounted
  <2> QED BY <1>0, <1>1, <2>1 DEF Starting
<1>6. LatchInv' /\ MainAwake'
  BY <1>0, <1>4 DEF LatchInv, MainAwake
<1> QED BY <1>0, <1>2, <1>3, <1>4, <1>5, <1>6, StillAwake

(* A wait returns although nobody notified. *)
LEMMA SpuriousStep ==
    ASSUME QueueAssumption, BlockingInv, NEW t \in Queue!Threads, Queue!SpuriousWakeup(t)
    PROVE  BlockingInv'
<1> USE DEF BlockingInv
<1>1. /\ Queue!TypeOK /\ Places /\ Starting /\ LatchInv /\ WorkersAwake /\ MainAwake
      /\ waitsOn' = [waitsOn EXCEPT ![t] = "none"]
      /\ UNCHANGED <<capacity, messages, pc, k, count, tid>>
  BY DEF Queue!SpuriousWakeup, Queue!WaitOn
<1>2. \A u \in Queue!Threads : waitsOn'[u] \in {"none", waitsOn[u]}
  BY <1>1 DEF Queue!TypeOK
<1>3. Queue!TypeOK' /\ Places'
  BY <1>1, <1>2, ThreadFacts DEF Queue!TypeOK, Places, Queue!Conditions
<1>4. Starting' /\ LatchInv' /\ MainAwake'
  BY <1>1, <1>2, ThreadFacts DEF Starting, LatchInv, MainAwake, Uncounted
<1>5. /\ Takers \subseteq Takers'
      /\ \A u \in W : waitsOn'[u] = "notEmpty" => waitsOn[u] = "notEmpty"
  BY <1>1, <1>2, ThreadFacts DEF Takers, Queue!At
<1> QED BY <1>1, <1>3, <1>4, <1>5, StillAwake

-----------------------------------------------------------------------------
(* The invariant holds at first. *)
LEMMA BlockingInit ==
    ASSUME QueueAssumption PROVE Queue!Init => BlockingInv
<1> SUFFICES ASSUME Queue!Init PROVE BlockingInv
  OBVIOUS
<1>0. /\ pc \in [Queue!Threads -> {"none", "create", "start", "latch", "put", "join",
                             "run", "count", "take", "done"}]
      /\ pc[Queue!Main] = "create" /\ \A t \in W : pc[t] = "none"
      /\ waitsOn \in [Queue!Threads -> Queue!Conditions] /\ \A t \in Queue!Threads : waitsOn[t] = "none"
      /\ count \in [Queue!Latches -> 0..Consumers]
      /\ count[Queue!Main] = Consumers /\ \A t \in W : count[t] = 1
      /\ k = 1 /\ tid = {} /\ messages = <<>> /\ capacity \in Capacities
  BY ThreadFacts DEF Queue!Init, Queue!Latches, Queue!Conditions
<1>1. Queue!TypeOK
  <2>1. k \in 1..Messages + Consumers + 1
    BY <1>0, ThreadFacts
  <2> QED BY <1>0, <2>1 DEF Queue!TypeOK
<1>2. Places
  BY <1>0, ThreadFacts DEF Places
<1>3. Starting
  <2>1. \A t \in W : t >= k
    BY <1>0, ThreadFacts DEF W
  <2> QED BY <1>0, <2>1, ThreadFacts DEF Starting
<1>4. LatchInv
  <2>1. Uncounted = 1..Consumers
    BY <1>0 DEF Uncounted, W
  <2>2. Cardinality(1..Consumers) = Consumers
    BY ThreadFacts, FS_Interval
  <2> QED BY <1>0, <2>1, <2>2 DEF LatchInv
<1>5. WorkersAwake /\ MainAwake
  BY <1>0, ThreadFacts DEF WorkersAwake, MainAwake
<1> QED BY <1>1, <1>2, <1>3, <1>4, <1>5 DEF BlockingInv

(* Every step keeps it. *)
LEMMA BlockingStep ==
    ASSUME QueueAssumption PROVE BlockingInv /\ [Queue!Next]_(Queue!vars) => BlockingInv'
<1> SUFFICES ASSUME BlockingInv, [Queue!Next]_(Queue!vars) PROVE BlockingInv'
  OBVIOUS
<1>1. CASE Queue!MainStep
  BY <1>1, CreateStep, StartedStep, AllStartedStep, PutWaitsStep, PutStep, JoinStep DEF Queue!MainStep
<1>2. ASSUME NEW t \in 1..Consumers, Queue!WorkerStep(t) PROVE BlockingInv'
  BY <1>2, RunStep, CountStep, TakeWaitsStep, TakeStep DEF Queue!WorkerStep, W
<1>3. ASSUME NEW t \in Queue!Threads, Queue!SpuriousWakeup(t) PROVE BlockingInv'
  BY <1>3, SpuriousStep
<1>4. CASE UNCHANGED Queue!vars
  BY <1>4 DEF Queue!vars, BlockingInv, Queue!TypeOK, Places, Starting, LatchInv, Uncounted,
              WorkersAwake, MainAwake, Takers, Queue!At
<1> QED BY <1>1, <1>2, <1>3, <1>4 DEF Queue!Next

(* The inductive invariant: the latches count the threads they wait for,    *)
(* and for each message in the queue there is a worker awake.               *)
THEOREM QueueInvariance ==
    ASSUME QueueAssumption PROVE Queue!Spec => []BlockingInv
BY BlockingInit, BlockingStep, PTL DEF Queue!Spec

(* No worker sleeps through a message, Main not through a free place or the *)
(* last count of a latch; every thread has its id before its starter goes   *)
(* on, and messages are put when all workers run (BlockingQueue.h:36-63,    *)
(* BoundedBlockingQueue.h:33-69, CountDownLatch.cc:21-40, Thread.cc:189-210). *)
THEOREM QueueHandsOver ==
    ASSUME QueueAssumption PROVE Queue!Spec => []Queue!QueueInv
<1>1. BlockingInv => Queue!TypeOK
  BY DEF BlockingInv
<1>2. BlockingInv => Queue!NobodyOversleeps
  BY SameCardinality DEF BlockingInv, WorkersAwake, MainAwake, Queue!NobodyOversleeps, Takers, W
<1>3. BlockingInv => Queue!PutAfterStart
  <2> SUFFICES ASSUME BlockingInv PROVE Queue!PutAfterStart
    OBVIOUS
  <2> USE DEF BlockingInv
  <2>1. ASSUME pc[Queue!Main] = "create" PROVE tid = 1..k - 1
    <3>1. k \in W
      BY <2>1 DEF Starting
    <3>2. tid = {t \in W : ~(t >= k)}
      BY <2>1 DEF Starting
    <3>3. {t \in W : ~(t >= k)} = 1..k - 1
      BY <3>1, ThreadFacts DEF W
    <3> QED BY <3>2, <3>3
  <2>2. ASSUME pc[Queue!Main] \in {"put", "join", "done"}, NEW t \in W
        PROVE  pc[t] \in {"take", "done"}
    BY <2>2 DEF LatchInv, Uncounted, Places
  <2> QED BY <2>1, <2>2 DEF Queue!PutAfterStart, W
<1>4. BlockingInv => Queue!QueueInv
  BY <1>1, <1>2, <1>3 DEF Queue!QueueInv
<1> QED BY <1>4, QueueInvariance, PTL
=============================================================================
