------------------------------ MODULE ThreadPool ------------------------------
(***************************************************************************)
(* src/src/base/ThreadPool.{h,cc}: a fixed set of worker threads takes     *)
(* tasks from a queue that may be bounded.  Every section under mutex_ is  *)
(* one step; a thread in Condition::wait is "waiting" until a notification *)
(* (or a spurious wakeup) makes it "woken", and then runs its while test   *)
(* anew when it gets the mutex.  The pool has been started.                *)
(***************************************************************************)
EXTENDS Naturals, Sequences, FiniteSets

CONSTANTS
    Producers,  \* threads that call run
    Workers,    \* the threads of the pool, at least one
    Tasks,      \* each submitted at most once
    NoTask,
    MaxQueue    \* maxQueueSize_, 0 when the queue is unbounded

ASSUME WorkersAssumption == IsFiniteSet(Workers) /\ Workers # {}
ASSUME ProducersAssumption == IsFiniteSet(Producers)
ASSUME TasksAssumption == NoTask \notin Tasks
ASSUME MaxQueueAssumption == MaxQueue \in Nat

VARIABLES
    queue,      \* queue_
    running,    \* running_
    producer,   \* per producer: "idle", or "waiting" or "woken" inside run
    offered,    \* per producer: the task it is in run with, or NoTask
    worker,     \* per worker: "check" (while (running_)), "take", "waiting",
                \* "woken", "task" (in a task), "done"
    doing,      \* per worker: the task it runs, or NoTask
    stopped,    \* stop() has joined every worker
    submitted,  \* history: the tasks queued, in order
    started     \* history: the tasks taken, in order

vars == <<queue, running, producer, offered, worker, doing, stopped, submitted,
          started>>

TypeOK ==
    /\ queue \in Seq(Tasks)
    /\ running \in BOOLEAN
    /\ producer \in [Producers -> {"idle", "waiting", "woken"}]
    /\ offered \in [Producers -> Tasks \union {NoTask}]
    /\ worker \in [Workers -> {"check", "take", "waiting", "woken", "task", "done"}]
    /\ doing \in [Workers -> Tasks \union {NoTask}]
    /\ stopped \in BOOLEAN
    /\ submitted \in Seq(Tasks)
    /\ started \in Seq(Tasks)

Init ==
    /\ queue = <<>>
    /\ running = TRUE
    /\ producer = [p \in Producers |-> "idle"]
    /\ offered = [p \in Producers |-> NoTask]
    /\ worker = [w \in Workers |-> "check"]
    /\ doing = [w \in Workers |-> NoTask]
    /\ stopped = FALSE
    /\ submitted = <<>>
    /\ started = <<>>

-----------------------------------------------------------------------------
At(state, where) == {t \in DOMAIN state : state[t] = where}

isFull == MaxQueue > 0 /\ Len(queue) >= MaxQueue

(* Condition::notify on a condition whose waiters are those of state. *)
Notify(state, next) ==
    IF At(state, "waiting") = {}
      THEN next = state
      ELSE \E t \in At(state, "waiting") : next = [state EXCEPT ![t] = "woken"]

-----------------------------------------------------------------------------
(* run *)

Fresh(t) ==
    /\ \A i \in DOMAIN submitted : submitted[i] # t
    /\ \A p \in Producers : offered[p] # t

(* Mutant: the task is queued without a notification. *)
RunSilent(p, t) ==
    /\ producer[p] = "idle"
    /\ Fresh(t)
    /\ IF isFull
         THEN /\ producer' = [producer EXCEPT ![p] = "waiting"]
              /\ offered' = [offered EXCEPT ![p] = t]
              /\ UNCHANGED <<queue, submitted>>
         ELSE /\ queue' = Append(queue, t)
              /\ submitted' = Append(submitted, t)
              /\ UNCHANGED <<producer, offered>>
    /\ UNCHANGED <<running, worker, doing, stopped, started>>

(* run is called and its first test made: the task is queued and a worker   *)
(* notified, or the producer waits for room.                                *)
Run(p, t) ==
    /\ producer[p] = "idle"
    /\ Fresh(t)
    /\ IF isFull
         THEN /\ producer' = [producer EXCEPT ![p] = "waiting"]
              /\ offered' = [offered EXCEPT ![p] = t]
              /\ UNCHANGED <<queue, submitted, worker>>
         ELSE /\ queue' = Append(queue, t)
              /\ submitted' = Append(submitted, t)
              /\ Notify(worker, worker')
              /\ UNCHANGED <<producer, offered>>
    /\ UNCHANGED <<running, doing, stopped, started>>

(* Mutant: "if" in place of "while" around the wait. *)
RunAgainUntested(p) ==
    /\ producer[p] = "woken"
    /\ producer' = [producer EXCEPT ![p] = "idle"]
    /\ queue' = Append(queue, offered[p])
    /\ submitted' = Append(submitted, offered[p])
    /\ offered' = [offered EXCEPT ![p] = NoTask]
    /\ Notify(worker, worker')
    /\ UNCHANGED <<running, doing, stopped, started>>

(* A producer woken from its wait tests again. *)
RunAgain(p) ==
    /\ producer[p] = "woken"
    /\ IF isFull
         THEN /\ producer' = [producer EXCEPT ![p] = "waiting"]
              /\ UNCHANGED <<queue, submitted, worker, offered>>
         ELSE /\ producer' = [producer EXCEPT ![p] = "idle"]
              /\ queue' = Append(queue, offered[p])
              /\ submitted' = Append(submitted, offered[p])
              /\ offered' = [offered EXCEPT ![p] = NoTask]
              /\ Notify(worker, worker')
    /\ UNCHANGED <<running, doing, stopped, started>>

-----------------------------------------------------------------------------
(* runInThread *)

Check(w) ==
    /\ worker[w] = "check"
    /\ worker' = [worker EXCEPT ![w] = IF running THEN "take" ELSE "done"]
    /\ UNCHANGED <<queue, running, producer, offered, doing, stopped, submitted,
                   started>>

(* take with a task in the queue, running or not; a producer is notified. *)
Take(w) ==
    /\ worker[w] \in {"take", "woken"}
    /\ queue # <<>>
    /\ doing' = [doing EXCEPT ![w] = Head(queue)]
    /\ started' = Append(started, Head(queue))
    /\ queue' = Tail(queue)
    /\ worker' = [worker EXCEPT ![w] = "task"]
    /\ IF MaxQueue > 0 THEN Notify(producer, producer') ELSE UNCHANGED producer
    /\ UNCHANGED <<running, offered, stopped, submitted>>

(* take with an empty queue: the worker waits, or returns with no task when *)
(* the pool no longer runs.                                                 *)
TakeNothing(w) ==
    /\ worker[w] \in {"take", "woken"}
    /\ queue = <<>>
    /\ worker' = [worker EXCEPT ![w] = IF running THEN "waiting" ELSE "check"]
    /\ UNCHANGED <<queue, running, producer, offered, doing, stopped, submitted,
                   started>>

TaskReturn(w) ==
    /\ worker[w] = "task"
    /\ doing' = [doing EXCEPT ![w] = NoTask]
    /\ worker' = [worker EXCEPT ![w] = "check"]
    /\ UNCHANGED <<queue, running, producer, offered, stopped, submitted,
                   started>>

-----------------------------------------------------------------------------
(* Mutant: stop does not notify the workers. *)
StopSilent ==
    /\ running
    /\ running' = FALSE
    /\ UNCHANGED <<queue, producer, offered, worker, doing, stopped, submitted,
                   started>>

(* stop up to the joins: every waiting worker is notified, *)
Stop ==
    /\ running
    /\ running' = FALSE
    /\ worker' = [w \in Workers |-> IF worker[w] = "waiting" THEN "woken"
                                                             ELSE worker[w]]
    /\ UNCHANGED <<queue, producer, offered, doing, stopped, submitted, started>>

(* and the joins. *)
Join ==
    /\ ~running
    /\ ~stopped
    /\ At(worker, "done") = Workers
    /\ stopped' = TRUE
    /\ UNCHANGED <<queue, running, producer, offered, worker, doing, submitted,
                   started>>

(* pthread_cond_wait may return without a notification. *)
SpuriousWakeup ==
    /\ \/ \E w \in At(worker, "waiting") :
            worker' = [worker EXCEPT ![w] = "woken"] /\ UNCHANGED producer
       \/ \E p \in At(producer, "waiting") :
            producer' = [producer EXCEPT ![p] = "woken"] /\ UNCHANGED worker
    /\ UNCHANGED <<queue, running, offered, doing, stopped, submitted, started>>

-----------------------------------------------------------------------------
WorkerStep(w) == Check(w) \/ Take(w) \/ TakeNothing(w) \/ TaskReturn(w)

Next ==
    \/ \E p \in Producers : RunAgain(p) \/ \E t \in Tasks : Run(p, t)
    \/ \E w \in Workers : WorkerStep(w)
    \/ Stop
    \/ Join
    \/ SpuriousWakeup

Spec == Init /\ [][Next]_vars

(* Every thread that can run does; tasks return.  Nothing is assumed of     *)
(* spurious wakeups, or of which of several waiters a notification picks.   *)
FairSpec ==
    /\ Spec
    /\ \A w \in Workers : WF_vars(WorkerStep(w))
    /\ \A p \in Producers : WF_vars(RunAgain(p))
    /\ WF_vars(Join)

-----------------------------------------------------------------------------
(* Tasks start in the order they were queued, each once                     *)
(* (ThreadPool.cc:99, 117-118).                                             *)
StartedInOrder == submitted = started \o queue

(* The queue keeps its bound though many producers may pass the test of     *)
(* isFull after a wait (ThreadPool.cc:92-99).                               *)
QueueBounded == MaxQueue > 0 => Len(queue) <= MaxQueue

(* Both.                                                                    *)
QueueKept == StartedInOrder /\ QueueBounded

(* Workers on their way to the test for a task. *)
Awake == {w \in Workers : worker[w] \in {"check", "take", "woken"}}

(* While a worker sleeps there are as many workers awake and free as tasks  *)
(* queued: no notification is lost or wasted (ThreadPool.cc:101, 110-113).  *)
NoSleepingWorker == At(worker, "waiting") # {} => Len(queue) <= Cardinality(Awake)

(* While a producer sleeps every free place in the queue has a woken        *)
(* producer coming for it (ThreadPool.cc:92-96, 119-123).                   *)
NoSleepingProducer ==
    At(producer, "waiting") # {}
        => MaxQueue <= Len(queue) + Cardinality(At(producer, "woken"))

(* Nobody sleeps while there is something for him to do.                    *)
NobodyOversleeps == NoSleepingWorker /\ NoSleepingProducer

(* stop() returns: each worker leaves its loop (ThreadPool.cc:58-71). *)
StopReturns == ~running ~> stopped

=============================================================================
