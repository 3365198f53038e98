---------------------------- MODULE BlockingQueue ----------------------------
(***************************************************************************)
(* src/src/base: Thread, CountDownLatch and the blocking queues, put       *)
(* together as src/src/base/tests/BlockingQueue_unittest.cc and            *)
(* BoundedBlockingQueue_unittest.cc do: Main starts the workers, waits on  *)
(* a latch until they all run, puts messages and then one stop for each    *)
(* worker into the queue, and joins them.                                  *)
(*                                                                         *)
(* What a thread does under a mutex is one step.  A thread that waits on a *)
(* condition makes no step until it is notified or wakes spuriously, and   *)
(* then tests its loop's condition again.                                  *)
(***************************************************************************)
EXTENDS Naturals, Sequences, FiniteSets

CONSTANTS
    Workers,    \* how many threads Main starts
    Messages,   \* how many messages it puts
    Capacities  \* what the queue may hold; BlockingQueue has no such limit

ASSUME WorkersAssumption == Workers \in Nat \ {0} /\ Messages \in Nat
ASSUME CapacitiesAssumption == Capacities \subseteq Nat \ {0}

Main == 0
Threads == 0..Workers
Stop == 0

(* The latch of each worker's Thread, and that of the test, which is Main's. *)
Latches == Threads
Conditions == {"none", "notEmpty", "notFull", "all", "started"}

VARIABLES
    capacity,
    queue,
    pc,         \* Main: "create", "start", "latch", "put", "join", "done";
                \* a worker: "none", "run", "count", "take", "done"
    k,          \* the worker or message Main is at
    count,      \* count_ of each latch
    tid,        \* the threads whose tid_ is set
    waitsOn     \* the condition a thread waits on

vars == <<capacity, queue, pc, k, count, tid, waitsOn>>

TypeOK ==
    /\ capacity \in Capacities
    /\ queue \in Seq(0..Messages)
    /\ pc \in [Threads -> {"none", "create", "start", "latch", "put", "join",
                           "run", "count", "take", "done"}]
    /\ k \in 1..Messages + Workers + 1
    /\ count \in [Latches -> 0..Workers]
    /\ tid \subseteq Threads
    /\ waitsOn \in [Threads -> Conditions]

Init ==
    /\ capacity \in Capacities
    /\ queue = <<>>
    /\ pc = [t \in Threads |-> IF t = Main THEN "create" ELSE "none"]
    /\ k = 1
    /\ count = [l \in Latches |-> IF l = Main THEN Workers ELSE 1]
    /\ tid = {}
    /\ waitsOn = [t \in Threads |-> "none"]

-----------------------------------------------------------------------------
(* Condition: wait, notify, and notifyAll of waiters.                       *)
WaitOn(t, c) == waitsOn' = [waitsOn EXCEPT ![t] = c]

Notify(c) ==
    IF \E t \in Threads : waitsOn[t] = c
      THEN \E t \in Threads : waitsOn[t] = c /\ WaitOn(t, "none")
      ELSE UNCHANGED waitsOn

NotifyAll(c) ==
    waitsOn' = [t \in Threads |-> IF waitsOn[t] = c THEN "none" ELSE waitsOn[t]]

SpuriousWakeup(t) ==
    /\ waitsOn[t] # "none"
    /\ WaitOn(t, "none")
    /\ UNCHANGED <<capacity, queue, pc, k, count, tid>>

At(t, place) == pc[t] = place /\ waitsOn[t] = "none"

(* CountDownLatch: Main waits, before it goes on to next.                   *)
LatchWait(l, c, next) ==
    IF count[l] > 0 THEN WaitOn(Main, c) /\ UNCHANGED pc
                    ELSE pc' = [pc EXCEPT ![Main] = next] /\ UNCHANGED waitsOn

(* Mutant: only the first count is told. *)
NotifyEarly(l, c) ==
    /\ count' = [count EXCEPT ![l] = @ - 1]
    /\ IF count'[l] = 1 THEN NotifyAll(c) ELSE UNCHANGED waitsOn

CountDown(l, c) ==
    /\ count' = [count EXCEPT ![l] = @ - 1]
    /\ IF count'[l] = 0 THEN NotifyAll(c) ELSE UNCHANGED waitsOn

-----------------------------------------------------------------------------
(* Thread::start of worker k, up to pthread_create, and its wait.           *)
Create ==
    /\ At(Main, "create")
    /\ pc' = [pc EXCEPT ![Main] = "start", ![k] = "run"]
    /\ UNCHANGED <<capacity, queue, k, count, tid, waitsOn>>

Started ==
    /\ At(Main, "start")
    /\ LatchWait(k, "started", IF k < Workers THEN "create" ELSE "latch")
    /\ k' = IF pc' = pc THEN k ELSE IF k < Workers THEN k + 1 ELSE 1
    /\ UNCHANGED <<capacity, queue, count, tid>>

(* runInThread up to func_: the starter learns the thread's id.             *)
RunInThread(t) ==
    /\ At(t, "run")
    /\ tid' = tid \union {t}
    /\ CountDown(t, "started")
    /\ pc' = [pc EXCEPT ![t] = "count"]
    /\ UNCHANGED <<capacity, queue, k>>

(* The worker's latch_.countDown(), and Main's latch_.wait(). *)
CountSelf(t) ==
    /\ At(t, "count")
    /\ CountDown(Main, "all")
    /\ pc' = [pc EXCEPT ![t] = "take"]
    /\ UNCHANGED <<capacity, queue, k, tid>>

AllStarted ==
    /\ At(Main, "latch")
    /\ LatchWait(Main, "all", "put")
    /\ UNCHANGED <<capacity, queue, k, count, tid>>

(* Mutant: only the first message in the queue is told of. *)
TellFirst == IF queue = <<>> THEN Notify("notEmpty") ELSE UNCHANGED waitsOn

(* put: one taker is notified for each message. *)
TellTaker == Notify("notEmpty")

PutWaits ==
    /\ At(Main, "put")
    /\ Len(queue) = capacity
    /\ WaitOn(Main, "notFull")
    /\ UNCHANGED <<capacity, queue, pc, k, count, tid>>

Put ==
    /\ At(Main, "put")
    /\ Len(queue) < capacity
    /\ queue' = Append(queue, IF k <= Messages THEN k ELSE Stop)
    /\ TellTaker
    /\ IF k < Messages + Workers THEN k' = k + 1 /\ UNCHANGED pc
         ELSE k' = 1 /\ pc' = [pc EXCEPT ![Main] = "join"]
    /\ UNCHANGED <<capacity, count, tid>>

(* take; a stop ends the worker's loop and its thread. *)
TakeWaits(t) ==
    /\ At(t, "take")
    /\ queue = <<>>
    /\ WaitOn(t, "notEmpty")
    /\ UNCHANGED <<capacity, queue, pc, k, count, tid>>

Take(t) ==
    /\ At(t, "take")
    /\ queue # <<>>
    /\ queue' = Tail(queue)
    /\ Notify("notFull")
    /\ pc' = [pc EXCEPT ![t] = IF Head(queue) = Stop THEN "done" ELSE "take"]
    /\ UNCHANGED <<capacity, k, count, tid>>

(* Thread::join. *)
Join ==
    /\ At(Main, "join")
    /\ pc[k] = "done"
    /\ IF k < Workers THEN k' = k + 1 /\ UNCHANGED pc
         ELSE UNCHANGED k /\ pc' = [pc EXCEPT ![Main] = "done"]
    /\ UNCHANGED <<capacity, queue, count, tid, waitsOn>>

MainStep == Create \/ Started \/ AllStarted \/ PutWaits \/ Put \/ Join
WorkerStep(t) ==
    RunInThread(t) \/ CountSelf(t) \/ TakeWaits(t) \/ Take(t)

Next ==
    \/ MainStep
    \/ \E t \in 1..Workers : WorkerStep(t)
    \/ \E t \in Threads : SpuriousWakeup(t)

Spec == Init /\ [][Next]_vars

(* The threads run; nothing is said of spurious wakeups.                    *)
FairSpec == Spec /\ WF_vars(MainStep) /\ \A t \in 1..Workers : WF_vars(WorkerStep(t))

-----------------------------------------------------------------------------
(* No worker sleeps through a message: while one waits there are others     *)
(* about to take for each message in the queue (BlockingQueue.h:36-63,      *)
(* BoundedBlockingQueue.h:33-69); and Main only waits for a full queue, a   *)
(* latch that is not down.                                                  *)
NobodyOversleeps ==
    /\ (\E t \in 1..Workers : waitsOn[t] = "notEmpty") =>
          Len(queue) <= Cardinality({t \in 1..Workers : At(t, "take")})
    /\ waitsOn[Main] = "notFull" => Len(queue) = capacity
    /\ waitsOn[Main] = "all" => count[Main] > 0
    /\ waitsOn[Main] = "started" => count[k] > 0

(* The assertion of Thread::start (Thread.cc:208), and what the test's      *)
(* latch is for: messages are put when every worker is running.             *)
PutAfterStart ==
    /\ pc[Main] = "create" => tid = 1..k - 1
    /\ pc[Main] \in {"put", "join", "done"} =>
          \A t \in 1..Workers : pc[t] \in {"take", "done"}

(* What the workers and Main rely on to hand over messages.                 *)
QueueInv == TypeOK /\ NobodyOversleeps /\ PutAfterStart

(* The program ends: no thread waits for another for ever, and the stops    *)
(* that are put reach every worker once.                                    *)
ProgramEnds == <>(\A t \in Threads : pc[t] = "done")

=============================================================================
