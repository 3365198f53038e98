--------------------------- MODULE EventLoopThread ---------------------------
(***************************************************************************)
(* src/src/net/EventLoopThread.{h,cc}: a thread that runs an EventLoop,    *)
(* started by startLoop and ended by the destructor.  The object is used   *)
(* by Owner; the loop thread of EventLoop runs threadFunc, and the         *)
(* EventLoop is a variable on its stack.                                   *)
(***************************************************************************)
EXTENDS EventLoop

CONSTANT Owner  \* the thread that creates, starts and destroys the object

ASSUME OwnerAssumption == Owner \in Threads

VARIABLES
    owner,      \* where Owner is: "new"; in startLoop "testing" before it
                \* tests loop_, "waiting" in the wait set of cond_, "woken"
                \* out of it; "started"; "quitting" and "joining" in the
                \* destructor; "gone"
    worker,     \* where the thread is: "none", "init" before loop_ is set,
                \* "enter" before loop(), "looping", "clearing" with the
                \* mutex held after loop_ = nullptr, "dead"
    loopSet,    \* loop_ is not null
    otherQuit   \* history: quit() has been called other than by the destructor

threadVars == <<owner, worker, loopSet, otherQuit>>

OwnerTypeOK ==
    /\ TypeOK
    /\ owner \in {"new", "testing", "waiting", "woken", "started", "quitting",
                 "joining", "gone"}
    /\ worker \in {"none", "init", "enter", "looping", "clearing", "dead"}
    /\ loopSet \in BOOLEAN
    /\ otherQuit \in BOOLEAN

ThreadInit ==
    /\ Init
    /\ owner = "new"
    /\ worker = "none"
    /\ loopSet = FALSE
    /\ otherQuit = FALSE

-----------------------------------------------------------------------------
(* threadFunc.                                                              *)

(* callback_, which may queue functors before the loop runs. *)
InitCallback ==
    /\ worker = "init"
    /\ \E f \in Functors : QueueInLoop(LoopThread, f)
    /\ UNCHANGED threadVars

(* cond_.notify(): a thread in the wait set leaves it; with nobody there    *)
(* the notification is gone.                                                *)
Notify == owner' = IF owner = "waiting" THEN "woken" ELSE owner

(* Mutant: threadFunc does not notify. *)
PublishSilently ==
    /\ worker = "init"
    /\ loopSet' = TRUE
    /\ worker' = "enter"
    /\ UNCHANGED <<vars, owner, otherQuit>>

(* loop_ = &loop and the notification, under the mutex. *)
Publish ==
    /\ worker = "init"
    /\ loopSet' = TRUE
    /\ worker' = "enter"
    /\ Notify
    /\ UNCHANGED <<vars, otherQuit>>

EnterLoop ==
    /\ worker = "enter"
    /\ Start
    /\ worker' = "looping"
    /\ UNCHANGED <<owner, loopSet, otherQuit>>

(* loop(), with what its callbacks and functors call. *)
InLoop ==
    /\ worker = "looping"
    /\ looping
    /\ \/ Iterate
       \/ PollReady
       \/ PollTimeout
       \/ \E f \in Functors : QueueInLoop(LoopThread, f)
       \/ Wakeup(LoopThread)
    /\ UNCHANGED threadVars

(* A callback or functor calls quit(). *)
QuitInLoop ==
    /\ worker = "looping"
    /\ looping
    /\ Quit(LoopThread)
    /\ otherQuit' = TRUE
    /\ UNCHANGED <<owner, worker, loopSet>>

(* loop() has returned: loop_ = nullptr, under the mutex, *)
ClearLoop ==
    /\ worker = "looping"
    /\ ~looping
    /\ loopSet' = FALSE
    /\ worker' = "clearing"
    /\ UNCHANGED <<vars, owner, otherQuit>>

(* which is released before the EventLoop is destroyed. *)
ThreadExit ==
    /\ worker = "clearing"
    /\ worker' = "dead"
    /\ UNCHANGED <<vars, owner, loopSet, otherQuit>>

-----------------------------------------------------------------------------
(* The owner.                                                               *)

(* startLoop starts the thread.  It then tests loop_ with the mutex held, *)
StartLoop ==
    /\ owner = "new"
    /\ owner' = "testing"
    /\ worker' = "init"
    /\ UNCHANGED <<vars, loopSet, otherQuit>>

(* joins the wait set and lets go of the mutex in one step if it is null,   *)
StartLoopWait ==
    /\ owner \in {"testing", "woken"}
    /\ ~loopSet
    /\ owner' = "waiting"
    /\ UNCHANGED <<vars, worker, loopSet, otherQuit>>

(* may leave the wait set with no notification, as pthread_cond_wait does,  *)
SpuriousWakeup ==
    /\ owner = "waiting"
    /\ owner' = "woken"
    /\ UNCHANGED <<vars, worker, loopSet, otherQuit>>

(* Mutant: `if` instead of `while` around the wait. *)
ReturnUntested ==
    /\ owner = "woken" \/ (owner = "testing" /\ loopSet)
    /\ owner' = "started"
    /\ UNCHANGED <<vars, worker, loopSet, otherQuit>>

(* and returns loop_ when a test finds it set. *)
StartLoopReturn ==
    /\ owner \in {"testing", "woken"}
    /\ loopSet
    /\ owner' = "started"
    /\ UNCHANGED <<vars, worker, loopSet, otherQuit>>

(* The owner uses the loop it was given. *)
UseLoop ==
    /\ owner = "started"
    /\ worker # "dead"
    /\ \/ /\ \E f \in Functors : QueueInLoop(Owner, f)
          /\ UNCHANGED otherQuit
       \/ /\ Quit(Owner)
          /\ otherQuit' = TRUE
    /\ UNCHANGED <<owner, worker, loopSet>>

OwnerWakeup ==
    /\ Wakeup(Owner)
    /\ UNCHANGED threadVars

(* The destructor reads loop_, without the mutex, *)
ReadLoop ==
    /\ owner \in {"new", "started"}
    /\ caller[Owner] = "idle"
    /\ owner' = IF loopSet THEN "quitting" ELSE "gone"
    /\ UNCHANGED <<vars, worker, loopSet, otherQuit>>

(* Mutant: the destructor joins without quitting the loop. *)
DtorQuitNothing ==
    /\ owner = "quitting"
    /\ owner' = "joining"
    /\ UNCHANGED <<vars, worker, loopSet, otherQuit>>

(* calls quit() on it (on a destroyed one the write is undefined), *)
DtorQuit ==
    /\ owner = "quitting"
    /\ Quit(Owner)
    /\ owner' = "joining"
    /\ UNCHANGED <<worker, loopSet, otherQuit>>

(* and joins the thread. *)
Join ==
    /\ owner = "joining"
    /\ caller[Owner] = "idle"
    /\ worker = "dead"
    /\ owner' = "gone"
    /\ UNCHANGED <<vars, worker, loopSet, otherQuit>>

-----------------------------------------------------------------------------
ThreadFunc == Publish \/ EnterLoop \/ ClearLoop \/ ThreadExit

OwnerCode ==
    StartLoopWait \/ StartLoopReturn \/ OwnerWakeup \/ DtorQuit \/ Join

ThreadNext ==
    \/ ThreadFunc \/ InitCallback \/ InLoop \/ QuitInLoop
    \/ OwnerCode \/ StartLoop \/ SpuriousWakeup \/ UseLoop \/ ReadLoop

allVars == <<vars, threadVars>>

ThreadSpec == ThreadInit /\ [][ThreadNext]_allVars

(* Both threads run; the owner need not start the thread, use the loop or   *)
(* destroy the object, and nothing wakes it from the wait set but notify.   *)
ThreadFairSpec ==
    /\ ThreadSpec
    /\ WF_allVars(ThreadFunc)
    /\ WF_allVars(OwnerCode)
    /\ WF_allVars(Iterate /\ InLoop)
    /\ WF_allVars(PollReady /\ wakeups > 0 /\ InLoop)
    /\ WF_allVars(Wakeup(LoopThread) /\ InLoop)

-----------------------------------------------------------------------------
(* As long as nobody else ends the loop, the destructor touches it and the  *)
(* members while they exist: quit() is not called on a loop that left the   *)
(* stack of threadFunc, and the members outlive the thread that locks the   *)
(* mutex.  With a quit() of others the test of loop_ is not race-free, as   *)
(* the code says (EventLoopThread.cc:30-33, 70-71).                         *)
NoUseAfterDestroy ==
    otherQuit \/ /\ owner = "quitting" => worker # "dead"
                 /\ owner = "gone" => worker \in {"none", "dead"}

(* startLoop returns: a notification that comes before the wait is made up  *)
(* for by the test of loop_, one that comes after it wakes the owner, and   *)
(* one wakeup too many leads back to the wait (EventLoopThread.cc:49-52,    *)
(* 72-73).  A loop that ends before the owner looks leaves loop_ null and   *)
(* the owner waiting for ever, so a quit() of others is excepted.           *)
StartLoopReturns ==
    (owner \in {"testing", "waiting", "woken"}) ~>
        (owner = "started" \/ otherQuit)

(* Whoever reads loop_ and finds it set gets a loop that still exists       *)
(* (EventLoopThread.cc:70-72, 77-78).                                       *)
LoopPointerValid == loopSet => worker \in {"enter", "looping"}

(* What startLoop returns is a loop, published after the callback ran, and  *)
(* not the null it found before (EventLoopThread.cc:47-55).                 *)
StartedLoop == owner = "started" => worker \notin {"none", "init"}

(* Neither the thread nor its owner uses what the other has destroyed, or   *)
(* what it has not made yet.                                                *)
OwnerInv ==
    OwnerTypeOK /\ LoopPointerValid /\ StartedLoop /\ NoUseAfterDestroy

(* A destructor that finds the loop running ends it and the thread. *)
DtorEndsLoop == (owner = "quitting" /\ looping) ~> (owner = "gone")

(* EventLoopThread.cc:32-33: the destructor makes the IO thread leave its   *)
(* loop and waits for that; it therefore returns.                           *)
DtorReturns == (owner = "quitting") ~> (owner = "gone")

=============================================================================
