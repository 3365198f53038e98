------------------------------ MODULE EventLoop ------------------------------
(***************************************************************************)
(* src/src/net/EventLoop.{h,cc}: the reactor.  One thread, LoopThread,     *)
(* owns the object and alternates between epoll_wait, the callbacks of the *)
(* ready channels and the functors other threads (or its own callbacks)    *)
(* queued; every other thread may call queueInLoop and quit at any time.   *)
(*                                                                         *)
(* The mutex protects only the vector pendingFunctos_, so each critical    *)
(* section is one step; the eventfd write that follows a push, and the one *)
(* that follows quit_ = true, are steps of their own, since the loop may   *)
(* run between them.                                                       *)
(***************************************************************************)
EXTENDS Naturals, Sequences, Functions

CONSTANTS
    LoopThread,     \* the thread whose id is threadId_
    Threads,        \* the other threads
    Functors,       \* callbacks handed to queueInLoop
    NoFunctor,
    Channels,       \* channels other than wakeupChannel_ (sockets, the timerfd)
    WakeupChannel,
    NoChannel,
    EventfdMax      \* the largest value the eventfd's counter can hold

ASSUME ThreadAssumption == LoopThread \notin Threads
ASSUME FunctorAssumption == NoFunctor \notin Functors
ASSUME ChannelAssumption ==
    /\ WakeupChannel \notin Channels
    /\ NoChannel \notin Channels \union {WakeupChannel}
ASSUME EventfdAssumption == EventfdMax \in Nat \ {0}

VARIABLES
    loc,        \* where the loop thread is in loop()
    quit,       \* quit_
    wakeups,    \* the eventfd's counter
    pending,    \* pendingFunctos_
    calling,    \* callingPendingFunctos_
    batch,      \* doPendingFunctors' local vector, what is left of it
    running,    \* the functor the loop thread is in, or NoFunctor
    active,     \* activeChannels_, what is left of it
    current,    \* currentActiveChannel_, or NoChannel
    caller,     \* per thread: "wakeup" between a push (or quit_ = true) and
                \* the eventfd write it is followed by
    early       \* history: members of pending the loop thread queued while
                \* it was not in loop()

vars == <<loc, quit, wakeups, pending, calling, batch, running, active,
          current, caller, early>>

AllThreads == Threads \union {LoopThread}

(* "out": not in loop(); "check": at the test of quit_; "poll": in          *)
(* epoll_wait; "handle": walking activeChannels_; "swap": before            *)
(* doPendingFunctors; "run": in its loop over the swapped vector.           *)
Locations == {"out", "check", "poll", "handle", "swap", "run"}

(* looping_ *)
looping == loc # "out"

TypeOK ==
    /\ loc \in Locations
    /\ quit \in BOOLEAN
    /\ wakeups \in 0..EventfdMax
    /\ pending \in Seq(Functors)
    /\ calling \in BOOLEAN
    /\ batch \in Seq(Functors)
    /\ running \in Functors \union {NoFunctor}
    /\ active \subseteq Channels \union {WakeupChannel}
    /\ current \in Channels \union {NoChannel}
    /\ caller \in [AllThreads -> {"idle", "wakeup"}]
    /\ early \subseteq Functors

Init ==
    /\ loc = "out"
    /\ quit = FALSE
    /\ wakeups = 0
    /\ pending = <<>>
    /\ calling = FALSE
    /\ batch = <<>>
    /\ running = NoFunctor
    /\ active = {}
    /\ current = NoChannel
    /\ caller = [t \in AllThreads |-> "idle"]
    /\ early = {}

-----------------------------------------------------------------------------
(* What any thread may call.                                                *)

(* The code a thread runs when it calls the loop: for the loop thread that  *)
(* is the code around loop(), a channel's callback or a functor.            *)
CanCall(t) ==
    /\ caller[t] = "idle"
    /\ t = LoopThread => \/ loc = "out"
                         \/ current # NoChannel
                         \/ running # NoFunctor

(* Mutant: the test of callingPendingFunctos_ is forgotten. *)
QueueInLoopNotCalling(t, f) ==
    /\ CanCall(t)
    /\ f \notin Range(batch \o pending)
    /\ pending' = Append(pending, f)
    /\ caller' = IF t # LoopThread THEN [caller EXCEPT ![t] = "wakeup"] ELSE caller
    /\ early' = IF t = LoopThread /\ ~looping THEN early \union {f} ELSE early
    /\ UNCHANGED <<loc, quit, wakeups, calling, batch, running, active, current>>

(* queueInLoop, up to the eventfd write; runInLoop of another thread is     *)
(* this too, and of the loop thread a plain call.  Functors are told apart, *)
(* so one that still waits is not queued a second time.                     *)
QueueInLoop(t, f) ==
    /\ CanCall(t)
    /\ f \notin Range(batch \o pending)
    /\ pending' = Append(pending, f)
    /\ caller' = IF t # LoopThread \/ calling
                   THEN [caller EXCEPT ![t] = "wakeup"]
                   ELSE caller
    /\ early' = IF t = LoopThread /\ ~looping THEN early \union {f} ELSE early
    /\ UNCHANGED <<loc, quit, wakeups, calling, batch, running, active, current>>

(* Mutant: quit does not wake the loop up. *)
QuitSilent(t) ==
    /\ CanCall(t)
    /\ quit' = TRUE
    /\ UNCHANGED <<loc, wakeups, pending, calling, batch, running, active,
                   current, caller, early>>

(* quit, up to the eventfd write. *)
Quit(t) ==
    /\ CanCall(t)
    /\ quit' = TRUE
    /\ caller' = IF t # LoopThread THEN [caller EXCEPT ![t] = "wakeup"]
                                   ELSE caller
    /\ UNCHANGED <<loc, wakeups, pending, calling, batch, running, active,
                   current, early>>

(* wakeup: a write to a full eventfd fails, is logged, and leaves it full. *)
Wakeup(t) ==
    /\ caller[t] = "wakeup"
    /\ wakeups' = IF wakeups < EventfdMax THEN wakeups + 1 ELSE wakeups
    /\ caller' = [caller EXCEPT ![t] = "idle"]
    /\ UNCHANGED <<loc, quit, pending, calling, batch, running, active,
                   current, early>>

-----------------------------------------------------------------------------
(* The loop thread.                                                         *)

(* The loop thread goes on only when its own queueInLoop has returned. *)
LoopMoves == caller[LoopThread] = "idle"

(* loop() is entered. *)
Start ==
    /\ LoopMoves
    /\ ~looping
    /\ loc' = "check"
    /\ quit' = FALSE
    /\ UNCHANGED <<wakeups, pending, calling, batch, running, active, current,
                   caller, early>>

(* while (!quit_) *)
Check ==
    /\ loc = "check"
    /\ loc' = IF quit THEN "out" ELSE "poll"
    /\ UNCHANGED <<quit, wakeups, pending, calling, batch, running, active,
                   current, caller, early>>

(* epoll_wait returns the wakeup channel when the counter is not zero, and  *)
(* the other channels that are ready.                                       *)
Poll(ready) ==
    /\ loc = "poll"
    /\ active' = ready \union {c \in {WakeupChannel} : wakeups > 0}
    /\ loc' = "handle"
    /\ UNCHANGED <<quit, wakeups, pending, calling, batch, running, current,
                   caller, early>>

(* epoll_wait returns because something is ready. *)
PollReady == \E ready \in SUBSET Channels :
                /\ wakeups > 0 \/ ready # {}
                /\ Poll(ready)

(* epoll_wait returns after kPollTimeMs with nothing. *)
PollTimeout ==
    /\ wakeups = 0
    /\ Poll({})

(* The wakeup channel's callback, handleRead: the read empties the counter. *)
HandleRead ==
    /\ loc = "handle"
    /\ current = NoChannel
    /\ WakeupChannel \in active
    /\ active' = active \ {WakeupChannel}
    /\ wakeups' = 0
    /\ UNCHANGED <<loc, quit, pending, calling, batch, running, current, caller,
                   early>>

(* Another channel's callback is entered, *)
HandleEvent(c) ==
    /\ loc = "handle"
    /\ current = NoChannel
    /\ c \in active
    /\ active' = active \ {c}
    /\ current' = c
    /\ UNCHANGED <<loc, quit, wakeups, pending, calling, batch, running, caller,
                   early>>

(* and returns. *)
EventReturn ==
    /\ LoopMoves
    /\ current # NoChannel
    /\ current' = NoChannel
    /\ UNCHANGED <<loc, quit, wakeups, pending, calling, batch, running, active,
                   caller, early>>

(* Every active channel has been handled. *)
HandleDone ==
    /\ loc = "handle"
    /\ active = {}
    /\ current = NoChannel
    /\ loc' = "swap"
    /\ UNCHANGED <<quit, wakeups, pending, calling, batch, running, active,
                   current, caller, early>>

(* Mutant: the vector is copied, not swapped. *)
SwapFunctorsCopies ==
    /\ loc = "swap"
    /\ calling' = TRUE
    /\ batch' = pending
    /\ loc' = "run"
    /\ UNCHANGED <<quit, wakeups, pending, running, active, current, caller, early>>

(* doPendingFunctors up to the end of its critical section. *)
SwapFunctors ==
    /\ loc = "swap"
    /\ calling' = TRUE
    /\ batch' = pending
    /\ pending' = <<>>
    /\ early' = {}
    /\ loc' = "run"
    /\ UNCHANGED <<quit, wakeups, running, active, current, caller>>

(* The next functor of the batch is called, *)
RunFunctor ==
    /\ loc = "run"
    /\ running = NoFunctor
    /\ batch # <<>>
    /\ running' = Head(batch)
    /\ batch' = Tail(batch)
    /\ UNCHANGED <<loc, quit, wakeups, pending, calling, active, current,
                   caller, early>>

(* and returns. *)
FunctorReturn ==
    /\ LoopMoves
    /\ running # NoFunctor
    /\ running' = NoFunctor
    /\ UNCHANGED <<loc, quit, wakeups, pending, calling, batch, active, current,
                   caller, early>>

(* Mutant: doPendingFunctors goes on until nothing is pending. *)
FunctorsDoneWhenEmpty ==
    /\ loc = "run"
    /\ running = NoFunctor
    /\ batch = <<>>
    /\ IF pending = <<>>
         THEN loc' = "check" /\ calling' = FALSE
         ELSE UNCHANGED <<loc, calling>>
    /\ batch' = pending
    /\ pending' = <<>>
    /\ UNCHANGED <<quit, wakeups, running, active, current, caller, early>>

(* The batch is finished. *)
FunctorsDone ==
    /\ loc = "run"
    /\ running = NoFunctor
    /\ batch = <<>>
    /\ calling' = FALSE
    /\ loc' = "check"
    /\ UNCHANGED <<quit, wakeups, pending, batch, running, active, current,
                   caller, early>>

-----------------------------------------------------------------------------
Call == \E t \in AllThreads :
            \/ \E f \in Functors : QueueInLoop(t, f)
            \/ Quit(t)
            \/ Wakeup(t)

(* The steps of loop() that wait for nobody. *)
Iterate ==
    \/ Check
    \/ HandleRead
    \/ \E c \in Channels : HandleEvent(c)
    \/ EventReturn
    \/ HandleDone
    \/ SwapFunctors
    \/ RunFunctor
    \/ FunctorReturn
    \/ FunctorsDone

Next == Call \/ Start \/ PollReady \/ PollTimeout \/ Iterate

Spec == Init /\ [][Next]_vars

(* The loop thread keeps going, callbacks and functors return, a thread     *)
(* that pushed goes on to write, and epoll_wait returns when the eventfd is *)
(* readable.  Nothing is assumed of the kPollTimeMs timeout, so what holds  *)
(* under FairSpec does not wait for it.                                     *)
Fairness ==
    /\ WF_vars(Iterate)
    /\ WF_vars(wakeups > 0 /\ PollReady)
    /\ \A t \in AllThreads : WF_vars(Wakeup(t))

FairSpec == Spec /\ Fairness

-----------------------------------------------------------------------------
(* A write to the eventfd has been made and not read, or is about to be. *)
WakeupUnderway == wakeups > 0 \/ \E t \in AllThreads : caller[t] = "wakeup"

(* The loop never sleeps in epoll_wait on a functor that was queued while   *)
(* it ran: queueInLoop skips the write only where doPendingFunctors is sure *)
(* to come before the next poll (EventLoop.cc:187).                         *)
NoLostWakeup ==
    (loc = "poll" /\ \E i \in DOMAIN pending : pending[i] \notin early)
        => WakeupUnderway

(* Why NoLostWakeup holds: from the swap of one iteration to the next poll  *)
(* (and outside loop()) every functor in pending has its wakeup underway;   *)
(* between the poll and the swap none is needed.  The flag, the batch and   *)
(* the callbacks belong to the phases of the iteration they are set in.     *)
LoopInvariant ==
    /\ (loc \in {"out", "check", "poll", "run"}
          /\ \E i \in DOMAIN pending : pending[i] \notin early)
        => WakeupUnderway
    /\ calling <=> loc = "run"
    /\ current # NoChannel => loc = "handle"
    /\ running # NoFunctor => loc = "run"
    /\ batch # <<>> => loc = "run"

(* The loop never sleeps in epoll_wait when quit_ is set: quit writes to    *)
(* the eventfd after the flag, and the flag is tested before each poll      *)
(* (EventLoop.cc:123, 153-158).                                             *)
NoMissedQuit == (loc = "poll" /\ quit) => WakeupUnderway

(* Together the two vectors and the functor being run are one first-in      *)
(* first-out queue that loses nothing and runs nothing twice                *)
(* (EventLoop.cc:181, 289-295).                                             *)
Queue == INSTANCE FunctorQueue WITH todo <- batch \o pending,
                                    executing <- running
ImplementsFunctorQueue == Queue!Spec

(* A functor queued while the loop runs is run without waiting for the poll *)
(* timeout, unless the loop ends first.                                     *)
PromptExecution ==
    \A f \in Functors :
        (looping /\ f \in Range(pending) /\ f \notin early)
            ~> (running = f \/ ~looping)

(* A call of quit that finds the loop running ends it, whoever made it. *)
QuitStopsLoop == (looping /\ quit) ~> ~looping

(* What any thread asks of a running loop takes effect without the timeout. *)
CallsTakeEffect == PromptExecution /\ QuitStopsLoop

(* Functors that queue functors, even themselves, do not keep the loop from *)
(* its channels: the batch is fixed when it is swapped (EventLoop.cc:289).  *)
FunctorsDoNotStarvePoll == (loc = "run") ~> (loc # "run")

=============================================================================
