------------------------------ MODULE TimerQueue ------------------------------
(***************************************************************************)
(* src/src/net/TimerQueue.{h,cc}, Timer.{h,cc}: the timers of one          *)
(* EventLoop, kept in two sets and driven by one timerfd.  Any thread may  *)
(* call addTimer and cancel.  The loop thread executes them at once; those *)
(* of other threads go through runInLoop, of which only what FunctorQueue  *)
(* says is used: a first-in first-out mailbox emptied by the loop thread.  *)
(*                                                                         *)
(* One tick of the clock stands for 100 microseconds, the least delay the  *)
(* timerfd is ever armed with.                                             *)
(***************************************************************************)
EXTENDS Naturals, Sequences, FiniteSets, Functions

CONSTANTS
    LoopThread,
    Threads,    \* the other threads
    Timers,     \* Timer objects; one stands for a pointer and its sequence
    NoTimer,
    Interval,   \* interval_ of each timer in ticks, 0 when it does not repeat
    MaxTime     \* the model's horizon: the clock stops here

ASSUME LoopAssumption == LoopThread \notin Threads
ASSUME TimerAssumption == NoTimer \notin Timers
ASSUME IntervalAssumption == Interval \in [Timers -> Nat]
ASSUME TimeAssumption == MaxTime \in Nat

VARIABLES
    now,        \* the clock
    obj,        \* per timer: "none" before new, "alive", "deleted"
    exp,        \* expriation_
    timers,     \* timers_: pairs of expiration and timer
    active,     \* activeTimers_
    canceling,  \* cancelingTimers_
    calling,    \* callingExpiredTimers_
    expired,    \* handleRead's local vector
    toRun,      \* those of expired whose callback has not been called yet
    running,    \* the timer whose callback runs, or NoTimer
    readAt,     \* handleRead's local now
    fd,         \* when the timerfd fires: a set of at most one time
    loc,        \* where the loop is: "poll", "handle" (callbacks of channels),
                \* "expired" (in handleRead), "functors"
    fdActive,   \* the poll returned the timerfd, and it is not handled yet
    mailbox,    \* functors queued for the loop: <<"add" or "cancel", timer>>
    due,        \* how many of them this iteration runs
    adding,     \* per thread: the timer of an addTimer not returned yet
    known,      \* timers whose TimerId has been returned to somebody
    cancelled,  \* history: timers cancelInLoop has been executed for
    tooEarly    \* history: those of them whose last cancel came while their
                \* addition was still in the mailbox

clockVars == <<now, fd>>
setVars == <<obj, exp, timers, active, canceling>>
readVars == <<calling, expired, toRun, running, readAt>>
loopVars == <<loc, fdActive, due>>
callVars == <<mailbox, adding, known>>
history == <<cancelled, tooEarly>>
vars == <<clockVars, setVars, readVars, loopVars, callVars, history>>

Times == 0..MaxTime

(* A repeating timer may be due after the horizon. *)
TypeOK ==
    /\ now \in Times
    /\ obj \in [Timers -> {"none", "alive", "deleted"}]
    /\ exp \in [Timers -> Nat]
    /\ timers \subseteq Nat \X Timers
    /\ active \subseteq Timers
    /\ canceling \subseteq Timers
    /\ calling \in BOOLEAN
    /\ expired \subseteq Timers
    /\ toRun \subseteq expired
    /\ running \in Timers \union {NoTimer}
    /\ readAt \in Times
    /\ fd \subseteq Times
    /\ loc \in {"poll", "handle", "expired", "functors"}
    /\ fdActive \in BOOLEAN
    /\ mailbox \in Seq({"add", "cancel"} \X Timers)
    /\ due \in Nat
    /\ adding \in [Threads -> Timers \union {NoTimer}]
    /\ known \subseteq Timers
    /\ cancelled \subseteq Timers
    /\ tooEarly \subseteq cancelled

Init ==
    /\ now = 0
    /\ obj = [t \in Timers |-> "none"]
    /\ exp = [t \in Timers |-> 0]
    /\ timers = {}
    /\ active = {}
    /\ canceling = {}
    /\ calling = FALSE
    /\ expired = {}
    /\ toRun = {}
    /\ running = NoTimer
    /\ readAt = 0
    /\ fd = {}
    /\ loc = "functors"
    /\ fdActive = FALSE
    /\ mailbox = <<>>
    /\ due = 0
    /\ adding = [t \in Threads |-> NoTimer]
    /\ known = {}
    /\ cancelled = {}
    /\ tooEarly = {}

-----------------------------------------------------------------------------
(* resetTimerfd with howMuchTimeFromNow: not sooner than one tick from now. *)
(* Past the horizon the fd fires at the horizon.                            *)
ArmedFor(when) ==
    LET least == IF when <= now THEN now + 1 ELSE when
    IN  {IF least > MaxTime THEN MaxTime ELSE least}

Readable == \E d \in fd : d <= now

Earliest(entries) ==
    CHOOSE d \in {e[1] : e \in entries} : \A e \in entries : d <= e[1]

(* The result of insert: a timer earlier than all of timers_ (or the first) *)
(* changes the earliest expiration.                                         *)
EarliestChanged(when) == \A e \in timers : when < e[1]

(* Code of the user's that runs in the loop thread: the callback of some    *)
(* channel, of a timer, or a functor.                                       *)
InUserCode == loc \in {"handle", "functors"} \/ running # NoTimer

(* addTimerInLoop *)
AddTimerInLoop(t, when) ==
    /\ timers' = timers \union {<<when, t>>}
    /\ active' = active \union {t}
    /\ fd' = IF EarliestChanged(when) THEN ArmedFor(when) ELSE fd

(* Mutant: a cancel during the callbacks is not remembered. *)
CancelInLoopForgets(t) ==
    /\ IF t \in active
         THEN /\ timers' = timers \ {<<exp[t], t>>}
              /\ active' = active \ {t}
              /\ obj' = [obj EXCEPT ![t] = "deleted"]
         ELSE UNCHANGED <<timers, active, obj>>
    /\ cancelled' = cancelled \union {t}
    /\ tooEarly' = IF <<"add", t>> \in Range(mailbox) THEN tooEarly \union {t}
                                                      ELSE tooEarly \ {t}
    /\ UNCHANGED canceling

(* cancelInLoop *)
CancelInLoop(t) ==
    /\ IF t \in active
         THEN /\ timers' = timers \ {<<exp[t], t>>}
              /\ active' = active \ {t}
              /\ obj' = [obj EXCEPT ![t] = "deleted"]
              /\ UNCHANGED canceling
         ELSE /\ canceling' = IF calling THEN canceling \union {t} ELSE canceling
              /\ UNCHANGED <<timers, active, obj>>
    /\ cancelled' = cancelled \union {t}
    /\ tooEarly' = IF <<"add", t>> \in Range(mailbox) THEN tooEarly \union {t}
                                                      ELSE tooEarly \ {t}

-----------------------------------------------------------------------------
(* addTimer called in the loop thread. *)
AddHere(t, when) ==
    /\ InUserCode
    /\ obj[t] = "none"
    /\ obj' = [obj EXCEPT ![t] = "alive"]
    /\ exp' = [exp EXCEPT ![t] = when]
    /\ AddTimerInLoop(t, when)
    /\ known' = known \union {t}
    /\ UNCHANGED <<now, canceling, readVars, loopVars, mailbox, adding, history>>

(* cancel called in the loop thread. *)
CancelHere(t) ==
    /\ InUserCode
    /\ t \in known
    /\ CancelInLoop(t)
    /\ UNCHANGED <<clockVars, exp, readVars, loopVars, callVars>>

(* addTimer called in another thread: the timer is created and handed over, *)
Add(thread, t, when) ==
    /\ adding[thread] = NoTimer
    /\ obj[t] = "none"
    /\ obj' = [obj EXCEPT ![t] = "alive"]
    /\ exp' = [exp EXCEPT ![t] = when]
    /\ mailbox' = Append(mailbox, <<"add", t>>)
    /\ adding' = [adding EXCEPT ![thread] = t]
    /\ UNCHANGED <<clockVars, timers, active, canceling, readVars, loopVars,
                   known, history>>

(* then its sequence number is read for the TimerId. *)
AddReturn(thread) ==
    /\ adding[thread] # NoTimer
    /\ known' = known \union {adding[thread]}
    /\ adding' = [adding EXCEPT ![thread] = NoTimer]
    /\ UNCHANGED <<clockVars, setVars, readVars, loopVars, mailbox, history>>

(* cancel called in another thread; a cancel that still waits in the        *)
(* mailbox is not repeated.                                                 *)
Cancel(thread, t) ==
    /\ adding[thread] = NoTimer
    /\ t \in known
    /\ <<"cancel", t>> \notin Range(mailbox)
    /\ mailbox' = Append(mailbox, <<"cancel", t>>)
    /\ UNCHANGED <<clockVars, setVars, readVars, loopVars, adding, known, history>>

-----------------------------------------------------------------------------
(* Mutant: the timerfd's channel is never enabled. *)
PollNoTimerfd ==
    /\ loc = "poll"
    /\ loc' = "handle"
    /\ UNCHANGED <<clockVars, setVars, readVars, fdActive, due, callVars, history>>

(* epoll_wait returns, with the timerfd when it is readable. *)
Poll ==
    /\ loc = "poll"
    /\ loc' = "handle"
    /\ fdActive' = Readable
    /\ UNCHANGED <<clockVars, setVars, readVars, due, callVars, history>>

(* handleRead up to the first callback.  A callback of an earlier channel   *)
(* may have armed the fd anew since the poll; the read then fails.          *)
HandleRead ==
    /\ loc = "handle"
    /\ fdActive
    /\ fdActive' = FALSE
    /\ loc' = "expired"
    /\ readAt' = now
    /\ fd' = IF Readable THEN {} ELSE fd
    /\ expired' = {t \in active : exp[t] <= now}
    /\ toRun' = expired'
    /\ timers' = {e \in timers : e[1] > now}
    /\ active' = active \ expired'
    /\ calling' = TRUE
    /\ canceling' = {}
    /\ UNCHANGED <<now, obj, exp, running, due, callVars, history>>

(* The callbacks are called in the order of timers_: by expiration, equal   *)
(* ones by address, which is any order.                                     *)
RunTimer(t) ==
    /\ loc = "expired"
    /\ running = NoTimer
    /\ t \in toRun
    /\ \A u \in toRun : exp[t] <= exp[u]
    /\ running' = t
    /\ toRun' = toRun \ {t}
    /\ UNCHANGED <<clockVars, setVars, calling, expired, readAt, loopVars,
                   callVars, history>>

TimerReturn ==
    /\ running # NoTimer
    /\ running' = NoTimer
    /\ UNCHANGED <<clockVars, setVars, calling, expired, toRun, readAt, loopVars,
                   callVars, history>>

(* Mutant: timers that do not repeat are not deleted. *)
ResetLeaks ==
    LET again == {t \in expired : Interval[t] > 0 /\ t \notin canceling}
    IN  /\ loc = "expired"
        /\ running = NoTimer
        /\ toRun = {}
        /\ calling' = FALSE
        /\ exp' = [t \in Timers |-> IF t \in again THEN readAt + Interval[t]
                                                   ELSE exp[t]]
        /\ timers' = timers \union {<<exp'[t], t>> : t \in again}
        /\ active' = active \union again
        /\ expired' = {}
        /\ fd' = IF timers' # {} THEN ArmedFor(Earliest(timers')) ELSE fd
        /\ loc' = "handle"
        /\ UNCHANGED <<now, obj, canceling, toRun, running, readAt, fdActive, due,
                       callVars, history>>

(* reset: of the expired timers, those that repeat and have not been        *)
(* cancelled meanwhile are inserted again, the others deleted.              *)
Reset ==
    LET again == {t \in expired : Interval[t] > 0 /\ t \notin canceling}
    IN  /\ loc = "expired"
        /\ running = NoTimer
        /\ toRun = {}
        /\ calling' = FALSE
        /\ exp' = [t \in Timers |-> IF t \in again THEN readAt + Interval[t]
                                                   ELSE exp[t]]
        /\ timers' = timers \union {<<exp'[t], t>> : t \in again}
        /\ active' = active \union again
        /\ obj' = [t \in Timers |-> IF t \in expired \ again THEN "deleted"
                                                             ELSE obj[t]]
        /\ expired' = {}
        /\ fd' = IF timers' # {} THEN ArmedFor(Earliest(timers')) ELSE fd
        /\ loc' = "handle"
        /\ UNCHANGED <<now, canceling, toRun, running, readAt, fdActive, due,
                       callVars, history>>

(* The channels are done; doPendingFunctors takes what is in the mailbox. *)
SwapFunctors ==
    /\ loc = "handle"
    /\ ~fdActive
    /\ loc' = "functors"
    /\ due' = Len(mailbox)
    /\ UNCHANGED <<clockVars, setVars, readVars, fdActive, callVars, history>>

(* A functor is run that was queued by addTimer, *)
RunAdd(t) ==
    /\ loc = "functors"
    /\ due > 0
    /\ Head(mailbox) = <<"add", t>>
    /\ AddTimerInLoop(t, exp[t])
    /\ mailbox' = Tail(mailbox)
    /\ due' = due - 1
    /\ UNCHANGED <<now, obj, exp, canceling, readVars, loc, fdActive, adding,
                   known, history>>

(* or by cancel. *)
RunCancel(t) ==
    /\ loc = "functors"
    /\ due > 0
    /\ Head(mailbox) = <<"cancel", t>>
    /\ CancelInLoop(t)
    /\ mailbox' = Tail(mailbox)
    /\ due' = due - 1
    /\ UNCHANGED <<clockVars, exp, readVars, loc, fdActive, adding, known>>

FunctorsDone ==
    /\ loc = "functors"
    /\ due = 0
    /\ loc' = "poll"
    /\ UNCHANGED <<clockVars, setVars, readVars, fdActive, due, callVars, history>>

Tick ==
    /\ now < MaxTime
    /\ now' = now + 1
    /\ UNCHANGED <<fd, setVars, readVars, loopVars, callVars, history>>

-----------------------------------------------------------------------------
Call ==
    \/ \E t \in Timers, when \in Times :
        \/ AddHere(t, when)
        \/ \E thread \in Threads : Add(thread, t, when)
    \/ \E t \in Timers :
        \/ CancelHere(t)
        \/ \E thread \in Threads : Cancel(thread, t)

(* What the loop thread does without waiting for anybody. *)
Iterate ==
    \/ HandleRead
    \/ \E t \in Timers : RunTimer(t) \/ RunAdd(t) \/ RunCancel(t)
    \/ TimerReturn
    \/ Reset
    \/ SwapFunctors
    \/ FunctorsDone

Next ==
    \/ Call
    \/ \E thread \in Threads : AddReturn(thread)
    \/ Iterate
    \/ Poll
    \/ Tick

Spec == Init /\ [][Next]_vars

(* The clock advances, the loop thread runs, and epoll_wait returns when    *)
(* the timerfd is readable or a functor has been queued (EventLoop's        *)
(* PromptExecution); nothing else is assumed to end the wait.               *)
Fairness ==
    /\ WF_vars(Tick)
    /\ WF_vars(Iterate)
    /\ WF_vars(Poll /\ (Readable \/ mailbox # <<>>))

FairSpec == Spec /\ Fairness

-----------------------------------------------------------------------------
(* timers_ and activeTimers_ hold the same timers, under their current      *)
(* expiration: what the assertions on their sizes and on the results of     *)
(* erase and insert rest on (TimerQueue.cc:161, 170-171, 232, 293-300).     *)
SetsAgree == timers = {<<exp[t], t>> : t \in active}

InMailbox == {t \in Timers : <<"add", t>> \in Range(mailbox)}

(* A Timer that exists is owned by exactly one of the mailbox, the sets and *)
(* the list of expired timers, a deleted one by none: nothing leaks,        *)
(* nothing is deleted twice, and no callback is that of a deleted timer     *)
(* (TimerQueue.cc:133-135, 173, 201, 250-257).                              *)
OneOwner ==
    /\ InMailbox \intersect active = {}
    /\ InMailbox \intersect expired = {}
    /\ active \intersect expired = {}
    /\ {t \in Timers : obj[t] = "alive"} = InMailbox \union active \union expired
    /\ running \in expired \union {NoTimer}

(* Outside handleRead the timerfd is armed whenever a timer waits, and not  *)
(* later than the earliest of them (TimerQueue.cc:151-155, 261-271).        *)
Armed ==
    (loc # "expired" /\ timers # {})
        => \E d \in fd : d <= now + 1 \/ \A e \in timers : d <= e[1]

(* No timer is forgotten, by the sets, their owner or the timerfd.          *)
TimerInv == TypeOK /\ SetsAgree /\ OneOwner /\ Armed

(* A timer that was cancelled after its insertion is never inserted again,  *)
(* even if the cancel came while its own callback, or that of a timer       *)
(* expired with it, was running (TimerQueue.cc:176-180, 247-248).           *)
CancelIsFinal == (cancelled \ tooEarly) \intersect active = {}

(* A timer in the sets is run, or cancelled, once the clock gets there.     *)
TimersRun ==
    \A t \in Timers :
        (t \in active /\ exp[t] <= MaxTime) ~> (running = t \/ t \in cancelled \ tooEarly)

(* EventLoop.h:76-90: the timer functions may be called from other threads; *)
(* so the Timer that addTimer reads for its result still exists.            *)
AddReadsLiveTimer == \A thread \in Threads :
    adding[thread] # NoTimer => obj[adding[thread]] # "deleted"

=============================================================================
