--------------------------- MODULE EventLoop_proofs ---------------------------
(***************************************************************************)
(* EventLoop, for every set of threads, functors and channels and every    *)
(* size of the eventfd's counter: type correctness, no wakeup and no quit  *)
(* is lost, and the two vectors implement FunctorQueue.  Then              *)
(* EventLoopThread: it runs EventLoop, and neither the thread nor the      *)
(* owner uses what the other has destroyed.                                *)
(***************************************************************************)
EXTENDS EventLoopThread, TLAPS

(* Every step of the loop and of its callers keeps the variables' types. *)
LEMMA TypeStep == TypeOK /\ [Next]_vars => TypeOK'
<1> SUFFICES ASSUME TypeOK, [Next]_vars PROVE TypeOK'
  OBVIOUS
<1> USE DEF TypeOK, Locations, AllThreads
<1>1. ASSUME NEW t \in AllThreads, NEW f \in Functors, QueueInLoop(t, f)
      PROVE  TypeOK'
  BY <1>1 DEF QueueInLoop
<1>2. ASSUME NEW t \in AllThreads, Quit(t) PROVE TypeOK'
  BY <1>2 DEF Quit
<1>3. ASSUME NEW t \in AllThreads, Wakeup(t) PROVE TypeOK'
  BY <1>3, EventfdAssumption DEF Wakeup
<1>4. CASE Start
  BY <1>4 DEF Start
<1>5. CASE Check
  BY <1>5 DEF Check
<1>6. CASE PollReady
  BY <1>6 DEF PollReady, Poll
<1>7. CASE PollTimeout
  BY <1>7 DEF PollTimeout, Poll
<1>8. CASE HandleRead
  BY <1>8, EventfdAssumption DEF HandleRead
<1>9. ASSUME NEW c \in Channels, HandleEvent(c) PROVE TypeOK'
  BY <1>9 DEF HandleEvent
<1>10. CASE EventReturn
  BY <1>10 DEF EventReturn
<1>11. CASE HandleDone
  BY <1>11 DEF HandleDone
<1>12. CASE SwapFunctors
  BY <1>12 DEF SwapFunctors
<1>13. CASE RunFunctor
  BY <1>13 DEF RunFunctor
<1>14. CASE FunctorReturn
  BY <1>14 DEF FunctorReturn
<1>15. CASE FunctorsDone
  BY <1>15 DEF FunctorsDone
<1>16. CASE UNCHANGED vars
  BY <1>16 DEF vars
<1> QED
  BY <1>1, <1>2, <1>3, <1>4, <1>5, <1>6, <1>7, <1>8, <1>9, <1>10, <1>11,
     <1>12, <1>13, <1>14, <1>15, <1>16 DEF Next, Call, Iterate

(* The types hold at first. *)
LEMMA TypeInit == Init => TypeOK
<1> SUFFICES ASSUME Init PROVE TypeOK
  OBVIOUS
<1>1. 0 \in 0..EventfdMax
  BY EventfdAssumption
<1>2. caller \in [AllThreads -> {"idle", "wakeup"}]
  BY DEF Init
<1>3. pending \in Seq(Functors) /\ batch \in Seq(Functors)
  BY DEF Init
<1>4. active \subseteq Channels \union {WakeupChannel} /\ early \subseteq Functors
  BY DEF Init
<1> QED
  BY <1>1, <1>2, <1>3, <1>4 DEF Init, TypeOK, Locations

(* The variables of EventLoop keep their types. *)
THEOREM TypeCorrect == Spec => []TypeOK
BY TypeInit, TypeStep, PTL DEF Spec

(* A write that is underway stays so until handleRead, and a push of        *)
(* another thread, or of a functor, puts one underway.                      *)
LEMMA LoopStep ==
    TypeOK /\ LoopInvariant /\ [Next]_vars => LoopInvariant'
<1> SUFFICES ASSUME TypeOK, LoopInvariant, [Next]_vars
             PROVE  LoopInvariant'
  OBVIOUS
<1> USE DEF LoopInvariant, WakeupUnderway, TypeOK, AllThreads
<1>1. ASSUME NEW t \in AllThreads, NEW f \in Functors, QueueInLoop(t, f)
      PROVE  LoopInvariant'
  <2>1. CASE t # LoopThread \/ calling
    <3>1. caller'[t] = "wakeup"
      BY <1>1, <2>1 DEF QueueInLoop
    <3> QED
      BY <1>1, <3>1 DEF QueueInLoop
  <2>2. CASE t = LoopThread /\ loc = "out"
    <3>1. early' = early \union {f} /\ caller' = caller /\ wakeups' = wakeups
      BY <1>1, <2>2 DEF QueueInLoop, looping
    <3>2. ASSUME NEW i \in DOMAIN pending', pending'[i] \notin early'
          PROVE  i \in DOMAIN pending /\ pending[i] \notin early
      BY <1>1, <3>1, <3>2 DEF QueueInLoop
    <3> QED
      BY <1>1, <2>2, <3>1, <3>2 DEF QueueInLoop
  <2>3. CASE t = LoopThread /\ ~calling /\ loc # "out"
    <3>1. loc = "handle"
      BY <1>1, <2>3 DEF QueueInLoop, CanCall
    <3> QED
      BY <1>1, <2>3, <3>1 DEF QueueInLoop
  <2> QED
    BY <2>1, <2>2, <2>3
<1>2. ASSUME NEW t \in AllThreads, Quit(t) PROVE LoopInvariant'
  BY <1>2 DEF Quit
<1>3. ASSUME NEW t \in AllThreads, Wakeup(t) PROVE LoopInvariant'
  <2>1. wakeups' > 0
    BY <1>3, EventfdAssumption DEF Wakeup
  <2> QED
    BY <1>3, <2>1 DEF Wakeup
<1>4. CASE Start
  BY <1>4 DEF Start, looping
<1>5. CASE Check
  BY <1>5 DEF Check
<1>6. CASE PollReady
  BY <1>6 DEF PollReady, Poll
<1>7. CASE PollTimeout
  BY <1>7 DEF PollTimeout, Poll
<1>8. CASE HandleRead
  BY <1>8 DEF HandleRead
<1>9. ASSUME NEW c \in Channels, HandleEvent(c) PROVE LoopInvariant'
  BY <1>9 DEF HandleEvent
<1>10. CASE EventReturn
  BY <1>10 DEF EventReturn
<1>11. CASE HandleDone
  BY <1>11 DEF HandleDone
<1>12. CASE SwapFunctors
  BY <1>12 DEF SwapFunctors
<1>13. CASE RunFunctor
  BY <1>13 DEF RunFunctor
<1>14. CASE FunctorReturn
  BY <1>14 DEF FunctorReturn
<1>15. CASE FunctorsDone
  BY <1>15 DEF FunctorsDone
<1>16. CASE UNCHANGED vars
  BY <1>16 DEF vars
<1> QED
  BY <1>1, <1>2, <1>3, <1>4, <1>5, <1>6, <1>7, <1>8, <1>9, <1>10, <1>11,
     <1>12, <1>13, <1>14, <1>15, <1>16 DEF Next, Call, Iterate

(* The invariant holds at first. *)
LEMMA LoopInit == Init => LoopInvariant
BY DEF Init, LoopInvariant

(* The strengthening of NoLostWakeup is inductive. *)
THEOREM LoopInvariantHolds == Spec => []LoopInvariant
BY TypeInit, TypeStep, LoopInit, LoopStep, PTL DEF Spec

(* The loop does not sleep in epoll_wait on a functor queued while it ran:  *)
(* the tests of queueInLoop (EventLoop.cc:187) are enough.                  *)
THEOREM NoWakeupIsLost == Spec => []NoLostWakeup
<1>1. LoopInvariant => NoLostWakeup
  BY DEF LoopInvariant, NoLostWakeup
<1> QED
  BY <1>1, LoopInvariantHolds, PTL

(* The loop does not sleep in epoll_wait on a quit it has not seen: the     *)
(* flag is set before the write and tested before the poll.                 *)
THEOREM NoQuitIsMissed == Spec => []NoMissedQuit
<1>1. Init => NoMissedQuit
  BY DEF Init, NoMissedQuit
<1>2. TypeOK /\ LoopInvariant /\ NoMissedQuit /\ [Next]_vars => NoMissedQuit'
  <2> SUFFICES ASSUME TypeOK, LoopInvariant, NoMissedQuit, [Next]_vars
               PROVE  NoMissedQuit'
    OBVIOUS
  <2> USE DEF NoMissedQuit, WakeupUnderway, TypeOK, AllThreads
  <2>1. ASSUME NEW t \in AllThreads, NEW f \in Functors, QueueInLoop(t, f)
        PROVE  NoMissedQuit'
    BY <2>1 DEF QueueInLoop
  <2>2. ASSUME NEW t \in AllThreads, Quit(t) PROVE NoMissedQuit'
    <3>1. CASE t = LoopThread
      <4>1. loc # "poll"
        BY <2>2, <3>1 DEF Quit, CanCall, LoopInvariant
      <4> QED
        BY <2>2, <4>1 DEF Quit
    <3>2. CASE t # LoopThread
      BY <2>2, <3>2 DEF Quit
    <3> QED
      BY <3>1, <3>2
  <2>3. ASSUME NEW t \in AllThreads, Wakeup(t) PROVE NoMissedQuit'
    <3>1. wakeups' > 0
      BY <2>3, EventfdAssumption DEF Wakeup
    <3> QED
      BY <3>1
  <2>4. CASE Check
    BY <2>4 DEF Check
  <2>5. CASE PollReady \/ PollTimeout
    BY <2>5 DEF PollReady, PollTimeout, Poll
  <2>6. CASE Start \/ HandleDone \/ SwapFunctors \/ FunctorsDone
    BY <2>6 DEF Start, HandleDone, SwapFunctors, FunctorsDone
  <2>7. CASE HandleRead \/ \E c \in Channels : HandleEvent(c)
    BY <2>7 DEF HandleRead, HandleEvent
  <2>8. CASE EventReturn \/ RunFunctor \/ FunctorReturn
    BY <2>8 DEF EventReturn, RunFunctor, FunctorReturn
  <2>9. CASE UNCHANGED vars
    BY <2>9 DEF vars
  <2> QED
    BY <2>1, <2>2, <2>3, <2>4, <2>5, <2>6, <2>7, <2>8, <2>9
       DEF Next, Call, Iterate
<1> QED
  BY <1>1, <1>2, TypeInit, TypeStep, LoopInit, LoopStep, PTL DEF Spec

-----------------------------------------------------------------------------
(* The queue of FunctorQueue is what is left of the batch, then pending.    *)

(* Appending to the second of two sequences. *)
LEMMA ConcatAppend ==
    ASSUME NEW S, NEW s \in Seq(S), NEW u \in Seq(S), NEW e \in S
    PROVE  s \o Append(u, e) = Append(s \o u, e)
OBVIOUS

(* Moving a head from the second to the first. *)
LEMMA ConcatHeadTail ==
    ASSUME NEW S, NEW s \in Seq(S), NEW u \in Seq(S), s # <<>>
    PROVE  /\ s \o u # <<>>
           /\ Head(s \o u) = Head(s)
           /\ Tail(s \o u) = Tail(s) \o u
OBVIOUS

(* Two empty ones. *)
LEMMA EmptyConcat ==
    ASSUME NEW S, NEW s \in Seq(S)
    PROVE  <<>> \o s = s /\ s \o <<>> = s
OBVIOUS

(* Every step of EventLoop is a step of FunctorQueue or leaves it alone. *)
LEMMA QueueStep ==
    TypeOK /\ LoopInvariant /\ [Next]_vars => [Queue!Next]_(Queue!vars)
<1> SUFFICES ASSUME TypeOK, LoopInvariant, [Next]_vars
             PROVE  Queue!Next \/ UNCHANGED Queue!vars
  BY DEF Queue!vars
<1> USE DEF TypeOK
<1>1. ASSUME NEW t \in AllThreads, NEW f \in Functors, QueueInLoop(t, f)
      PROVE  Queue!Submit(f)
  <2>1. batch' \o pending' = Append(batch \o pending, f)
    BY <1>1, ConcatAppend DEF QueueInLoop
  <2>2. f \notin Queue!Range(batch \o pending)
    BY <1>1 DEF QueueInLoop, Range, Queue!Range
  <2> QED
    BY <1>1, <2>1, <2>2 DEF QueueInLoop, Queue!Submit
<1>2. ASSUME NEW t \in AllThreads, Quit(t) \/ Wakeup(t)
      PROVE  UNCHANGED Queue!vars
  BY <1>2 DEF Quit, Wakeup, Queue!vars
<1>3. CASE Start \/ Check \/ HandleDone \/ FunctorsDone
  BY <1>3 DEF Start, Check, HandleDone, FunctorsDone, Queue!vars
<1>4. CASE PollReady \/ PollTimeout
  BY <1>4 DEF PollReady, PollTimeout, Poll, Queue!vars
<1>5. CASE HandleRead \/ (\E c \in Channels : HandleEvent(c)) \/ EventReturn
  BY <1>5 DEF HandleRead, HandleEvent, EventReturn, Queue!vars
<1>6. CASE SwapFunctors
  <2>1. batch = <<>>
    BY <1>6 DEF SwapFunctors, LoopInvariant
  <2>2. batch' \o pending' = batch \o pending
    BY <1>6, <2>1, EmptyConcat DEF SwapFunctors
  <2> QED
    BY <1>6, <2>2 DEF SwapFunctors, Queue!vars
<1>7. CASE RunFunctor
  <2>1. Head(batch \o pending) = Head(batch) /\ batch \o pending # <<>>
    BY <1>7, ConcatHeadTail DEF RunFunctor
  <2>2. Tail(batch \o pending) = Tail(batch) \o pending
    BY <1>7, ConcatHeadTail DEF RunFunctor
  <2> QED
    BY <1>7, <2>1, <2>2 DEF RunFunctor, Queue!Begin, Queue!Next
<1>8. CASE FunctorReturn
  BY <1>8 DEF FunctorReturn, Queue!End, Queue!Next
<1>9. CASE UNCHANGED vars
  BY <1>9 DEF vars, Queue!vars
<1> QED
  BY <1>1, <1>2, <1>3, <1>4, <1>5, <1>6, <1>7, <1>8, <1>9
     DEF Next, Call, Iterate, Queue!Next

(* pendingFunctos_ and the local vector of doPendingFunctors implement a    *)
(* first-in first-out queue whose members are run one at a time, once each. *)
THEOREM EventLoopImplementsFunctorQueue == Spec => ImplementsFunctorQueue
<1>1. Init => Queue!Init
  BY EmptyConcat DEF Init, Queue!Init
<1> QED
  BY <1>1, QueueStep, TypeInit, TypeStep, LoopInit, LoopStep, PTL
     DEF Spec, ImplementsFunctorQueue, Queue!Spec

-----------------------------------------------------------------------------
(* EventLoopThread.                                                         *)

(* Whatever the thread and the owner do to the loop is a step of EventLoop. *)
LEMMA ThreadStep == [ThreadNext]_allVars => [Next]_vars
<1> SUFFICES ASSUME [ThreadNext]_allVars PROVE [Next]_vars
  OBVIOUS
<1>0. LoopThread \in AllThreads /\ Owner \in AllThreads
  BY OwnerAssumption DEF AllThreads
<1>1. CASE ThreadFunc
  BY <1>1 DEF ThreadFunc, Publish, EnterLoop, ClearLoop, ThreadExit, Next
<1>2. CASE InitCallback
  BY <1>0, <1>2 DEF InitCallback, Next, Call
<1>3. CASE InLoop
  BY <1>0, <1>3 DEF InLoop, Next, Call
<1>4. CASE QuitInLoop
  BY <1>0, <1>4 DEF QuitInLoop, Next, Call
<1>5. CASE OwnerCode
  BY <1>0, <1>5
     DEF OwnerCode, StartLoopWait, StartLoopReturn, OwnerWakeup, DtorQuit,
         Join, Next, Call
<1>6. CASE StartLoop \/ SpuriousWakeup \/ ReadLoop
  BY <1>6 DEF StartLoop, SpuriousWakeup, ReadLoop
<1>7. CASE UseLoop
  BY <1>0, <1>7 DEF UseLoop, Next, Call
<1>8. CASE UNCHANGED allVars
  BY <1>8 DEF allVars
<1> QED
  BY <1>1, <1>2, <1>3, <1>4, <1>5, <1>6, <1>7, <1>8 DEF ThreadNext

(* EventLoopThread runs an EventLoop as its users may: what is proved of    *)
(* EventLoop holds of the loop of threadFunc.                               *)
THEOREM ThreadRunsEventLoop == ThreadSpec => Spec
<1>1. ThreadInit => Init
  BY DEF ThreadInit
<1> QED
  BY <1>1, ThreadStep, PTL DEF ThreadSpec, Spec

(* Until the destructor reads loop_, and as long as nobody else calls       *)
(* quit(), nothing can end the loop; so the loop_ it finds is null only     *)
(* when the thread was never started, and what it finds is not yet          *)
(* destroyed when quit() is called on it.                                   *)
LoopOutlives ==
    (~otherQuit /\ owner \notin {"joining", "gone"}) =>
        /\ ~quit
        /\ worker \notin {"clearing", "dead"}
        /\ worker = "looping" => looping

ThreadInv ==
    /\ OwnerTypeOK
    /\ loopSet <=> worker \in {"enter", "looping"}
    /\ owner = "new" => worker = "none"
    /\ owner = "started" => worker \notin {"none", "init"}
    /\ owner = "gone" => otherQuit \/ worker \in {"none", "dead"}
    /\ LoopOutlives

(* Inside loop() only the test of quit_ ends it, and only once it is set. *)
LEMMA LoopGoesOn ==
    ASSUME InLoop, ~quit
    PROVE  ~quit' /\ looping'
<1>1. CASE Iterate
  <2> USE <1>1 DEF InLoop, Iterate, looping
  <2>1. CASE Check
    BY <2>1 DEF Check
  <2>2. CASE HandleRead \/ \E c \in Channels : HandleEvent(c)
    BY <2>2 DEF HandleRead, HandleEvent
  <2>3. CASE EventReturn \/ RunFunctor \/ FunctorReturn
    BY <2>3 DEF EventReturn, RunFunctor, FunctorReturn
  <2>4. CASE HandleDone \/ SwapFunctors \/ FunctorsDone
    BY <2>4 DEF HandleDone, SwapFunctors, FunctorsDone
  <2> QED
    BY <2>1, <2>2, <2>3, <2>4
<1>2. CASE PollReady \/ PollTimeout
  BY <1>2 DEF PollReady, PollTimeout, Poll, looping
<1>3. CASE \E f \in Functors : QueueInLoop(LoopThread, f)
  BY <1>3 DEF QueueInLoop, InLoop, looping
<1>4. CASE Wakeup(LoopThread)
  BY <1>4 DEF Wakeup, InLoop, looping
<1> QED
  BY <1>1, <1>2, <1>3, <1>4 DEF InLoop

(* Every step of the thread and of its owner keeps ThreadInv. *)
LEMMA ThreadInvStep == ThreadInv /\ [ThreadNext]_allVars => ThreadInv'
<1> SUFFICES ASSUME ThreadInv, [ThreadNext]_allVars PROVE ThreadInv'
  OBVIOUS
<1>0. TypeOK'
  BY ThreadStep, TypeStep DEF ThreadInv, OwnerTypeOK
<1> USE <1>0 DEF ThreadInv, OwnerTypeOK, LoopOutlives
<1>1. CASE Publish
  BY <1>1 DEF Publish, Notify, vars, looping
<1>2. CASE EnterLoop
  BY <1>2 DEF EnterLoop, Start, looping
<1>3. CASE ClearLoop
  BY <1>3 DEF ClearLoop, vars, looping
<1>4. CASE ThreadExit
  BY <1>4 DEF ThreadExit, vars, looping
<1>5. CASE InitCallback
  BY <1>5 DEF InitCallback, QueueInLoop, threadVars, looping
<1>6. CASE InLoop
  <2>1. UNCHANGED threadVars
    BY <1>6 DEF InLoop
  <2>2. ~quit => ~quit' /\ looping'
    BY <1>6, LoopGoesOn
  <2> QED
    BY <2>1, <2>2 DEF threadVars
<1>7. CASE QuitInLoop
  BY <1>7 DEF QuitInLoop
<1>8. CASE StartLoopReturn
  BY <1>8 DEF StartLoopReturn, vars, looping
<1>9. CASE OwnerWakeup
  BY <1>9 DEF OwnerWakeup, Wakeup, threadVars, looping
<1>10. CASE DtorQuit
  BY <1>10 DEF DtorQuit
<1>11. CASE Join
  BY <1>11 DEF Join, vars, looping
<1>12. CASE StartLoop
  BY <1>12 DEF StartLoop, vars, looping
<1>13. CASE UseLoop
  <2>1. CASE (\E f \in Functors : QueueInLoop(Owner, f)) /\ UNCHANGED otherQuit
    <3>1. UNCHANGED <<loc, quit>>
      BY <2>1 DEF QueueInLoop
    <3> QED
      BY <1>13, <2>1, <3>1 DEF UseLoop, looping
  <2>2. CASE Quit(Owner) /\ otherQuit' = TRUE
    BY <1>13, <2>2 DEF UseLoop
  <2> QED
    BY <1>13, <2>1, <2>2 DEF UseLoop
<1>14. CASE ReadLoop
  BY <1>14 DEF ReadLoop, vars, looping
<1>15. CASE UNCHANGED allVars
  BY <1>15 DEF allVars, vars, threadVars, looping
<1>16. CASE StartLoopWait \/ SpuriousWakeup
  BY <1>16 DEF StartLoopWait, SpuriousWakeup, vars, looping
<1> QED
  BY <1>1, <1>2, <1>3, <1>4, <1>5, <1>6, <1>7, <1>8, <1>9, <1>10, <1>11,
     <1>12, <1>13, <1>14, <1>15, <1>16 DEF ThreadNext, ThreadFunc, OwnerCode

(* Neither the thread nor its owner uses what the other has destroyed, and  *)
(* startLoop returns no loop that is not there yet, however often the wait  *)
(* on cond_ ends for nothing: whoever finds loop_ set has a loop, and without a quit() of others the   *)
(* destructor's unlocked test of loop_ (EventLoopThread.cc:30) is enough.   *)
THEOREM OwnerIsSafe == ThreadSpec => []OwnerInv
<1>1. ThreadInit => ThreadInv
  <2> SUFFICES ASSUME ThreadInit PROVE ThreadInv
    OBVIOUS
  <2>1. TypeOK
    BY TypeInit DEF ThreadInit
  <2> QED
    BY <2>1 DEF ThreadInit, Init, ThreadInv, OwnerTypeOK, LoopOutlives
<1>2. ThreadInv => OwnerInv
  BY DEF ThreadInv, LoopOutlives, OwnerInv, LoopPointerValid, StartedLoop,
         NoUseAfterDestroy, OwnerTypeOK
<1> QED
  BY <1>1, <1>2, ThreadInvStep, PTL DEF ThreadSpec

=============================================================================
