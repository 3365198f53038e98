-------------------------- MODULE TimerQueue_proofs --------------------------
(***************************************************************************)
(* TimerQueue, for any threads, timers, intervals and horizon: the sets    *)
(* and the mailbox own every timer exactly once, the timerfd is armed for  *)
(* the earliest of them, and a cancelled timer does not come back.         *)
(***************************************************************************)
EXTENDS TimerQueue, FiniteSetTheorems, SequenceTheorems, TLAPS

(* What the queue's invariants rest on.  The functors of the mailbox: an    *)
(* addition is queued once, and those of this iteration are still there.    *)
MailboxInv ==
    /\ due <= Len(mailbox)
    /\ \A i, j \in 1..Len(mailbox) :
          (mailbox[i] = mailbox[j] /\ mailbox[i][1] = "add") => i = j

(* The timers somebody has a hold of have been created. *)
Created ==
    /\ \A i \in 1..Len(mailbox) : obj[mailbox[i][2]] # "none"
    /\ \A t \in known \union cancelled : obj[t] # "none"
    /\ \A thread \in Threads : adding[thread] # NoTimer => obj[adding[thread]] # "none"

(* The list of expired timers is that of the handleRead being executed. *)
ReadInv ==
    /\ calling <=> loc = "expired"
    /\ loc # "expired" => expired = {} /\ running = NoTimer

(* Where a timer is that was cancelled after its insertion. *)
CancelInv ==
    \A t \in cancelled \ tooEarly :
        t \notin active \union InMailbox /\ (t \in expired => t \in canceling)

TimerQueueInv == TimerInv /\ MailboxInv /\ Created /\ ReadInv /\ CancelInv

-----------------------------------------------------------------------------
(* A set of numbers that is not empty has a least one: the intervals from 0 *)
(* are well-founded by inclusion below any member. *)
LEMMA LeastNatural ==
    ASSUME NEW S \in SUBSET Nat, S # {}
    PROVE  \E m \in S : \A n \in S : m <= n
<1>1. PICK x \in S : TRUE
  OBVIOUS
<1> DEFINE below == {0..n : n \in {k \in S : k <= x}}
<1>2. IsFiniteSet(0..x)
  BY FS_Interval
<1>3. 0..x \in below
  BY <1>1
<1>4. below \subseteq FiniteSubsetsOf(0..x)
  <2>1. \A n \in {k \in S : k <= x} : 0..n \subseteq 0..x
    OBVIOUS
  <2>2. \A n \in {k \in S : k <= x} : IsFiniteSet(0..n)
    BY FS_Interval
  <2> QED BY <2>1, <2>2 DEF FiniteSubsetsOf
<1>5. PICK b \in below : \A c \in below : <<c, b>> \notin StrictSubsetOrdering(0..x)
  <2> HIDE DEF below
  <2>1. IsWellFoundedOn(StrictSubsetOrdering(0..x), FiniteSubsetsOf(0..x))
    BY FS_StrictSubsetOrderingWellFounded
  <2> QED BY <1>3, <1>4, <2>1, WFMin
<1>6. PICK m \in {k \in S : k <= x} : b = 0..m
  BY <1>5
<1>7. ASSUME NEW n \in S PROVE m <= n
  <2> SUFFICES ASSUME n < m PROVE FALSE
    OBVIOUS
  <2>1. 0..n \in below
    BY <1>6
  <2>2. <<0..n, b>> \in StrictSubsetOrdering(0..x)
    <3>1. 0..n \subseteq 0..x /\ b \subseteq 0..x
      BY <1>6
    <3>2. m \in b /\ m \notin 0..n /\ 0..n \subseteq b
      BY <1>6
    <3> QED BY <3>1, <3>2 DEF StrictSubsetOrdering
  <2> QED BY <1>5, <2>1, <2>2
<1> QED BY <1>6, <1>7

(* What Earliest chooses is the expiration of an entry, none is earlier. *)
LEMMA EarliestEntry ==
    ASSUME NEW S \in SUBSET (Nat \X Timers), S # {}
    PROVE  /\ Earliest(S) \in Nat
           /\ \A e \in S : Earliest(S) <= e[1]
<1> DEFINE times == {e[1] : e \in S}
<1>1. times \in SUBSET Nat /\ times # {}
  OBVIOUS
<1>2. PICK m \in times : \A n \in times : m <= n
  <2> HIDE DEF times
  <2> QED BY <1>1, LeastNatural
<1>3. \A e \in S : m <= e[1]
  BY <1>2
<1>4. Earliest(S) \in times /\ \A e \in S : Earliest(S) <= e[1]
  BY <1>2, <1>3 DEF Earliest
<1> QED BY <1>1, <1>4

(* The timerfd is armed within the horizon, and not later than asked for    *)
(* unless that would be now. *)
LEMMA ArmedTime ==
    ASSUME TypeOK, NEW when \in Nat
    PROVE  /\ ArmedFor(when) \subseteq Times
           /\ \E d \in ArmedFor(when) : d <= now + 1 \/ d <= when
<1> DEFINE least == IF when <= now THEN now + 1 ELSE when
           d == IF least > MaxTime THEN MaxTime ELSE least
<1>1. now \in Nat /\ MaxTime \in Nat /\ now <= MaxTime
  BY TimeAssumption DEF TypeOK, Times
<1>2. d \in 0..MaxTime /\ (d <= now + 1 \/ d <= when)
  BY <1>1
<1>3. ArmedFor(when) = {d}
  BY DEF ArmedFor
<1> HIDE DEF d
<1> QED BY <1>2, <1>3 DEF Times

(* Membership in the mailbox, by position. *)
LEMMA InMailboxAt ==
    ASSUME TypeOK
    PROVE  InMailbox = {t \in Timers : \E i \in 1..Len(mailbox) : mailbox[i] = <<"add", t>>}
<1>1. Range(mailbox) = {mailbox[i] : i \in 1..Len(mailbox)}
  BY RangeEquality DEF TypeOK
<1> QED BY <1>1 DEF InMailbox

(* A functor is queued behind the others. *)
LEMMA Queued ==
    ASSUME TimerQueueInv, NEW f \in {"add", "cancel"} \X Timers, mailbox' = Append(mailbox, f)
    PROVE  /\ mailbox' \in Seq({"add", "cancel"} \X Timers)
           /\ Len(mailbox') = Len(mailbox) + 1
           /\ \A i \in 1..Len(mailbox) : mailbox'[i] = mailbox[i]
           /\ mailbox'[Len(mailbox) + 1] = f
           /\ Range(mailbox') = Range(mailbox) \union {f}
<1>1. /\ mailbox' \in Seq({"add", "cancel"} \X Timers)
      /\ Len(mailbox') = Len(mailbox) + 1
      /\ \A i \in 1..Len(mailbox) : mailbox'[i] = mailbox[i]
      /\ mailbox'[Len(mailbox) + 1] = f
      /\ Len(mailbox) \in Nat
  <2>1. mailbox \in Seq({"add", "cancel"} \X Timers)
    BY DEF TimerQueueInv, TimerInv, TypeOK
  <2> QED BY <2>1, AppendProperties, LenProperties
<1>2. /\ Range(mailbox) = {mailbox[i] : i \in 1..Len(mailbox)}
      /\ Range(mailbox') = {mailbox'[i] : i \in 1..Len(mailbox')}
  <2>1. mailbox \in Seq({"add", "cancel"} \X Timers)
    BY DEF TimerQueueInv, TimerInv, TypeOK
  <2>2. Range(mailbox) = {mailbox[i] : i \in 1..Len(mailbox)}
    BY <2>1, RangeEquality
  <2>3. Range(mailbox') = {mailbox'[i] : i \in 1..Len(mailbox')}
    BY <1>1 DEF Range
  <2> QED BY <2>2, <2>3
<1>3. 1..Len(mailbox') = 1..Len(mailbox) \union {Len(mailbox) + 1}
  BY <1>1
<1> QED BY <1>1, <1>2, <1>3

(* A functor is taken from the front; an addition is then queued no more. *)
LEMMA Taken ==
    ASSUME TimerQueueInv, due > 0, mailbox' = Tail(mailbox)
    PROVE  /\ mailbox # <<>>
           /\ Head(mailbox) = mailbox[1]
           /\ Head(mailbox) \in Range(mailbox)
           /\ mailbox' \in Seq({"add", "cancel"} \X Timers)
           /\ Len(mailbox') = Len(mailbox) - 1
           /\ due - 1 \in Nat /\ due - 1 <= Len(mailbox')
           /\ \A i \in 1..Len(mailbox') : i + 1 \in 1..Len(mailbox) /\ mailbox'[i] = mailbox[i + 1]
           /\ Range(mailbox) = Range(mailbox') \union {Head(mailbox)}
           /\ Head(mailbox)[1] = "add" => Range(mailbox') = Range(mailbox) \ {Head(mailbox)}
<1>1. /\ mailbox \in Seq({"add", "cancel"} \X Timers)
      /\ due \in Nat /\ due <= Len(mailbox)
      /\ \A i, j \in 1..Len(mailbox) :
            (mailbox[i] = mailbox[j] /\ mailbox[i][1] = "add") => i = j
  BY DEF TimerQueueInv, TimerInv, TypeOK, MailboxInv
<1>2. Len(mailbox) \in Nat /\ mailbox # <<>>
  BY <1>1, LenProperties
<1>3. Head(mailbox) = mailbox[1]
  BY <1>1, <1>2
<1>4. /\ mailbox' \in Seq({"add", "cancel"} \X Timers)
      /\ Len(mailbox') = Len(mailbox) - 1
      /\ \A i \in 1..Len(mailbox') : mailbox'[i] = mailbox[i + 1]
  BY <1>1, <1>2, HeadTailProperties
<1>5. due - 1 \in Nat /\ due - 1 <= Len(mailbox')
  BY <1>1, <1>2, <1>4
<1>6. 1 \in 1..Len(mailbox) /\ \A i \in 1..Len(mailbox') : i + 1 \in 1..Len(mailbox) /\ i + 1 # 1
  BY <1>1, <1>2, <1>4
<1>7. \A i \in 1..Len(mailbox) : i = 1 \/ (i - 1 \in 1..Len(mailbox') /\ mailbox'[i - 1] = mailbox[i])
  <2> SUFFICES ASSUME NEW i \in 1..Len(mailbox), i # 1
               PROVE  i - 1 \in 1..Len(mailbox') /\ mailbox'[i - 1] = mailbox[i]
    OBVIOUS
  <2>1. i - 1 \in 1..Len(mailbox') /\ (i - 1) + 1 = i
    BY <1>2, <1>4
  <2> QED BY <2>1, <1>4
<1>8. /\ Range(mailbox) = {mailbox[i] : i \in 1..Len(mailbox)}
      /\ Range(mailbox') = {mailbox'[i] : i \in 1..Len(mailbox')}
  <2>1. Range(mailbox) = {mailbox[i] : i \in 1..Len(mailbox)}
    BY <1>1, RangeEquality
  <2>2. DOMAIN mailbox' = 1..Len(mailbox')
    BY <1>4
  <2>3. Range(mailbox') = {mailbox'[i] : i \in 1..Len(mailbox')}
    BY <2>2 DEF Range
  <2> QED BY <2>1, <2>3
<1>9. Range(mailbox) = Range(mailbox') \union {Head(mailbox)}
  <2>1. Range(mailbox) \subseteq Range(mailbox') \union {Head(mailbox)}
    BY <1>3, <1>7, <1>8
  <2>2. Range(mailbox') \union {Head(mailbox)} \subseteq Range(mailbox)
    BY <1>3, <1>4, <1>6, <1>8
  <2> QED BY <2>1, <2>2
<1>10. ASSUME mailbox[1][1] = "add" PROVE mailbox[1] \notin Range(mailbox')
  <2> SUFFICES ASSUME NEW i \in 1..Len(mailbox'), mailbox'[i] = mailbox[1] PROVE FALSE
    BY <1>8
  <2>1. mailbox[i + 1] = mailbox[1]
    BY <1>4
  <2> QED BY <1>1, <1>6, <1>10, <2>1
<1> QED BY <1>2, <1>3, <1>4, <1>5, <1>6, <1>9, <1>10

-----------------------------------------------------------------------------
(* addTimerInLoop puts a new timer into both sets under its expiration, and *)
(* leaves the timerfd armed for the earliest. *)
LEMMA Inserted ==
    ASSUME TimerQueueInv, NEW t \in Timers, NEW when \in Nat, AddTimerInLoop(t, when),
           exp' \in [Timers -> Nat], exp'[t] = when,
           \A u \in active : exp'[u] = exp[u],
           now' = now, loc' = loc
    PROVE  /\ timers' \subseteq Nat \X Timers
           /\ active' = active \union {t}
           /\ fd' \subseteq Times
           /\ SetsAgree'
           /\ Armed'
<1> USE DEF TimerQueueInv, TimerInv
<1>1. /\ timers' = timers \union {<<when, t>>}
      /\ active' = active \union {t}
      /\ fd' = IF EarliestChanged(when) THEN ArmedFor(when) ELSE fd
  BY DEF AddTimerInLoop
<1>2. TypeOK /\ SetsAgree /\ Armed
  OBVIOUS
<1>3. timers' \subseteq Nat \X Timers
  BY <1>1, <1>2 DEF TypeOK
<1>4. fd' \subseteq Times
  BY <1>1, <1>2, ArmedTime DEF TypeOK
<1>5. SetsAgree'
  BY <1>1, <1>2 DEF SetsAgree, TypeOK
<1>6. Armed'
  <2> SUFFICES ASSUME loc # "expired"
               PROVE  \E d \in fd' : d <= now + 1 \/ \A e \in timers' : d <= e[1]
    BY DEF Armed
  <2>1. now \in Nat /\ fd \subseteq Nat /\ fd' \subseteq Nat /\ timers \subseteq Nat \X Timers
    BY <1>2, <1>4, TimeAssumption DEF TypeOK, Times
  <2>2. CASE EarliestChanged(when)
    <3>1. PICK d \in fd' : d <= now + 1 \/ d <= when
      BY <1>1, <1>2, <2>2, ArmedTime
    <3>2. ASSUME d <= when, NEW e \in timers' PROVE d <= e[1]
      BY <1>1, <2>1, <2>2, <3>1, <3>2 DEF EarliestChanged
    <3> QED BY <3>1, <3>2
  <2>3. CASE ~EarliestChanged(when)
    <3>1. PICK f \in timers : f[1] <= when
      BY <2>1, <2>3 DEF EarliestChanged
    <3>2. PICK d \in fd : d <= now + 1 \/ \A e \in timers : d <= e[1]
      BY <1>2, <3>1 DEF Armed
    <3>3. d \in fd'
      BY <1>1, <2>3, <3>2
    <3>4. ASSUME \A e \in timers : d <= e[1] PROVE \A e \in timers' : d <= e[1]
      <4>1. d <= when
        BY <2>1, <3>1, <3>2, <3>4
      <4> QED BY <1>1, <3>4, <4>1
    <3> QED BY <3>2, <3>3, <3>4
  <2> QED BY <2>2, <2>3
<1> QED BY <1>1, <1>3, <1>4, <1>5, <1>6

(* cancelInLoop takes a waiting timer out of both sets and deletes it, and  *)
(* remembers the cancel of one that has expired. *)
LEMMA Withdrawn ==
    ASSUME TimerQueueInv, NEW t \in Timers, CancelInLoop(t), obj[t] # "none",
           UNCHANGED <<now, fd, exp, loc, expired, calling>>
    PROVE  /\ timers' \subseteq timers
           /\ active' = active \ {t}
           /\ obj' \in [Timers -> {"none", "alive", "deleted"}]
           /\ obj' = [u \in Timers |-> IF u = t /\ t \in active THEN "deleted" ELSE obj[u]]
           /\ canceling' \subseteq Timers
           /\ tooEarly' \subseteq cancelled' /\ cancelled' \subseteq Timers
           /\ SetsAgree'
           /\ Armed'
           /\ \A u \in cancelled' : obj'[u] # "none"
           /\ \A u \in cancelled' \ tooEarly' :
                 u \notin active' \union InMailbox /\ (u \in expired' => u \in canceling')
<1> USE DEF TimerQueueInv, TimerInv
<1>0. /\ TypeOK /\ SetsAgree /\ Armed /\ OneOwner /\ Created /\ ReadInv /\ CancelInv
      /\ cancelled' = cancelled \union {t}
      /\ tooEarly' = IF <<"add", t>> \in Range(mailbox) THEN tooEarly \union {t}
                                                        ELSE tooEarly \ {t}
  BY DEF CancelInLoop
<1>1. /\ timers' = timers \ {<<exp[t], t>>} \/ (t \notin active /\ timers' = timers)
      /\ active' = active \ {t}
  BY DEF CancelInLoop
<1>2. obj' = [u \in Timers |-> IF u = t /\ t \in active THEN "deleted" ELSE obj[u]]
  BY <1>0 DEF CancelInLoop, TypeOK
<1>3. timers' \subseteq timers
  BY <1>1
<1>4. obj' \in [Timers -> {"none", "alive", "deleted"}]
  BY <1>0, <1>2 DEF TypeOK
<1>5. canceling' \subseteq Timers
  BY <1>0 DEF CancelInLoop, TypeOK
<1>6. tooEarly' \subseteq cancelled' /\ cancelled' \subseteq Timers
  BY <1>0 DEF TypeOK
<1>7. SetsAgree'
  BY <1>0, <1>1 DEF SetsAgree
<1>8. Armed'
  BY <1>0, <1>3 DEF Armed
<1>9. \A u \in cancelled' : obj'[u] # "none"
  <2>1. cancelled \subseteq Timers /\ \A u \in cancelled : obj[u] # "none"
    BY <1>0 DEF TypeOK, Created
  <2> QED BY <1>0, <1>2, <2>1
<1>10. ASSUME NEW u \in cancelled' \ tooEarly'
       PROVE  u \notin active' \union InMailbox /\ (u \in expired' => u \in canceling')
  <2>1. CASE u = t
    <3>1. t \notin active' /\ t \notin InMailbox
      BY <1>0, <1>1, <1>10, <2>1 DEF InMailbox
    <3>2. t \in expired => t \in canceling'
      <4> SUFFICES ASSUME t \in expired PROVE t \in canceling'
        OBVIOUS
      <4>1. t \notin active /\ calling
        BY <1>0 DEF OneOwner, ReadInv
      <4> QED BY <4>1 DEF CancelInLoop
    <3> QED BY <2>1, <3>1, <3>2
  <2>2. CASE u # t
    <3>1. u \in cancelled \ tooEarly /\ canceling \subseteq canceling'
      BY <1>0, <1>10, <2>2 DEF CancelInLoop
    <3> QED BY <1>0, <1>1, <3>1 DEF CancelInv
  <2> QED BY <2>1, <2>2
<1> QED BY <1>1, <1>2, <1>3, <1>4, <1>5, <1>6, <1>7, <1>8, <1>9, <1>10

-----------------------------------------------------------------------------
(* addTimer in the loop thread. *)
LEMMA AddHereStep ==
    ASSUME TimerQueueInv, NEW t \in Timers, NEW when \in Times, AddHere(t, when)
    PROVE  TimerQueueInv'
<1> USE DEF TimerQueueInv, TimerInv
<1>0. /\ TypeOK /\ OneOwner /\ MailboxInv /\ Created /\ ReadInv /\ CancelInv
      /\ obj[t] = "none"
      /\ obj' = [obj EXCEPT ![t] = "alive"]
      /\ exp' = [exp EXCEPT ![t] = when]
      /\ known' = known \union {t}
      /\ UNCHANGED <<now, canceling, readVars, loopVars, mailbox, adding, history>>
  BY DEF AddHere
<1>1. t \notin active /\ t \notin expired /\ t \notin InMailbox
  BY <1>0 DEF OneOwner
<1>2. /\ timers' \subseteq Nat \X Timers
      /\ active' = active \union {t}
      /\ fd' \subseteq Times
      /\ SetsAgree'
      /\ Armed'
  <2>1. when \in Nat
    BY TimeAssumption DEF Times
  <2>2. /\ exp' \in [Timers -> Nat] /\ exp'[t] = when
        /\ \A u \in active : exp'[u] = exp[u]
    BY <1>0, <1>1, <2>1 DEF TypeOK
  <2>3. AddTimerInLoop(t, when) /\ now' = now /\ loc' = loc
    BY <1>0 DEF AddHere, loopVars
  <2> QED BY <2>1, <2>2, <2>3, Inserted
<1>3. TypeOK'
  <2>1. exp' \in [Timers -> Nat]
    BY <1>0, TimeAssumption DEF TypeOK, Times
  <2> QED BY <1>0, <1>2, <2>1 DEF TypeOK, readVars, loopVars, history
<1>4. InMailbox' = InMailbox
  BY <1>0 DEF InMailbox
<1>5. OneOwner'
  <2>1. {u \in Timers : obj'[u] = "alive"} = {u \in Timers : obj[u] = "alive"} \union {t}
    BY <1>0 DEF TypeOK
  <2> QED BY <1>0, <1>1, <1>2, <1>4, <2>1 DEF OneOwner, readVars
<1>6. MailboxInv'
  BY <1>0 DEF MailboxInv, loopVars
<1>7. Created'
  <2>1. \A u : obj'[u] = "none" => obj[u] = "none"
    BY <1>0 DEF TypeOK
  <2> QED BY <1>0, <2>1 DEF Created, history, TypeOK
<1>8. ReadInv'
  BY <1>0 DEF ReadInv, readVars, loopVars
<1>9. CancelInv'
  BY <1>0, <1>2, <1>4 DEF CancelInv, Created, readVars, history
<1> QED BY <1>2, <1>3, <1>5, <1>6, <1>7, <1>8, <1>9

(* cancel in the loop thread. *)
LEMMA CancelHereStep ==
    ASSUME TimerQueueInv, NEW t \in Timers, CancelHere(t)
    PROVE  TimerQueueInv'
<1> USE DEF TimerQueueInv, TimerInv
<1>0. /\ TypeOK /\ OneOwner /\ MailboxInv /\ Created /\ ReadInv /\ CancelInv
      /\ t \in known /\ CancelInLoop(t)
      /\ UNCHANGED <<clockVars, exp, readVars, loopVars, callVars>>
  BY DEF CancelHere
<1>1. /\ timers' \subseteq timers
      /\ active' = active \ {t}
      /\ obj' \in [Timers -> {"none", "alive", "deleted"}]
      /\ obj' = [u \in Timers |-> IF u = t /\ t \in active THEN "deleted" ELSE obj[u]]
      /\ canceling' \subseteq Timers
      /\ tooEarly' \subseteq cancelled' /\ cancelled' \subseteq Timers
      /\ SetsAgree'
      /\ Armed'
      /\ \A u \in cancelled' : obj'[u] # "none"
      /\ \A u \in cancelled' \ tooEarly' :
            u \notin active' \union InMailbox /\ (u \in expired' => u \in canceling')
  <2>1. obj[t] # "none"
    BY <1>0 DEF Created
  <2> QED BY <1>0, <2>1, Withdrawn DEF clockVars, readVars, loopVars
<1>2. TypeOK'
  BY <1>0, <1>1 DEF TypeOK, clockVars, readVars, loopVars, callVars
<1>3. InMailbox' = InMailbox
  BY <1>0 DEF InMailbox, callVars
<1>4. OneOwner'
  BY <1>0, <1>1, <1>3 DEF OneOwner, TypeOK, readVars
<1>5. MailboxInv'
  BY <1>0 DEF MailboxInv, loopVars, callVars
<1>6. Created'
  <2>1. \A u \in Timers : obj[u] # "none" => obj'[u] # "none"
    BY <1>1
  <2>2. \A i \in 1..Len(mailbox) : mailbox[i][2] \in Timers
    BY <1>0 DEF TypeOK
  <2> QED BY <1>0, <1>1, <2>1, <2>2 DEF Created, callVars, TypeOK
<1>7. ReadInv'
  BY <1>0 DEF ReadInv, readVars, loopVars
<1>8. CancelInv'
  BY <1>1, <1>3 DEF CancelInv
<1> QED BY <1>1, <1>2, <1>4, <1>5, <1>6, <1>7, <1>8

(* addTimer in another thread. *)
LEMMA AddStep ==
    ASSUME TimerQueueInv, NEW thread \in Threads, NEW t \in Timers, NEW when \in Times,
           Add(thread, t, when)
    PROVE  TimerQueueInv'
<1> USE DEF TimerQueueInv, TimerInv
<1>0. /\ TypeOK /\ SetsAgree /\ OneOwner /\ Armed /\ MailboxInv /\ Created /\ ReadInv /\ CancelInv
      /\ obj[t] = "none"
      /\ obj' = [obj EXCEPT ![t] = "alive"]
      /\ exp' = [exp EXCEPT ![t] = when]
      /\ mailbox' = Append(mailbox, <<"add", t>>)
      /\ adding' = [adding EXCEPT ![thread] = t]
      /\ UNCHANGED <<clockVars, timers, active, canceling, readVars, loopVars, known, history>>
  BY DEF Add
<1>1. t \notin active /\ t \notin expired /\ t \notin InMailbox
  BY <1>0 DEF OneOwner
<1>2. /\ mailbox' \in Seq({"add", "cancel"} \X Timers)
      /\ Len(mailbox') = Len(mailbox) + 1
      /\ \A i \in 1..Len(mailbox) : mailbox'[i] = mailbox[i]
      /\ mailbox'[Len(mailbox) + 1] = <<"add", t>>
      /\ Range(mailbox') = Range(mailbox) \union {<<"add", t>>}
  BY <1>0, Queued
<1>3. TypeOK'
  <2>1. exp' \in [Timers -> Nat]
    BY <1>0, TimeAssumption DEF TypeOK, Times
  <2> QED BY <1>0, <1>2, <2>1 DEF TypeOK, clockVars, readVars, loopVars, history
<1>4. InMailbox' = InMailbox \union {t}
  BY <1>2 DEF InMailbox
<1>5. SetsAgree'
  BY <1>0, <1>1 DEF SetsAgree, TypeOK
<1>6. OneOwner'
  <2>1. {u \in Timers : obj'[u] = "alive"} = {u \in Timers : obj[u] = "alive"} \union {t}
    BY <1>0 DEF TypeOK
  <2> QED BY <1>0, <1>1, <1>4, <2>1 DEF OneOwner, readVars
<1>7. Armed'
  BY <1>0 DEF Armed, clockVars, loopVars
<1>8. MailboxInv'
  <2>1. Len(mailbox) \in Nat /\ due' = due /\ due \in Nat
    BY <1>0 DEF TypeOK, loopVars
  <2>2. due' <= Len(mailbox')
    BY <1>0, <1>2, <2>1 DEF MailboxInv
  <2>3. \A i \in 1..Len(mailbox) : mailbox[i] # <<"add", t>>
    BY <1>0, <1>1, InMailboxAt
  <2>4. \A i \in 1..Len(mailbox') : i \in 1..Len(mailbox) \/ i = Len(mailbox) + 1
    BY <1>2, <2>1
  <2>5. ASSUME NEW i \in 1..Len(mailbox'), NEW j \in 1..Len(mailbox'),
               mailbox'[i] = mailbox'[j], mailbox'[i][1] = "add"
        PROVE  i = j
    <3>1. CASE i \in 1..Len(mailbox) /\ j \in 1..Len(mailbox)
      BY <1>0, <1>2, <2>5, <3>1 DEF MailboxInv
    <3>2. CASE i = Len(mailbox) + 1 \/ j = Len(mailbox) + 1
      BY <1>2, <2>3, <2>4, <2>5, <3>2
    <3> QED BY <2>4, <3>1, <3>2
  <2> QED BY <2>2, <2>5 DEF MailboxInv
<1>9. Created'
  <2>1. \A u : obj'[u] = "none" => obj[u] = "none"
    BY <1>0 DEF TypeOK
  <2>2. \A i \in 1..Len(mailbox') : i \in 1..Len(mailbox) \/ i = Len(mailbox) + 1
    BY <1>0, <1>2 DEF TypeOK
  <2>3. obj'[t] # "none"
    BY <1>0 DEF TypeOK
  <2>4. \A i \in 1..Len(mailbox') : obj'[mailbox'[i][2]] # "none"
    BY <1>0, <1>2, <2>1, <2>2, <2>3 DEF Created
  <2>5. \A u \in known' \union cancelled' : obj'[u] # "none"
    BY <1>0, <2>1 DEF Created, history
  <2>6. \A h \in Threads : adding'[h] # NoTimer => obj'[adding'[h]] # "none"
    BY <1>0, <2>1, <2>3 DEF Created, TypeOK
  <2> QED BY <2>4, <2>5, <2>6 DEF Created
<1>10. ReadInv'
  BY <1>0 DEF ReadInv, readVars, loopVars
<1>11. CancelInv'
  BY <1>0, <1>4 DEF CancelInv, Created, readVars, history
<1> QED BY <1>3, <1>5, <1>6, <1>7, <1>8, <1>9, <1>10, <1>11

(* addTimer returns the TimerId in another thread. *)
LEMMA AddReturnStep ==
    ASSUME TimerQueueInv, NEW thread \in Threads, AddReturn(thread)
    PROVE  TimerQueueInv'
<1> USE DEF TimerQueueInv, TimerInv
<1>0. /\ TypeOK /\ SetsAgree /\ OneOwner /\ Armed /\ MailboxInv /\ Created /\ ReadInv /\ CancelInv
      /\ adding[thread] \in Timers
      /\ known' = known \union {adding[thread]}
      /\ adding' = [adding EXCEPT ![thread] = NoTimer]
      /\ UNCHANGED <<clockVars, setVars, readVars, loopVars, mailbox, history>>
  BY DEF AddReturn, TypeOK
<1>1. TypeOK'
  BY <1>0 DEF TypeOK, clockVars, setVars, readVars, loopVars, history
<1>2. SetsAgree' /\ Armed'
  BY <1>0 DEF SetsAgree, Armed, clockVars, setVars, loopVars
<1>3. InMailbox' = InMailbox
  BY <1>0 DEF InMailbox
<1>4. OneOwner' /\ CancelInv'
  BY <1>0, <1>3 DEF OneOwner, CancelInv, setVars, readVars, history
<1>5. MailboxInv' /\ ReadInv'
  BY <1>0 DEF MailboxInv, ReadInv, readVars, loopVars
<1>6. Created'
  BY <1>0, TimerAssumption DEF Created, setVars, history, TypeOK
<1> QED BY <1>1, <1>2, <1>4, <1>5, <1>6

(* cancel in another thread. *)
LEMMA CancelStep ==
    ASSUME TimerQueueInv, NEW thread \in Threads, NEW t \in Timers, Cancel(thread, t)
    PROVE  TimerQueueInv'
<1> USE DEF TimerQueueInv, TimerInv
<1>0. /\ TypeOK /\ SetsAgree /\ OneOwner /\ Armed /\ MailboxInv /\ Created /\ ReadInv /\ CancelInv
      /\ t \in known
      /\ mailbox' = Append(mailbox, <<"cancel", t>>)
      /\ UNCHANGED <<clockVars, setVars, readVars, loopVars, adding, known, history>>
  BY DEF Cancel
<1>1. /\ mailbox' \in Seq({"add", "cancel"} \X Timers)
      /\ Len(mailbox') = Len(mailbox) + 1
      /\ \A i \in 1..Len(mailbox) : mailbox'[i] = mailbox[i]
      /\ mailbox'[Len(mailbox) + 1] = <<"cancel", t>>
      /\ Range(mailbox') = Range(mailbox) \union {<<"cancel", t>>}
  BY <1>0, Queued
<1>2. \A i \in 1..Len(mailbox') : i \in 1..Len(mailbox) \/ i = Len(mailbox) + 1
  BY <1>0, <1>1 DEF TypeOK
<1>3. TypeOK'
  BY <1>0, <1>1 DEF TypeOK, clockVars, setVars, readVars, loopVars, history
<1>4. SetsAgree' /\ Armed'
  BY <1>0 DEF SetsAgree, Armed, clockVars, setVars, loopVars
<1>5. InMailbox' = InMailbox
  BY <1>1 DEF InMailbox
<1>6. OneOwner' /\ CancelInv'
  BY <1>0, <1>5 DEF OneOwner, CancelInv, setVars, readVars, history
<1>7. MailboxInv'
  <2>1. due' <= Len(mailbox')
    BY <1>0, <1>1 DEF MailboxInv, TypeOK, loopVars
  <2>2. \A i, j \in 1..Len(mailbox') :
            (mailbox'[i] = mailbox'[j] /\ mailbox'[i][1] = "add") => i = j
    BY <1>0, <1>1, <1>2 DEF MailboxInv
  <2> QED BY <2>1, <2>2 DEF MailboxInv
<1>8. Created'
  <2>1. obj' = obj /\ obj[t] # "none"
    BY <1>0 DEF Created, setVars
  <2>2. \A i \in 1..Len(mailbox') : obj'[mailbox'[i][2]] # "none"
    BY <1>0, <1>1, <1>2, <2>1 DEF Created
  <2> QED BY <1>0, <2>1, <2>2 DEF Created, history
<1>9. ReadInv'
  BY <1>0 DEF ReadInv, readVars, loopVars
<1> QED BY <1>3, <1>4, <1>6, <1>7, <1>8, <1>9

-----------------------------------------------------------------------------
(* handleRead takes the expired timers out of both sets. *)
LEMMA HandleReadStep == TimerQueueInv /\ HandleRead => TimerQueueInv'
<1> SUFFICES ASSUME TimerQueueInv, HandleRead PROVE TimerQueueInv'
  OBVIOUS
<1> USE DEF TimerQueueInv, TimerInv
<1>0. /\ TypeOK /\ SetsAgree /\ OneOwner /\ Armed /\ MailboxInv /\ Created /\ ReadInv /\ CancelInv
      /\ loc = "handle" /\ loc' = "expired" /\ fdActive' = FALSE
      /\ readAt' = now
      /\ fd' = IF Readable THEN {} ELSE fd
      /\ expired' = {t \in active : exp[t] <= now}
      /\ toRun' = expired'
      /\ timers' = {e \in timers : e[1] > now}
      /\ active' = active \ expired'
      /\ calling' = TRUE
      /\ canceling' = {}
      /\ UNCHANGED <<now, obj, exp, running, due, callVars, history>>
  BY DEF HandleRead
<1>1. expired = {}
  BY <1>0 DEF ReadInv
<1>2. TypeOK'
  BY <1>0 DEF TypeOK, callVars, history
<1>3. SetsAgree'
  <2>1. \A t \in active : exp[t] \in Nat /\ now \in Nat
    BY <1>0, TimeAssumption DEF TypeOK, Times
  <2> QED BY <1>0, <2>1 DEF SetsAgree
<1>4. InMailbox' = InMailbox
  BY <1>0 DEF InMailbox, callVars
<1>5. OneOwner' /\ CancelInv'
  BY <1>0, <1>1, <1>4 DEF OneOwner, CancelInv, history
<1>6. Armed' /\ ReadInv'
  BY <1>0 DEF Armed, ReadInv
<1>7. MailboxInv' /\ Created'
  BY <1>0 DEF MailboxInv, Created, callVars, history
<1> QED BY <1>2, <1>3, <1>5, <1>6, <1>7

(* reset puts those that repeat and are not cancelled back, deletes the     *)
(* others, and arms the timerfd for the earliest timer. *)
LEMMA ResetStep == TimerQueueInv /\ Reset => TimerQueueInv'
<1> SUFFICES ASSUME TimerQueueInv, Reset PROVE TimerQueueInv'
  OBVIOUS
<1> USE DEF TimerQueueInv, TimerInv
<1> DEFINE again == {t \in expired : Interval[t] > 0 /\ t \notin canceling}
<1>0. /\ TypeOK /\ SetsAgree /\ OneOwner /\ Armed /\ MailboxInv /\ Created /\ ReadInv /\ CancelInv
      /\ loc = "expired" /\ running = NoTimer /\ toRun = {}
      /\ calling' = FALSE
      /\ exp' = [t \in Timers |-> IF t \in again THEN readAt + Interval[t] ELSE exp[t]]
      /\ timers' = timers \union {<<exp'[t], t>> : t \in again}
      /\ active' = active \union again
      /\ obj' = [t \in Timers |-> IF t \in expired \ again THEN "deleted" ELSE obj[t]]
      /\ expired' = {}
      /\ fd' = IF timers' # {} THEN ArmedFor(Earliest(timers')) ELSE fd
      /\ loc' = "handle"
      /\ UNCHANGED <<now, canceling, toRun, running, readAt, fdActive, due, callVars, history>>
  BY DEF Reset
<1>1. again \subseteq expired /\ again \subseteq Timers /\ again \intersect canceling = {}
  BY <1>0 DEF TypeOK
<1> HIDE DEF again
<1>2. exp' \in [Timers -> Nat]
  <2>1. \A t \in Timers : exp[t] \in Nat /\ readAt + Interval[t] \in Nat
    BY <1>0, IntervalAssumption, TimeAssumption DEF TypeOK, Times
  <2> QED BY <1>0, <2>1
<1>3. timers' \subseteq Nat \X Timers
  <2>1. \A t \in again : <<exp'[t], t>> \in Nat \X Timers
    BY <1>1, <1>2
  <2>2. timers \subseteq Nat \X Timers
    BY <1>0 DEF TypeOK
  <2> QED BY <1>0, <2>1, <2>2
<1>4. ASSUME timers' # {}
      PROVE  /\ fd' \subseteq Times
             /\ \E d \in fd' : d <= now + 1 \/ \A e \in timers' : d <= e[1]
  <2>1. /\ Earliest(timers') \in Nat
        /\ \A e \in timers' : Earliest(timers') <= e[1]
    BY <1>3, <1>4, EarliestEntry
  <2>2. /\ fd' \subseteq Times
        /\ \E d \in fd' : d <= now + 1 \/ d <= Earliest(timers')
    BY <1>0, <1>4, <2>1, ArmedTime
  <2>3. \A e \in timers' : e[1] \in Nat
    BY <1>3
  <2>4. fd' \subseteq Nat
    BY <2>2, TimeAssumption DEF Times
  <2>5. PICK d \in fd' : d <= now + 1 \/ d <= Earliest(timers')
    BY <2>2
  <2>6. ASSUME d <= Earliest(timers'), NEW e \in timers' PROVE d <= e[1]
    BY <2>1, <2>3, <2>4, <2>6
  <2> QED BY <2>2, <2>5, <2>6
<1>5. obj' \in [Timers -> {"none", "alive", "deleted"}]
  BY <1>0 DEF TypeOK
<1>6. TypeOK'
  <2>1. fd' \subseteq Times
    BY <1>0, <1>4 DEF TypeOK
  <2> QED BY <1>0, <1>1, <1>2, <1>3, <1>5, <2>1 DEF TypeOK, callVars, history
<1>7. SetsAgree'
  <2>1. \A t \in active : t \in Timers /\ t \notin again
    BY <1>0, <1>1 DEF OneOwner, TypeOK
  <2>2. \A t \in active : exp'[t] = exp[t]
    BY <1>0, <2>1
  <2> QED BY <1>0, <2>2 DEF SetsAgree
<1>8. InMailbox' = InMailbox
  BY <1>0 DEF InMailbox, callVars
<1>9. OneOwner'
  <2>1. {t \in Timers : obj'[t] = "alive"} = {t \in Timers : obj[t] = "alive"} \ (expired \ again)
    BY <1>0
  <2> QED BY <1>0, <1>1, <1>8, <2>1 DEF OneOwner
<1>10. Armed'
  BY <1>0, <1>4 DEF Armed
<1>11. MailboxInv' /\ ReadInv'
  BY <1>0 DEF MailboxInv, ReadInv, callVars
<1>12. Created'
  <2>1. \A t \in Timers : obj'[t] = "none" => obj[t] = "none"
    BY <1>0
  <2>2. \A i \in 1..Len(mailbox) : mailbox[i][2] \in Timers
    BY <1>0 DEF TypeOK
  <2>3. /\ \A thread \in Threads : adding[thread] # NoTimer => adding[thread] \in Timers
        /\ known \union cancelled \subseteq Timers
    BY <1>0 DEF TypeOK
  <2> QED BY <1>0, <2>1, <2>2, <2>3 DEF Created, callVars, history
<1>13. CancelInv'
  BY <1>0, <1>1, <1>8 DEF CancelInv, history
<1> QED BY <1>6, <1>7, <1>9, <1>10, <1>11, <1>12, <1>13

(* The functor of an addTimer: the mailbox gives the timer to the sets. *)
LEMMA RunAddStep ==
    ASSUME TimerQueueInv, NEW t \in Timers, RunAdd(t)
    PROVE  TimerQueueInv'
<1> USE DEF TimerQueueInv, TimerInv
<1>0. /\ TypeOK /\ SetsAgree /\ OneOwner /\ Armed /\ MailboxInv /\ Created /\ ReadInv /\ CancelInv
      /\ loc = "functors" /\ due > 0 /\ due' = due - 1
      /\ Head(mailbox) = <<"add", t>> /\ mailbox' = Tail(mailbox)
      /\ AddTimerInLoop(t, exp[t])
      /\ UNCHANGED <<now, obj, exp, canceling, readVars, loc, fdActive, adding, known, history>>
  BY DEF RunAdd
<1>1. /\ Head(mailbox) \in Range(mailbox)
      /\ mailbox' \in Seq({"add", "cancel"} \X Timers)
      /\ due - 1 \in Nat /\ due - 1 <= Len(mailbox')
      /\ \A i \in 1..Len(mailbox') : i + 1 \in 1..Len(mailbox) /\ mailbox'[i] = mailbox[i + 1]
      /\ Head(mailbox)[1] = "add" => Range(mailbox') = Range(mailbox) \ {Head(mailbox)}
  BY <1>0, Taken
<1>2. t \in InMailbox /\ InMailbox' = InMailbox \ {t}
  <2>1. Range(mailbox') = Range(mailbox) \ {<<"add", t>>}
    BY <1>0, <1>1
  <2>2. \A u : <<"add", u>> = <<"add", t>> <=> u = t
    OBVIOUS
  <2> QED BY <1>0, <1>1, <2>1, <2>2 DEF InMailbox
<1>3. /\ timers' \subseteq Nat \X Timers
      /\ active' = active \union {t}
      /\ fd' \subseteq Times
      /\ SetsAgree'
      /\ Armed'
  <2>1. exp[t] \in Nat /\ exp' = exp /\ exp' \in [Timers -> Nat]
    BY <1>0 DEF TypeOK
  <2> QED BY <1>0, <2>1, Inserted
<1>4. TypeOK'
  BY <1>0, <1>1, <1>3 DEF TypeOK, readVars, history
<1>5. OneOwner' /\ CancelInv'
  BY <1>0, <1>2, <1>3 DEF OneOwner, CancelInv, readVars, history
<1>6. MailboxInv'
  <2>1. \A i, j \in 1..Len(mailbox') : i + 1 = j + 1 => i = j
    OBVIOUS
  <2> QED BY <1>0, <1>1, <2>1 DEF MailboxInv
<1>7. Created' /\ ReadInv'
  BY <1>0, <1>1 DEF Created, ReadInv, readVars, history
<1> QED BY <1>3, <1>4, <1>5, <1>6, <1>7

(* The functor of a cancel. *)
LEMMA RunCancelStep ==
    ASSUME TimerQueueInv, NEW t \in Timers, RunCancel(t)
    PROVE  TimerQueueInv'
<1> USE DEF TimerQueueInv, TimerInv
<1>0. /\ TypeOK /\ SetsAgree /\ OneOwner /\ Armed /\ MailboxInv /\ Created /\ ReadInv /\ CancelInv
      /\ loc = "functors" /\ due > 0 /\ due' = due - 1
      /\ Head(mailbox) = <<"cancel", t>> /\ mailbox' = Tail(mailbox)
      /\ CancelInLoop(t)
      /\ UNCHANGED <<clockVars, exp, readVars, loc, fdActive, adding, known>>
  BY DEF RunCancel
<1>1. /\ mailbox # <<>> /\ Head(mailbox) = mailbox[1]
      /\ mailbox' \in Seq({"add", "cancel"} \X Timers)
      /\ due - 1 \in Nat /\ due - 1 <= Len(mailbox')
      /\ \A i \in 1..Len(mailbox') : i + 1 \in 1..Len(mailbox) /\ mailbox'[i] = mailbox[i + 1]
      /\ Range(mailbox) = Range(mailbox') \union {Head(mailbox)}
  BY <1>0, Taken
<1>2. InMailbox' = InMailbox
  BY <1>0, <1>1 DEF InMailbox
<1>3. /\ timers' \subseteq timers
      /\ active' = active \ {t}
      /\ obj' \in [Timers -> {"none", "alive", "deleted"}]
      /\ obj' = [u \in Timers |-> IF u = t /\ t \in active THEN "deleted" ELSE obj[u]]
      /\ canceling' \subseteq Timers
      /\ tooEarly' \subseteq cancelled' /\ cancelled' \subseteq Timers
      /\ SetsAgree'
      /\ Armed'
      /\ \A u \in cancelled' : obj'[u] # "none"
      /\ \A u \in cancelled' \ tooEarly' :
            u \notin active' \union InMailbox /\ (u \in expired' => u \in canceling')
  <2>1. 1 \in 1..Len(mailbox) /\ mailbox[1][2] = t
    <3>1. Len(mailbox) \in Nat /\ Len(mailbox) # 0
      BY <1>0, <1>1 DEF TypeOK
    <3> QED BY <1>0, <1>1, <3>1
  <2>2. obj[t] # "none"
    BY <1>0, <2>1 DEF Created
  <2> QED BY <1>0, <2>2, Withdrawn DEF clockVars, readVars
<1>4. TypeOK'
  BY <1>0, <1>1, <1>3 DEF TypeOK, clockVars, readVars
<1>5. OneOwner'
  BY <1>0, <1>2, <1>3 DEF OneOwner, TypeOK, readVars
<1>6. MailboxInv'
  <2>1. \A i, j \in 1..Len(mailbox') : i + 1 = j + 1 => i = j
    OBVIOUS
  <2> QED BY <1>0, <1>1, <2>1 DEF MailboxInv
<1>7. Created'
  <2>1. \A u \in Timers : obj[u] # "none" => obj'[u] # "none"
    BY <1>3
  <2>2. \A i \in 1..Len(mailbox) : mailbox[i][2] \in Timers
    BY <1>0 DEF TypeOK
  <2>3. \A i \in 1..Len(mailbox') : obj'[mailbox'[i][2]] # "none"
    BY <1>0, <1>1, <2>1, <2>2 DEF Created
  <2> QED BY <1>0, <1>3, <2>1, <2>3 DEF Created, TypeOK
<1>8. ReadInv' /\ CancelInv'
  BY <1>0, <1>2, <1>3 DEF ReadInv, CancelInv, readVars
<1> QED BY <1>3, <1>4, <1>5, <1>6, <1>7, <1>8

(* The steps of the loop and of the clock that leave the sets alone. *)
LEMMA OtherStep ==
    ASSUME TimerQueueInv,
           \/ Poll \/ SwapFunctors \/ FunctorsDone \/ Tick \/ TimerReturn
           \/ \E t \in Timers : RunTimer(t)
           \/ UNCHANGED vars
    PROVE  TimerQueueInv'
<1> USE DEF TimerQueueInv, TimerInv
<1>0. /\ TypeOK /\ SetsAgree /\ OneOwner /\ Armed /\ MailboxInv /\ Created /\ ReadInv /\ CancelInv
      /\ UNCHANGED <<setVars, fd, callVars, history, expired, calling>>
  BY DEF Poll, SwapFunctors, FunctorsDone, Tick, TimerReturn, RunTimer, vars,
         clockVars, readVars, loopVars
<1>1. /\ now' \in Times /\ now' >= now
      /\ loc' \in {"poll", "handle", "expired", "functors"}
      /\ (loc' = "expired") <=> (loc = "expired")
      /\ due' = due \/ due' = Len(mailbox)
      /\ fdActive' \in BOOLEAN
      /\ readAt' = readAt
  <2>1. now \in Times /\ now \in Nat /\ due \in Nat
    BY <1>0, TimeAssumption DEF TypeOK, Times
  <2>2. CASE Tick
    BY <1>0, <2>1, <2>2, TimeAssumption DEF Tick, Times, TypeOK, readVars, loopVars
  <2>3. CASE Poll
    BY <1>0, <2>1, <2>3 DEF Poll, TypeOK, Readable, clockVars, readVars
  <2>4. CASE SwapFunctors \/ FunctorsDone
    BY <1>0, <2>1, <2>4 DEF SwapFunctors, FunctorsDone, TypeOK, clockVars, readVars
  <2>5. CASE TimerReturn \/ UNCHANGED vars \/ \E t \in Timers : RunTimer(t)
    BY <1>0, <2>1, <2>5 DEF TimerReturn, RunTimer, vars, TypeOK, clockVars, readVars, loopVars
  <2> QED BY <2>2, <2>3, <2>4, <2>5
<1>2. /\ toRun' \subseteq expired
      /\ running' \in expired \union {NoTimer}
      /\ loc # "expired" => running' = NoTimer
  BY <1>0 DEF Poll, SwapFunctors, FunctorsDone, Tick, TimerReturn, RunTimer, vars,
         readVars, loopVars, TypeOK, ReadInv, OneOwner
<1>3. TypeOK'
  <2>1. due' \in Nat
    BY <1>0, <1>1 DEF TypeOK
  <2> QED BY <1>0, <1>1, <1>2, <2>1 DEF TypeOK, setVars, callVars, history
<1>4. SetsAgree' /\ ReadInv' /\ Created'
  BY <1>0, <1>1, <1>2 DEF SetsAgree, ReadInv, Created, setVars, callVars, history
<1>5. InMailbox' = InMailbox
  BY <1>0 DEF InMailbox, callVars
<1>6. OneOwner' /\ CancelInv'
  BY <1>0, <1>2, <1>5 DEF OneOwner, CancelInv, setVars, history
<1>7. MailboxInv'
  BY <1>0, <1>1 DEF MailboxInv, callVars, TypeOK
<1>8. Armed'
  <2> SUFFICES ASSUME loc' # "expired", timers' # {}
               PROVE  \E d \in fd' : d <= now' + 1 \/ \A e \in timers' : d <= e[1]
    BY DEF Armed
  <2>1. now \in Nat /\ now' \in Nat /\ fd \subseteq Nat /\ fd' = fd /\ timers' = timers
    BY <1>0, <1>1, TimeAssumption DEF TypeOK, Times, setVars
  <2>2. PICK d \in fd : d <= now + 1 \/ \A e \in timers : d <= e[1]
    BY <1>0, <1>1, <2>1 DEF Armed
  <2>3. d <= now + 1 => d <= now' + 1
    <3>1. d \in Nat
      BY <2>1, <2>2
    <3>2. \A a, b \in Nat : (b >= a /\ d <= a + 1) => d <= b + 1
      BY <3>1
    <3> QED BY <1>1, <2>1, <3>2
  <2>4. d \in fd' /\ (d <= now' + 1 \/ \A e \in timers' : d <= e[1])
    BY <2>1, <2>2, <2>3
  <2> QED BY <2>4
<1> QED BY <1>3, <1>4, <1>6, <1>7, <1>8

-----------------------------------------------------------------------------
(* Nothing exists at the start. *)
LEMMA QueueInit == Init => TimerQueueInv
<1> SUFFICES ASSUME Init PROVE TimerQueueInv
  OBVIOUS
<1> USE DEF Init
<1>1. TypeOK
  <2>1. mailbox \in Seq({"add", "cancel"} \X Timers)
    BY EmptySeq
  <2>2. 0 \in Times
    BY TimeAssumption DEF Times
  <2> QED BY <2>1, <2>2 DEF TypeOK
<1>2. SetsAgree /\ Armed /\ ReadInv
  BY DEF SetsAgree, Armed, ReadInv
<1>3. InMailbox = {}
  BY <1>1, InMailboxAt
<1>4. OneOwner /\ CancelInv
  BY <1>3 DEF OneOwner, CancelInv
<1>5. MailboxInv /\ Created
  BY DEF MailboxInv, Created
<1> QED BY <1>1, <1>2, <1>4, <1>5 DEF TimerQueueInv, TimerInv

(* Every step keeps the invariant. *)
LEMMA QueueStep == TimerQueueInv /\ [Next]_vars => TimerQueueInv'
<1> SUFFICES ASSUME TimerQueueInv, [Next]_vars PROVE TimerQueueInv'
  OBVIOUS
<1>1. CASE Call
  BY <1>1, AddHereStep, CancelHereStep, AddStep, CancelStep DEF Call
<1>2. CASE \E thread \in Threads : AddReturn(thread)
  BY <1>2, AddReturnStep
<1>3. CASE Iterate
  BY <1>3, HandleReadStep, ResetStep, RunAddStep, RunCancelStep, OtherStep DEF Iterate
<1>4. CASE Poll \/ Tick \/ UNCHANGED vars
  BY <1>4, OtherStep
<1> QED BY <1>1, <1>2, <1>3, <1>4 DEF Next

(* The inductive invariant. *)
THEOREM Invariance == Spec => []TimerQueueInv
BY QueueInit, QueueStep, PTL DEF Spec

(* No timer is forgotten: timers_ and activeTimers_ hold the same timers, a *)
(* Timer that exists has exactly one owner, and the timerfd fires no later  *)
(* than the earliest timer (TimerQueue.cc:161-306). *)
THEOREM TimersKept == Spec => []TimerInv
<1>1. TimerQueueInv => TimerInv
  BY DEF TimerQueueInv
<1> QED BY <1>1, Invariance, PTL

(* A timer cancelled after its insertion is never inserted again, whatever  *)
(* is in the mailbox or being called back (TimerQueue.cc:165-181, 245-258). *)
THEOREM CancelSticks == Spec => []CancelIsFinal
<1>1. TimerQueueInv => CancelIsFinal
  BY DEF TimerQueueInv, CancelInv, CancelIsFinal
<1> QED BY <1>1, Invariance, PTL
=============================================================================
