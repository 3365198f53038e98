--------------------------- MODULE TcpClient_proofs ---------------------------
(***************************************************************************)
(* TcpClient and its Connector, for any programs, threads and back-off:    *)
(* there is one attempt or connection at a time, and one as long as it is  *)
(* wanted; a stop that was executed is final, and a client that was        *)
(* destroyed is not called back.                                           *)
(***************************************************************************)
EXTENDS TcpClient, FiniteSetTheorems, TLAPS

(* A functor is not queued, or queued once.                                 *)
Absent(queue, f) == \A i \in DOMAIN queue : queue[i] # f
Once(queue, f) ==
    \E i \in DOMAIN queue :
        queue[i] = f /\ \A j \in DOMAIN queue : queue[j] = f => j = i

(* Where the attempt may be: a start that is called, or queued; a timer; a  *)
(* channel that is connecting; a connection; or there is none.              *)
NoCaller == \A t \in Threads : calls[t] # "start"
OneCaller ==
    \E t \in Threads :
        /\ calls[t] = "start"
        /\ \A u \in Threads : calls[u] = "start" => u = t

Unstarted == Absent(mail, "start") /\ NoCaller

Nowhere ==
    Unstarted /\ timers = 0 /\ state # "kConnecting" /\ conn = "none"
Called ==
    /\ OneCaller /\ Absent(mail, "start")
    /\ timers = 0 /\ state = "kDisconnected" /\ conn = "none" /\ channel = "none"
Mailed ==
    /\ NoCaller /\ Once(mail, "start")
    /\ timers = 0 /\ state = "kDisconnected" /\ conn = "none" /\ channel = "none"
Retrying ==
    Unstarted /\ timers = 1 /\ state = "kDisconnected" /\ conn = "none"
Attempting ==
    Unstarted /\ timers = 0 /\ state = "kConnecting" /\ conn = "none"
Connected ==
    Unstarted /\ timers = 0 /\ state = "kConnected" /\ conn # "none"

Places == Nowhere \/ Called \/ Mailed \/ Retrying \/ Attempting \/ Connected

(* The reset of a channel that was removed is queued, once, and no other.   *)
ResetQueued == IF channel = "off" THEN Once(mail, "reset") ELSE Absent(mail, "reset")

(* As long as it is wanted there is one. *)
Underway ==
    (client = "alive" /\ connect /\ state = "kDisconnected" /\ ~gaveUp) => ~Nowhere

(* Nothing has happened before connect is called. *)
StopUnderway ==
    \/ ~Absent(mail, "stop")
    \/ \E t \in Threads : calls[t] = "stop"

Fresh == ~asked =>
    /\ Nowhere /\ state = "kDisconnected" /\ channel = "none" /\ ~connect
    /\ client = "alive" => ~StopUnderway /\ ~stopped

(* What is left when the client is destroyed. *)
Orphaned == client = "destroyed" =>
    /\ \A t \in Threads : calls[t] = "none"
    /\ conn # "none" => closeTo = "nobody" /\ conn # "closed"
    /\ connect => Nowhere \/ Connected

PassInv ==
    /\ ready # {} => polled
    /\ conn = "closed" => setup.retry

(* Once stop has been called nothing sets connect_ again. *)
StopInv == (StopUnderway \/ stopped) =>
    /\ ~connect
    /\ conn # "closed"
    /\ conn # "none" => ~wanted \/ ~setup.retry \/ closeTo = "nobody"
    /\ stopped => state # "kConnecting"

(* A channel that was removed is reset before the next poll, hence before   *)
(* a timer or functor connects again; only stop removes one after the poll, *)
(* when nothing is to be connected.                                         *)
ResetDue == \E i \in 1..due : mail[i] = "reset"
ResetInv ==
    /\ (~polled /\ channel = "off" /\ (connect \/ conn # "none")) => ResetDue
    /\ (polled /\ armed > 0) => channel = "none" \/ ~connect

LifeInv ==
    ChannelAgrees /\ Places /\ ResetQueued /\ Underway /\ Fresh /\ Orphaned /\ PassInv
OrderInv == Ordered => StopInv /\ ResetInv

ClientInv == TypeOK /\ LifeInv /\ OrderInv
-----------------------------------------------------------------------------
(* What appending a functor and taking the first one do to the others.      *)
Keeps(q, r, f) ==
    /\ Absent(q, f) <=> Absent(r, f)
    /\ Once(q, f) => Once(r, f)

(* A queue that got one more functor. *)
LEMMA Appended ==
    ASSUME NEW q \in Seq(Functors), NEW g \in Functors
    PROVE  /\ Append(q, g) \in Seq(Functors) /\ Len(Append(q, g)) = Len(q) + 1
           /\ \A i \in 1..Len(q) : Append(q, g)[i] = q[i]
           /\ \A f : f # g => Keeps(q, Append(q, g), f)
           /\ Absent(q, g) => Once(Append(q, g), g)
<1>1. Len(q) \in Nat /\ DOMAIN q = 1..Len(q)
  OBVIOUS
<1>2. /\ Append(q, g) \in Seq(Functors) /\ Len(Append(q, g)) = Len(q) + 1
      /\ DOMAIN Append(q, g) = 1..(Len(q) + 1)
      /\ Append(q, g)[Len(q) + 1] = g
      /\ \A i \in 1..Len(q) : Append(q, g)[i] = q[i]
  OBVIOUS
<1>3. 1..(Len(q) + 1) = 1..Len(q) \union {Len(q) + 1}
  BY <1>1
<1>4. ASSUME NEW f, f # g PROVE Keeps(q, Append(q, g), f)
  <2>1. Absent(q, f) <=> Absent(Append(q, g), f)
    BY <1>1, <1>2, <1>3, <1>4 DEF Absent
  <2>2. ASSUME Once(q, f) PROVE Once(Append(q, g), f)
    <3>1. PICK i \in DOMAIN q : q[i] = f /\ \A j \in DOMAIN q : q[j] = f => j = i
      BY <2>2 DEF Once
    <3>2. /\ i \in DOMAIN Append(q, g) /\ Append(q, g)[i] = f
          /\ \A j \in DOMAIN Append(q, g) : Append(q, g)[j] = f => j = i
      BY <1>1, <1>2, <1>3, <1>4, <3>1
    <3> QED BY <3>2 DEF Once
  <2> QED BY <2>1, <2>2 DEF Keeps
<1>5. ASSUME Absent(q, g) PROVE Once(Append(q, g), g)
  <2> DEFINE n == Len(q) + 1
  <2>1. /\ n \in DOMAIN Append(q, g) /\ Append(q, g)[n] = g
        /\ \A j \in DOMAIN Append(q, g) : Append(q, g)[j] = g => j = n
    BY <1>1, <1>2, <1>3, <1>5 DEF Absent
  <2> QED BY <2>1 DEF Once
<1> QED BY <1>2, <1>4, <1>5

(* A queue without its first functor. *)
LEMMA Removed ==
    ASSUME NEW q \in Seq(Functors), q # <<>>
    PROVE  /\ Tail(q) \in Seq(Functors) /\ Len(Tail(q)) = Len(q) - 1 /\ Len(q) >= 1
           /\ \A i \in 1..(Len(q) - 1) : Tail(q)[i] = q[i + 1]
           /\ q[1] = Head(q)
           /\ \A f : f # Head(q) => Keeps(q, Tail(q), f)
           /\ ~Absent(q, Head(q))
           /\ Once(q, Head(q)) => Absent(Tail(q), Head(q))
<1>1. /\ Len(q) \in Nat /\ Len(q) >= 1 /\ DOMAIN q = 1..Len(q) /\ Head(q) = q[1]
      /\ Tail(q) \in Seq(Functors) /\ Len(Tail(q)) = Len(q) - 1
      /\ DOMAIN Tail(q) = 1..(Len(q) - 1)
      /\ \A i \in 1..(Len(q) - 1) : Tail(q)[i] = q[i + 1]
  OBVIOUS
<1>2. \A i \in 1..(Len(q) - 1) : i + 1 \in 1..Len(q) /\ i + 1 # 1 /\ i \in Nat
  BY <1>1
<1>3. \A i \in 1..Len(q) : i # 1 => i - 1 \in 1..(Len(q) - 1) /\ (i - 1) + 1 = i
  BY <1>1
<1>4. ASSUME NEW f, f # Head(q) PROVE Keeps(q, Tail(q), f)
  <2>1. ASSUME Absent(q, f) PROVE Absent(Tail(q), f)
    BY <1>1, <1>2, <2>1 DEF Absent
  <2>2. ASSUME NEW i \in 1..Len(q), q[i] = f
        PROVE  i - 1 \in 1..(Len(q) - 1) /\ Tail(q)[i - 1] = f
    BY <1>1, <1>3, <1>4, <2>2
  <2>3. ~Absent(q, f) => ~Absent(Tail(q), f)
    BY <1>1, <2>2 DEF Absent
  <2>4. ASSUME Once(q, f) PROVE Once(Tail(q), f)
    <3>1. PICK i \in 1..Len(q) : q[i] = f /\ \A j \in 1..Len(q) : q[j] = f => j = i
      BY <1>1, <2>4 DEF Once
    <3>2. i - 1 \in 1..(Len(q) - 1) /\ Tail(q)[i - 1] = f
      BY <2>2, <3>1
    <3>3. ASSUME NEW j \in 1..(Len(q) - 1), Tail(q)[j] = f PROVE j = i - 1
      <4>1. q[j + 1] = f /\ j + 1 \in 1..Len(q) /\ j \in Nat
        BY <1>1, <1>2, <3>3
      <4>2. j + 1 = i
        BY <3>1, <4>1
      <4> QED BY <4>1, <4>2
    <3> QED BY <1>1, <3>2, <3>3 DEF Once
  <2> QED BY <2>1, <2>3, <2>4 DEF Keeps
<1>5. ~Absent(q, Head(q))
  BY <1>1 DEF Absent
<1>6. ASSUME Once(q, Head(q)) PROVE Absent(Tail(q), Head(q))
  <2>1. PICK i \in 1..Len(q) :
            q[i] = Head(q) /\ \A j \in 1..Len(q) : q[j] = Head(q) => j = i
    BY <1>1, <1>6 DEF Once
  <2>2. i = 1
    BY <1>1, <2>1
  <2>3. ASSUME NEW j \in 1..(Len(q) - 1) PROVE Tail(q)[j] # Head(q)
    BY <1>1, <1>2, <2>1, <2>2
  <2> QED BY <1>1, <2>3 DEF Absent
<1> QED BY <1>1, <1>4, <1>5, <1>6

(* A functor is run: the first of the pass.                                 *)
LEMMA FunctorTaken ==
    ASSUME TypeOK, NEW f, AtFront(f)
    PROVE  /\ mail \in Seq(Functors) /\ mail # <<>> /\ f = Head(mail)
           /\ f \in Functors
           /\ Tail(mail) \in Seq(Functors)
           /\ due - 1 \in 0..Len(Tail(mail))
           /\ Len(mail) \in Nat
<1>1. mail \in Seq(Functors) /\ due \in 0..Len(mail) /\ due > 0 /\ f = Head(mail)
  BY DEF TypeOK, ConnectorTypeOK, AtFront
<1>2. Len(mail) \in Nat /\ mail # <<>>
  BY <1>1
<1>3. Len(Tail(mail)) = Len(mail) - 1 /\ Tail(mail) \in Seq(Functors)
  BY <1>1, <1>2, Removed
<1>4. Head(mail) \in Functors
  BY <1>1, <1>2
<1> QED BY <1>1, <1>2, <1>3, <1>4

(* The reset that is due stays due when another functor is run or queued.   *)
LEMMA ResetStaysDue ==
    ASSUME TypeOK, ResetDue
    PROVE  /\ \A f : (AtFront(f) /\ f # "reset" /\ mail' = Tail(mail) /\ due' = due - 1)
                        => ResetDue'
           /\ \A f \in Functors : (mail' = Append(mail, f) /\ due' = due) => ResetDue'
<1>1. PICK i \in 1..due : mail[i] = "reset"
  BY DEF ResetDue
<1>2. mail \in Seq(Functors) /\ due \in 0..Len(mail) /\ Len(mail) \in Nat
  BY DEF TypeOK, ConnectorTypeOK
<1>3. ASSUME NEW f, AtFront(f), f # "reset", mail' = Tail(mail), due' = due - 1
      PROVE  ResetDue'
  <2>1. mail # <<>> /\ Head(mail) # "reset"
    BY <1>3, FunctorTaken
  <2>2. i # 1
    BY <1>1, <1>2, <2>1, Removed
  <2>3. i - 1 \in 1..(due - 1) /\ i - 1 \in 1..(Len(mail) - 1) /\ (i - 1) + 1 = i
    BY <1>2, <2>2
  <2>4. Tail(mail)[i - 1] = "reset"
    BY <1>1, <1>2, <2>1, <2>3, Removed
  <2> QED BY <1>3, <2>3, <2>4 DEF ResetDue
<1>4. ASSUME NEW f \in Functors, mail' = Append(mail, f), due' = due PROVE ResetDue'
  <2>1. mail'[i] = "reset"
    BY <1>1, <1>2, <1>4, Appended
  <2> QED BY <1>4, <2>1 DEF ResetDue
<1> QED BY <1>3, <1>4

-----------------------------------------------------------------------------
(* The parts of the handlers keep the types. *)
ConnectionType ==
    /\ state \in {"kDisconnected", "kConnecting", "kConnected"}
    /\ channel \in {"none", "on", "off"} /\ sockets \in Nat /\ gaveUp \in BOOLEAN
    /\ delay \in 1..MaxDelay /\ timers \in Nat

(* The back-off stays within its bound. *)
LEMMA BackoffType ==
    ASSUME NEW pending \in Nat, NEW wait \in 1..MaxDelay, Backoff(pending, wait)
    PROVE  delay' \in 1..MaxDelay /\ timers' \in Nat
<1> USE DelayAssumption
<1>1. 2 * wait \in Nat \ {0}
  OBVIOUS
<1>2. CASE 2 * wait < MaxDelay
  BY <1>1, <1>2 DEF Backoff
<1>3. CASE ~(2 * wait < MaxDelay)
  BY <1>3 DEF Backoff
<1> QED BY <1>2, <1>3

(* So does an attempt, whatever connect(2) returns, *)
LEMMA ConnectType ==
    ASSUME TypeOK, NEW pending \in Nat, NEW wait \in 1..MaxDelay, Connect(pending, wait)
    PROVE  ConnectionType' /\ (timers' = pending \/ timers' = pending + 1)
<1> USE DEF ConnectionType, TypeOK, ConnectorTypeOK
<1>1. CASE Connecting /\ timers' = pending /\ delay' = wait /\ gaveUp' = FALSE
  <2>1. /\ state' = "kConnecting" /\ channel' = "on" /\ sockets' = sockets + 1
        /\ sockets \in Nat
    BY <1>1 DEF Connecting
  <2>2. sockets' \in Nat
    BY <2>1
  <2>3. delay' \in 1..MaxDelay /\ timers' \in Nat /\ timers' = pending
    BY <1>1
  <2>4. gaveUp' \in BOOLEAN
    BY <1>1
  <2> QED BY <2>1, <2>2, <2>3, <2>4
<1>2. CASE /\ Backoff(pending, wait) /\ state' = "kDisconnected" /\ gaveUp' = FALSE
           /\ UNCHANGED <<channel, sockets>>
  <2>1. timers' = pending + 1
    BY <1>2 DEF Backoff
  <2> QED BY <1>2, <2>1, BackoffType
<1>3. CASE /\ timers' = pending /\ delay' = wait
           /\ state' = "kDisconnected" /\ gaveUp' = TRUE
           /\ UNCHANGED <<channel, sockets>>
  BY <1>3
<1> QED BY <1>1, <1>2, <1>3 DEF Connect

(* a start, *)
LEMMA StartType ==
    ASSUME TypeOK, NEW pending \in Nat, StartInLoop(pending)
    PROVE  ConnectionType' /\ (timers' = pending \/ timers' = pending + 1)
<1>1. delay \in 1..MaxDelay
  BY DEF TypeOK, ConnectorTypeOK
<1>2. CASE connect
  <2>1. Connect(pending, delay)
    BY <1>2 DEF StartInLoop
  <2> QED BY <1>1, <2>1, ConnectType
<1>3. CASE ~connect
  BY <1>1, <1>3 DEF StartInLoop, connectionVars, ConnectionType, TypeOK, ConnectorTypeOK
<1> QED BY <1>2, <1>3

(* and the end of one that failed, whose socket is closed.                  *)
LEMMA RetryType ==
    ASSUME TypeOK, ChannelAgrees, state = "kConnecting", Retry,
           NEW q \in Seq(Functors), RemoveAndResetChannel(q), gaveUp' = gaveUp
    PROVE  /\ ConnectionType' /\ timers' >= timers
           /\ mail' = Append(q, "reset") /\ mail' \in Seq(Functors)
           /\ Len(mail') = Len(q) + 1
<1> USE DEF ConnectionType, TypeOK, ConnectorTypeOK
<1>1. sockets = 1 /\ sockets' = 0 /\ state' = "kDisconnected"
  BY DEF Retry, ChannelAgrees
<1>2. channel' = "off" /\ mail' = Append(q, "reset")
  BY DEF RemoveAndResetChannel
<1>3. "reset" \in Functors
  BY DEF Functors
<1>4. delay' \in 1..MaxDelay /\ timers' \in Nat /\ timers' >= timers
  <2>1. CASE connect
    <3>1. Backoff(timers, delay)
      BY <2>1 DEF Retry
    <3>2. timers' = timers + 1
      BY <3>1 DEF Backoff
    <3> QED BY <3>1, <3>2, BackoffType
  <2>2. CASE ~connect
    BY <2>2 DEF Retry, retryVars
  <2> QED BY <2>1, <2>2
<1> QED BY <1>1, <1>2, <1>3, <1>4, Appended

(* Every step keeps the types. *)
LEMMA TypeStep ==
    ASSUME TypeOK, ChannelAgrees, [Next]_vars
    PROVE  TypeOK'
<1>0. /\ mail \in Seq(Functors) /\ Len(mail) \in Nat /\ due \in 0..Len(mail)
      /\ timers \in Nat /\ armed \in 0..timers /\ delay \in 1..MaxDelay
      /\ ConnectionType
  BY DEF TypeOK, ConnectorTypeOK, ConnectionType
<1>1. TypeOK' <=>
        /\ connect' \in BOOLEAN /\ ConnectionType' /\ armed' \in 0..timers'
        /\ ready' \subseteq {"OUT", "ERR"} /\ polled' \in BOOLEAN
        /\ due' \in 0..Len(mail')
        /\ calls' \in [Threads -> {"none", "start", "stop"}]
        /\ mail' \in Seq(Functors) /\ setup' \in Setups
        /\ client' \in {"alive", "destroyed"} /\ wanted' \in BOOLEAN
        /\ conn' \in {"none", "open", "shut", "closing", "closed"}
        /\ closeTo' \in {"client", "nobody"}
        /\ keeper' \in BOOLEAN /\ asked' \in BOOLEAN /\ stopped' \in BOOLEAN
  BY DEF TypeOK, ConnectorTypeOK, ConnectionType
<1>2. "reset" \in Functors /\ "stop" \in Functors /\ "start" \in Functors
      /\ "destroy" \in Functors /\ "forceClose" \in Functors
  BY DEF Functors
<1>3. ASSUME NEW f \in Functors, mail' = Append(mail, f), due' = due
      PROVE  mail' \in Seq(Functors) /\ due' \in 0..Len(mail')
  <2>1. mail' \in Seq(Functors) /\ Len(mail') = Len(mail) + 1
    BY <1>0, <1>3, Appended
  <2> QED BY <1>0, <1>3, <2>1
<1>4. UNCHANGED connectionVars /\ UNCHANGED retryVars => ConnectionType'
  BY <1>0 DEF ConnectionType, connectionVars, retryVars
<1> USE DEF TypeOK, ConnectorTypeOK
<1> HIDE DEF ConnectionType
<1>5. CASE LoopStep
  <2>1. CASE Swap
    <3>1. due' \in 0..Len(mail')
      BY <1>0, <2>1 DEF Swap
    <3> QED BY <1>0, <1>1, <1>4, <1>5, <2>1, <3>1
            DEF LoopStep, Swap, clientVars, history, connectionVars, retryVars
  <2>2. ASSUME NEW events \in SUBSET {"OUT", "ERR"}, Poll(events) PROVE TypeOK'
    <3>1. armed' \in 0..timers'
      BY <1>0, <2>2 DEF Poll, retryVars
    <3> QED BY <1>0, <1>1, <1>4, <1>5, <2>2, <3>1
            DEF LoopStep, Poll, clientVars, history, connectionVars, retryVars
  <2> QED BY <1>5, <2>1, <2>2 DEF LoopStep
<1>6. CASE ConnectorStep
  <2>0. UNCHANGED <<setup, client, wanted, conn, closeTo, keeper, asked, stopped>>
    BY <1>6 DEF ConnectorStep, clientVars, history
  <2>1. CASE TimerFires
    <3>1. timers - 1 \in Nat /\ armed - 1 \in 0..(timers - 1)
      BY <1>0, <2>1 DEF TimerFires
    <3>2. ConnectionType' /\ (timers' = timers - 1 \/ timers' = (timers - 1) + 1)
      BY <2>1, <3>1, StartType DEF TimerFires
    <3>3. armed' \in 0..timers'
      BY <1>0, <2>1, <3>1, <3>2 DEF TimerFires
    <3> QED BY <1>0, <1>1, <2>0, <2>1, <3>2, <3>3 DEF TimerFires
  <2>2. CASE StartFunctor
    <3>1. AtFront("start") /\ StartInLoop(timers)
      BY <2>2 DEF StartFunctor
    <3>2. ConnectionType' /\ (timers' = timers \/ timers' = timers + 1)
      BY <1>0, <3>1, StartType
    <3>3. armed' \in 0..timers'
      BY <1>0, <2>2, <3>2 DEF StartFunctor
    <3>4. mail' \in Seq(Functors) /\ due' \in 0..Len(mail')
      BY <2>2, <3>1, FunctorTaken DEF StartFunctor
    <3> QED BY <1>0, <1>1, <2>0, <2>2, <3>2, <3>3, <3>4 DEF StartFunctor
  <2>3. CASE ResetFunctor
    <3>1. AtFront("reset")
      BY <2>3 DEF ResetFunctor
    <3>2. ConnectionType' /\ armed' \in 0..timers'
      BY <1>0, <2>3 DEF ResetFunctor, ConnectionType, retryVars
    <3>3. mail' \in Seq(Functors) /\ due' \in 0..Len(mail')
      BY <2>3, <3>1, FunctorTaken DEF ResetFunctor
    <3> QED BY <1>0, <1>1, <2>0, <2>3, <3>2, <3>3 DEF ResetFunctor
  <2>4. ASSUME state = "kConnecting", Retry, RemoveAndResetChannel(mail),
               UNCHANGED <<connect, gaveUp, armed, polled, due, calls>>,
               ready' \subseteq ready
        PROVE  TypeOK'
    <3>1. /\ ConnectionType' /\ timers' >= timers /\ mail' \in Seq(Functors)
          /\ Len(mail') = Len(mail) + 1
      BY <1>0, <2>4, RetryType
    <3>2. armed' \in 0..timers' /\ due' \in 0..Len(mail')
      <4>1. timers' \in Nat
        BY <3>1 DEF ConnectionType
      <4> QED BY <1>0, <2>4, <3>1, <4>1
    <3> QED BY <1>0, <1>1, <2>0, <2>4, <3>1, <3>2
  <2>5. CASE HandleError
    <3>1. CASE state = "kConnecting"
      BY <2>4, <2>5, <3>1 DEF HandleError
    <3>2. CASE state # "kConnecting"
      <4>1. UNCHANGED connectionVars /\ UNCHANGED retryVars
        BY <2>5, <3>2 DEF HandleError, connectionVars
      <4> QED BY <1>0, <1>1, <1>4, <2>0, <2>5, <3>2, <4>1 DEF HandleError, retryVars
    <3> QED BY <3>1, <3>2
  <2>6. CASE HandleWriteLate
    BY <1>0, <1>1, <1>4, <2>0, <2>6 DEF HandleWriteLate, retryVars
  <2>7. CASE HandleWriteFailed
    BY <2>4, <2>7 DEF HandleWriteFailed
  <2> QED BY <1>6, <2>1, <2>2, <2>3, <2>5, <2>6, <2>7 DEF ConnectorStep
<1>7. CASE StopStep
  <2>0. UNCHANGED <<setup, client, wanted, conn, closeTo, keeper, asked>> /\ stopped' = TRUE
    BY <1>7 DEF StopStep, clientVars
  <2>1. StopFunctor /\ AtFront("stop")
    BY <1>7 DEF StopStep, StopFunctor
  <2>2. /\ Tail(mail) \in Seq(Functors) /\ due - 1 \in 0..Len(Tail(mail))
        /\ Len(Tail(mail)) \in Nat
    BY <2>1, FunctorTaken
  <2>3. CASE state = "kConnecting"
    <3>1. RemoveAndResetChannel(Tail(mail)) /\ Retry /\ gaveUp' = gaveUp
      BY <2>1, <2>3 DEF StopFunctor
    <3>2. /\ ConnectionType' /\ timers' >= timers /\ mail' \in Seq(Functors)
          /\ Len(mail') = Len(Tail(mail)) + 1
      BY <2>2, <2>3, <3>1, RetryType
    <3>3. armed' \in 0..timers'
      <4>1. timers' \in Nat
        BY <3>2 DEF ConnectionType
      <4> QED BY <1>0, <2>1, <3>2, <4>1 DEF StopFunctor
    <3>4. due' \in 0..Len(mail')
      BY <2>1, <2>2, <3>2 DEF StopFunctor
    <3> QED BY <1>0, <1>1, <2>0, <2>1, <3>2, <3>3, <3>4 DEF StopFunctor
  <2>4. CASE state # "kConnecting"
    <3>1. UNCHANGED connectionVars /\ UNCHANGED retryVars /\ mail' = Tail(mail)
      BY <2>1, <2>4 DEF StopFunctor, connectionVars
    <3> QED BY <1>0, <1>1, <1>4, <2>0, <2>1, <2>2, <3>1 DEF StopFunctor, retryVars
  <2> QED BY <2>3, <2>4
<1>8. CASE NewConnection
  <2>0. /\ UNCHANGED <<setup, client, wanted, closeTo, keeper, asked, stopped>>
        /\ HandleWriteDone /\ conn' \in {"none", "open", "shut", "closing", "closed"}
    BY <1>8 DEF NewConnection, history
  <2>1. /\ channel' = "off" /\ mail' = Append(mail, "reset") /\ state' = "kConnected"
        /\ due' = due
    BY <2>0 DEF HandleWriteDone, RemoveAndResetChannel
  <2>2. sockets' \in Nat
    BY <2>0 DEF HandleWriteDone, ChannelAgrees
  <2>3. ConnectionType' /\ armed' \in 0..timers'
    BY <1>0, <2>0, <2>1, <2>2 DEF HandleWriteDone, retryVars, ConnectionType
  <2>4. mail' \in Seq(Functors) /\ due' \in 0..Len(mail')
    BY <1>2, <1>3, <2>1
  <2> QED BY <1>0, <1>1, <2>0, <2>1, <2>3, <2>4 DEF HandleWriteDone
<1>9. CASE ConnectionEnds
  BY <1>0, <1>1, <1>4, <1>9
     DEF ConnectionEnds, connectorVars, retryVars, passVars, history
<1>10. CASE ForceCloseFunctor \/ DestroyFunctor
  <2>1. PICK f : AtFront(f)
    BY <1>10 DEF ForceCloseFunctor, DestroyFunctor
  <2>2. mail' \in Seq(Functors) /\ due' \in 0..Len(mail')
    BY <1>10, <2>1, FunctorTaken DEF ForceCloseFunctor, DestroyFunctor
  <2>3. ConnectionType' /\ armed' \in 0..timers'
    BY <1>0, <1>4, <1>10 DEF ForceCloseFunctor, DestroyFunctor, retryVars
  <2>4. CASE ForceCloseFunctor
    BY <1>0, <1>1, <2>2, <2>3, <2>4 DEF ForceCloseFunctor, history
  <2>5. CASE DestroyFunctor
    BY <1>0, <1>1, <2>2, <2>3, <2>5 DEF DestroyFunctor, history, clientVars
  <2> QED BY <1>10, <2>4, <2>5
<1>11. CASE CloseCallback
  <2>1. mail' \in Seq(Functors) /\ due' \in 0..Len(mail')
    BY <1>2, <1>3, <1>11 DEF CloseCallback, passVars
  <2>2. ConnectionType' /\ armed' \in 0..timers'
    BY <1>0, <1>4, <1>11 DEF CloseCallback, retryVars, passVars
  <2> QED BY <1>0, <1>1, <1>11, <2>1, <2>2 DEF CloseCallback, passVars, history
<1>12. CASE RestartStep
  <2>1. Connect(timers, 1) /\ 1 \in 1..MaxDelay
    BY <1>12, DelayAssumption DEF RestartStep, Restart
  <2>2. ConnectionType' /\ (timers' = timers \/ timers' = timers + 1)
    BY <1>0, <2>1, ConnectType
  <2>3. armed' \in 0..timers' /\ due' \in 0..Len(mail')
    BY <1>0, <1>12, <2>2 DEF RestartStep, Restart, passVars
  <2> QED BY <1>0, <1>1, <1>12, <2>2, <2>3 DEF RestartStep, Restart, passVars, history
<1>13. CASE KeeperFires
  BY <1>0, <1>1, <1>4, <1>13
     DEF KeeperFires, connectorVars, retryVars, passVars, history
<1>14. ASSUME NEW call, LoopCall(call) PROVE TypeOK'
  <2>1. CASE LoopConnect
    <3>1. Connect(timers, delay)
      BY <2>1 DEF LoopConnect, StartHere
    <3>2. ConnectionType' /\ (timers' = timers \/ timers' = timers + 1)
      BY <1>0, <3>1, ConnectType
    <3>3. armed' \in 0..timers' /\ due' \in 0..Len(mail')
      BY <1>0, <2>1, <3>2 DEF LoopConnect, StartHere, passVars
    <3> QED BY <1>0, <1>1, <2>1, <3>2, <3>3 DEF LoopConnect, StartHere, passVars
  <2>2. CASE LoopDisconnect
    BY <1>0, <1>1, <1>4, <2>2
       DEF LoopDisconnect, ShutDown, connectorVars, retryVars, passVars, history
  <2>3. ASSUME StopHere
        PROVE  /\ mail' \in Seq(Functors) /\ due' \in 0..Len(mail')
               /\ ConnectionType' /\ armed' \in 0..timers'
               /\ UNCHANGED <<ready, polled, calls>> /\ connect' \in BOOLEAN
    <3>1. mail' = Append(mail, "stop") /\ due' = due
      BY <2>3 DEF StopHere, passVars
    <3>2. ConnectionType' /\ armed' \in 0..timers'
      BY <1>0, <1>4, <2>3 DEF StopHere, retryVars, passVars
    <3> QED BY <1>2, <1>3, <2>3, <3>1, <3>2 DEF StopHere, passVars
  <2>4. CASE LoopStop
    BY <1>1, <2>3, <2>4 DEF LoopStop, history
  <2>5. CASE LoopDestroy
    <3>1. CASE UNCHANGED <<connectorVars, conn, keeper>> /\ closeTo' = "nobody"
      BY <1>0, <1>1, <1>4, <2>5, <3>1
         DEF LoopDestroy, connectorVars, retryVars, passVars, history
    <3>2. CASE /\ conn' = "shut" /\ mail' = Append(mail, "forceClose")
               /\ UNCHANGED <<connect, connectionVars, retryVars, passVars, calls>>
               /\ UNCHANGED keeper /\ closeTo' = "nobody"
      <4>1. mail' \in Seq(Functors) /\ due' \in 0..Len(mail')
        BY <1>2, <1>3, <3>2 DEF passVars
      <4>2. ConnectionType' /\ armed' \in 0..timers'
        BY <1>0, <1>4, <3>2 DEF retryVars, passVars
      <4> QED BY <1>0, <1>1, <2>5, <3>2, <4>1, <4>2 DEF LoopDestroy, passVars, history
    <3>3. CASE StopHere /\ keeper' = TRUE /\ UNCHANGED <<conn, closeTo>>
      BY <1>1, <2>3, <2>5, <3>3 DEF LoopDestroy, history
    <3> QED BY <2>5, <3>1, <3>2, <3>3 DEF LoopDestroy
  <2> QED BY <1>14, <2>1, <2>2, <2>4, <2>5 DEF LoopCall
<1>15. ASSUME NEW t \in Threads, ForeignQueue(t) PROVE TypeOK'
  <2>1. calls[t] \in Functors
    BY <1>2, <1>15 DEF ForeignQueue, Queue
  <2>2. mail' \in Seq(Functors) /\ due' \in 0..Len(mail')
    BY <1>3, <1>15, <2>1 DEF ForeignQueue, Queue, passVars
  <2>3. ConnectionType' /\ armed' \in 0..timers'
    BY <1>0, <1>4, <1>15 DEF ForeignQueue, Queue, retryVars, passVars
  <2> QED BY <1>0, <1>1, <1>15, <2>2, <2>3
          DEF ForeignQueue, Queue, passVars, clientVars, history
<1>16. ASSUME NEW t \in Threads, NEW call, ForeignCall(t, call) PROVE TypeOK'
  <2>1. ASSUME NEW what \in {"start", "stop"}, Call(t, what)
        PROVE  /\ mail' \in Seq(Functors) /\ due' \in 0..Len(mail')
               /\ ConnectionType' /\ armed' \in 0..timers'
               /\ UNCHANGED <<ready, polled>> /\ connect' \in BOOLEAN
               /\ calls' \in [Threads -> {"none", "start", "stop"}]
    BY <1>0, <1>4, <2>1 DEF Call, retryVars, passVars
  <2>2. CASE ForeignConnect(t)
    BY <1>1, <2>1, <2>2 DEF ForeignConnect
  <2>3. CASE ForeignDisconnect(t)
    BY <1>0, <1>1, <1>4, <2>3
       DEF ForeignDisconnect, ShutDown, connectorVars, retryVars, passVars, history
  <2>4. CASE ForeignStop(t)
    BY <1>1, <2>1, <2>4 DEF ForeignStop, history
  <2> QED BY <1>16, <2>2, <2>3, <2>4 DEF ForeignCall
<1>17. CASE UNCHANGED vars
  BY <1>0, <1>1, <1>4, <1>17
     DEF vars, connectorVars, retryVars, passVars, clientVars, history
<1> QED BY <1>5, <1>6, <1>7, <1>8, <1>9, <1>10, <1>11, <1>12, <1>13, <1>14,
           <1>15, <1>16, <1>17 DEF Next, Loop, User

-----------------------------------------------------------------------------
(* The places of the attempt exclude each other. *)
LEMMA PlacesDiffer ==
    /\ ~(Absent(mail, "start") /\ Once(mail, "start"))
    /\ ~(NoCaller /\ OneCaller)
    /\ Nowhere => ~Called /\ ~Mailed /\ ~Retrying /\ ~Attempting /\ ~Connected
<1>1. ~(Absent(mail, "start") /\ Once(mail, "start"))
  BY DEF Absent, Once
<1>2. ~(NoCaller /\ OneCaller)
  BY DEF NoCaller, OneCaller
<1> QED BY <1>1, <1>2
        DEF Nowhere, Called, Mailed, Retrying, Attempting, Connected, Unstarted

(* What the steps that leave calls alone keep. *)
LEMMA CallsKept ==
    ASSUME UNCHANGED calls
    PROVE  /\ NoCaller' <=> NoCaller
           /\ OneCaller' <=> OneCaller
           /\ (Keeps(mail, mail', "stop") /\ StopUnderway') => StopUnderway
BY DEF NoCaller, OneCaller, StopUnderway, Keeps

(* A reset that is queued is what ChannelAgrees asks for.                   *)
LEMMA ResetsAgree ==
    /\ ResetQueued => (channel = "off" => \E i \in DOMAIN mail : mail[i] = "reset")
    /\ ResetQueued' => (channel' = "off" => \E i \in DOMAIN mail' : mail'[i] = "reset")
BY DEF ResetQueued, Once

(* A step that neither begins, moves nor ends an attempt.                   *)
LEMMA LifeQuiet ==
    ASSUME LifeInv, PassInv',
           Keeps(mail, mail', "start"), Keeps(mail, mail', "reset"),
           NoCaller' <=> NoCaller, OneCaller => OneCaller',
           UNCHANGED <<state, channel, sockets, timers, gaveUp, asked>>,
           connect' => connect, conn' = "none" <=> conn = "none",
           client' = "alive" => client = "alive",
           client' = "destroyed" =>
               /\ \A t \in Threads : calls'[t] = "none"
               /\ conn' # "none" => closeTo' = "nobody" /\ conn' # "closed"
               /\ client = "destroyed" \/ ~connect' \/ Connected,
           (client' = "alive" /\ ~asked) => ~StopUnderway' /\ ~stopped'
    PROVE  LifeInv'
<1>1. /\ ChannelAgrees /\ Places /\ ResetQueued /\ Underway /\ Fresh /\ Orphaned
  BY DEF LifeInv
<1>2. /\ Unstarted' <=> Unstarted
      /\ Once(mail, "start") => Once(mail', "start")
      /\ Absent(mail, "start") <=> Absent(mail', "start")
  BY DEF Keeps, Unstarted
<1>3. /\ Nowhere' <=> Nowhere
      /\ Called => Called'
      /\ Mailed => Mailed'
      /\ Retrying => Retrying'
      /\ Attempting => Attempting'
      /\ Connected => Connected'
  BY <1>2 DEF Nowhere, Called, Mailed, Retrying, Attempting, Connected
<1>4. Places'
  BY <1>1, <1>3 DEF Places
<1>5. ResetQueued'
  BY <1>1 DEF ResetQueued, Keeps
<1>6. ChannelAgrees'
  BY <1>1, <1>5, ResetsAgree DEF ChannelAgrees
<1>7. Underway'
  BY <1>1, <1>3 DEF Underway
<1>8. Fresh'
  BY <1>1, <1>3 DEF Fresh
<1>9. Orphaned'
  BY <1>1, <1>3 DEF Orphaned
<1> QED BY <1>4, <1>5, <1>6, <1>7, <1>8, <1>9 DEF LifeInv

(* An attempt is begun, or fails at once. *)
LEMMA LifeConnects ==
    ASSUME PassInv', ResetQueued, Keeps(mail, mail', "reset"),
           channel # "on", sockets = 0,
           NEW wait, Connect(0, wait),
           Unstarted', conn' = "none", asked', client' = "alive"
    PROVE  LifeInv'
<1>1. CASE Connecting /\ timers' = 0 /\ gaveUp' = FALSE
  <2>1. /\ channel = "none" /\ state' = "kConnecting" /\ channel' = "on"
        /\ sockets' = 1
    BY <1>1 DEF Connecting
  <2>2. ResetQueued'
    BY <2>1 DEF ResetQueued, Keeps
  <2>3. Attempting' /\ ~Nowhere'
    BY <1>1, <2>1 DEF Attempting, Nowhere
  <2>4. ChannelAgrees'
    BY <2>1 DEF ChannelAgrees
  <2> QED BY <2>1, <2>2, <2>3, <2>4 DEF LifeInv, Places, Underway, Fresh, Orphaned
<1>2. ASSUME UNCHANGED <<channel, sockets>>, state' = "kDisconnected",
             Retrying' \/ (Nowhere' /\ gaveUp'), Retrying' => ~Nowhere'
      PROVE  LifeInv'
  <2>1. ResetQueued'
    BY <1>2 DEF ResetQueued, Keeps
  <2>2. ChannelAgrees'
    BY <1>2, <2>1, ResetsAgree DEF ChannelAgrees
  <2> QED BY <1>2, <2>1, <2>2 DEF LifeInv, Places, Underway, Fresh, Orphaned
<1>3. CASE /\ Backoff(0, wait) /\ state' = "kDisconnected"
           /\ UNCHANGED <<channel, sockets>>
  <2>1. timers' = 1
    BY <1>3 DEF Backoff
  <2> QED BY <1>2, <1>3, <2>1 DEF Retrying, Nowhere
<1>4. CASE /\ timers' = 0 /\ state' = "kDisconnected" /\ gaveUp' = TRUE
           /\ UNCHANGED <<channel, sockets>>
  BY <1>2, <1>4 DEF Retrying, Nowhere
<1> QED BY <1>1, <1>3, <1>4 DEF Connect

(* startInLoop of a timer or functor: the start is used up.                 *)
LEMMA LifeStarts ==
    ASSUME LifeInv, PassInv', Retrying \/ Mailed, StartInLoop(0),
           Unstarted', Keeps(mail, mail', "reset"), Keeps(mail, mail', "stop"),
           UNCHANGED <<connect, calls, client, conn, closeTo, asked, stopped>>,
           TypeOK
    PROVE  LifeInv'
<1>1. /\ ChannelAgrees /\ ResetQueued /\ Fresh /\ Orphaned /\ ~Nowhere
      /\ state = "kDisconnected" /\ conn = "none"
      /\ channel # "on" /\ sockets = 0 /\ asked
  BY PlacesDiffer DEF LifeInv, ChannelAgrees, Retrying, Mailed, Fresh
<1>2. CASE connect
  <2>1. ~Connected
    BY <1>1 DEF Connected
  <2>2. client = "alive"
    BY <1>1, <1>2, <2>1 DEF Orphaned, TypeOK
  <2>3. Connect(0, delay)
    BY <1>2 DEF StartInLoop
  <2> QED BY <1>1, <2>2, <2>3, LifeConnects
<1>3. CASE ~connect
  <2>1. timers' = 0 /\ UNCHANGED <<state, channel, sockets, gaveUp>>
    BY <1>3 DEF StartInLoop, connectionVars
  <2>2. Nowhere'
    BY <1>1, <2>1 DEF Nowhere
  <2>3. ResetQueued'
    BY <1>1, <2>1 DEF ResetQueued, Keeps
  <2>4. ChannelAgrees'
    BY <1>1, <2>1, <2>3, ResetsAgree DEF ChannelAgrees
  <2> QED BY <1>1, <1>3, <2>2, <2>3, <2>4
          DEF LifeInv, Places, Underway, Fresh, Orphaned
<1> QED BY <1>2, <1>3

(* An attempt has failed, or is stopped. *)
LEMMA LifeRetries ==
    ASSUME LifeInv, PassInv', TypeOK, state = "kConnecting", Retry,
           NEW q \in Seq(Functors), RemoveAndResetChannel(q),
           Keeps(mail, q, "start"), Keeps(mail, q, "reset"),
           UNCHANGED <<connect, calls, client, conn, closeTo, asked>>
    PROVE  LifeInv'
<1>1. /\ ChannelAgrees /\ ResetQueued /\ Fresh /\ Orphaned /\ Attempting /\ ~Nowhere
      /\ sockets = 1 /\ asked /\ channel = "on"
  BY PlacesDiffer
     DEF LifeInv, ChannelAgrees, Places, Nowhere, Called, Mailed, Retrying, Attempting,
         Connected, Fresh
<1>2. /\ sockets' = 0 /\ state' = "kDisconnected" /\ channel' = "off"
      /\ mail' = Append(q, "reset")
  BY <1>1 DEF Retry, RemoveAndResetChannel
<1>3. Keeps(q, mail', "start") /\ (Absent(q, "reset") => Once(mail', "reset"))
  <2>1. "reset" \in Functors
    BY DEF Functors
  <2> QED BY <1>2, <2>1, Appended
<1>4. ResetQueued'
  BY <1>1, <1>2, <1>3 DEF ResetQueued, Keeps
<1>5. ChannelAgrees'
  BY <1>2, <1>4, ResetsAgree DEF ChannelAgrees
<1>6. Unstarted' /\ conn' = "none" /\ timers = 0
  BY <1>1, <1>3, CallsKept DEF Attempting, Unstarted, Keeps
<1>7. CASE connect
  <2>1. timers' = 1
    BY <1>6, <1>7 DEF Retry, Backoff
  <2>2. Retrying' /\ ~Nowhere'
    BY <1>2, <1>6, <2>1 DEF Retrying, Nowhere
  <2>3. client # "destroyed"
    BY <1>1, <1>7 DEF Orphaned, Attempting, Connected
  <2> QED BY <1>1, <1>4, <1>5, <2>2, <2>3 DEF LifeInv, Places, Underway, Fresh, Orphaned
<1>8. CASE ~connect
  <2>1. timers' = 0
    BY <1>6, <1>8 DEF Retry, retryVars
  <2>2. Nowhere'
    BY <1>2, <1>6, <2>1 DEF Nowhere
  <2> QED BY <1>1, <1>4, <1>5, <1>8, <2>2 DEF LifeInv, Places, Underway, Fresh, Orphaned
<1> QED BY <1>7, <1>8

-----------------------------------------------------------------------------
(* The steps of the loop keep track of the attempt, *)
LEMMA LifeLoop ==
    ASSUME TypeOK, LifeInv, LoopStep \/ ConnectorStep \/ StopStep \/ NewConnection
    PROVE  LifeInv'
<1>1. /\ ChannelAgrees /\ Places /\ ResetQueued /\ Underway /\ Fresh /\ Orphaned
      /\ PassInv /\ mail \in Seq(Functors) /\ armed \in 0..timers /\ timers \in Nat
  BY DEF LifeInv, TypeOK, ConnectorTypeOK
<1>2. /\ mail' = mail => \A f : Keeps(mail, mail', f)
      /\ \A f : Keeps(mail, mail, f)
  BY DEF Keeps, Absent, Once
<1>3. /\ client = "alive" /\ ~asked => ~StopUnderway /\ ~stopped
      /\ client = "destroyed" =>
           /\ \A t \in Threads : calls[t] = "none"
           /\ conn # "none" => closeTo = "nobody" /\ conn # "closed"
  BY <1>1 DEF Fresh, Orphaned
<1>4. ASSUME UNCHANGED <<connect, calls, mail, state, channel, sockets, timers, gaveUp>>,
             UNCHANGED clientVars, UNCHANGED history, PassInv'
      PROVE  LifeInv'
  <2>1. /\ NoCaller' <=> NoCaller
        /\ OneCaller => OneCaller'
        /\ StopUnderway' => StopUnderway
    BY <1>2, <1>4, CallsKept
  <2>2. UNCHANGED <<client, conn, closeTo, asked, stopped>>
    BY <1>4 DEF clientVars, history
  <2>3. /\ (client' = "alive" /\ ~asked) => ~StopUnderway' /\ ~stopped'
        /\ client' = "destroyed" =>
           /\ \A t \in Threads : calls'[t] = "none"
           /\ conn' # "none" => closeTo' = "nobody" /\ conn' # "closed"
    BY <1>3, <1>4, <2>1, <2>2
  <2> QED BY <1>2, <1>4, <2>1, <2>2, <2>3, LifeQuiet
<1>5. CASE LoopStep
  <2>1. CASE Swap
    <3>1. PassInv'
      BY <1>1, <1>5, <2>1 DEF PassInv, LoopStep, Swap, clientVars
    <3> QED BY <1>4, <1>5, <2>1, <3>1 DEF LoopStep, Swap, connectionVars, retryVars
  <2>2. ASSUME NEW events \in SUBSET {"OUT", "ERR"}, Poll(events) PROVE LifeInv'
    <3>1. PassInv'
      BY <1>1, <1>5, <2>2 DEF PassInv, LoopStep, Poll, clientVars
    <3> QED BY <1>4, <1>5, <2>2, <3>1 DEF LoopStep, Poll, connectionVars, retryVars
  <2> QED BY <1>5, <2>1, <2>2 DEF LoopStep
<1>6. CASE ConnectorStep
  <2>0. UNCHANGED <<setup, client, wanted, conn, closeTo, keeper, asked, stopped>>
        /\ UNCHANGED clientVars /\ UNCHANGED history
    BY <1>6 DEF ConnectorStep, clientVars, history
  <2>1. CASE TimerFires
    <3>1. timers # 0 /\ mail' = mail /\ UNCHANGED <<connect, calls, ready, polled>>
      BY <1>1, <2>1 DEF TimerFires
    <3>2. Retrying /\ timers = 1
      BY <1>1, <3>1 DEF Places, Nowhere, Called, Mailed, Retrying, Attempting, Connected
    <3>3. StartInLoop(0)
      BY <2>1, <3>2 DEF TimerFires
    <3>4. Unstarted'
      BY <3>1, <3>2, CallsKept DEF Retrying, Unstarted
    <3>5. PassInv'
      BY <1>1, <2>0, <3>1 DEF PassInv
    <3> QED BY <1>2, <2>0, <3>1, <3>2, <3>3, <3>4, <3>5, LifeStarts
  <2>2. CASE StartFunctor
    <3>1. /\ AtFront("start") /\ mail' = Tail(mail)
          /\ UNCHANGED <<connect, calls, ready, polled>>
      BY <2>2 DEF StartFunctor
    <3>2. mail # <<>> /\ Head(mail) = "start"
      BY <3>1, FunctorTaken
    <3>3. ~Absent(mail, "start") /\ (Once(mail, "start") => Absent(mail', "start"))
          /\ Keeps(mail, mail', "reset") /\ Keeps(mail, mail', "stop")
      BY <1>1, <3>1, <3>2, Removed
    <3>4. Mailed /\ timers = 0
      BY <1>1, <3>3
         DEF Places, Nowhere, Called, Mailed, Retrying, Attempting, Connected, Unstarted
    <3>5. StartInLoop(0)
      BY <2>2, <3>4 DEF StartFunctor
    <3>6. Unstarted'
      BY <3>1, <3>3, <3>4, CallsKept DEF Mailed, Unstarted
    <3>7. PassInv'
      BY <1>1, <2>0, <3>1 DEF PassInv
    <3> QED BY <2>0, <3>1, <3>3, <3>4, <3>5, <3>6, <3>7, LifeStarts
  <2>3. CASE ResetFunctor
    <3>1. /\ AtFront("reset") /\ mail' = Tail(mail) /\ channel' = "none"
          /\ UNCHANGED <<connect, calls, ready, polled, state, sockets, gaveUp, timers>>
      BY <2>3 DEF ResetFunctor, retryVars
    <3>2. mail # <<>> /\ Head(mail) = "reset"
      BY <3>1, FunctorTaken
    <3>3. ~Absent(mail, "reset") /\ (Once(mail, "reset") => Absent(mail', "reset"))
          /\ Keeps(mail, mail', "start") /\ Keeps(mail, mail', "stop")
      BY <1>1, <3>1, <3>2, Removed
    <3>4. channel = "off" /\ ResetQueued' /\ state # "kConnecting"
      BY <1>1, <3>1, <3>3 DEF ResetQueued, ChannelAgrees
    <3>5. ChannelAgrees'
      BY <1>1, <3>1, <3>4 DEF ChannelAgrees
    <3>6. /\ NoCaller' <=> NoCaller
          /\ OneCaller' <=> OneCaller
          /\ StopUnderway' => StopUnderway
      BY <3>1, <3>3, CallsKept
    <3>7. /\ Nowhere' <=> Nowhere
          /\ Called => Called'
          /\ Mailed => Mailed'
          /\ Retrying => Retrying'
          /\ Connected => Connected'
          /\ ~Attempting
      BY <2>0, <3>1, <3>3, <3>4, <3>6
         DEF Nowhere, Called, Mailed, Retrying, Attempting, Connected, Keeps, Unstarted
    <3>8. Places'
      BY <1>1, <3>7 DEF Places
    <3>9. Underway' /\ PassInv'
      BY <1>1, <2>0, <3>1, <3>7 DEF Underway, PassInv
    <3>10. Fresh'
      BY <1>1, <2>0, <3>1, <3>4, <3>6 DEF Fresh
    <3>11. Orphaned'
      BY <1>1, <2>0, <3>1, <3>7 DEF Orphaned
    <3> QED BY <3>4, <3>5, <3>8, <3>9, <3>10, <3>11 DEF LifeInv
  <2>4. ASSUME state = "kConnecting", Retry, RemoveAndResetChannel(mail),
               UNCHANGED <<connect, calls, polled>>, ready' \subseteq ready
        PROVE  LifeInv'
    <3>1. PassInv'
      BY <1>1, <2>0, <2>4 DEF PassInv
    <3> QED BY <1>1, <1>2, <2>0, <2>4, <3>1, LifeRetries
  <2>5. CASE HandleError
    <3>1. CASE state = "kConnecting"
      BY <2>4, <2>5, <3>1 DEF HandleError
    <3>2. CASE state # "kConnecting"
      <4>1. PassInv'
        BY <1>1, <2>0, <2>5 DEF PassInv, HandleError
      <4> QED BY <1>4, <2>0, <2>5, <3>2, <4>1 DEF HandleError, retryVars
    <3> QED BY <3>1, <3>2
  <2>6. CASE HandleWriteLate
    <3>1. PassInv'
      BY <1>1, <2>0, <2>6 DEF PassInv, HandleWriteLate
    <3> QED BY <1>4, <2>0, <2>6, <3>1 DEF HandleWriteLate, connectionVars, retryVars
  <2>7. CASE HandleWriteFailed
    BY <2>4, <2>7 DEF HandleWriteFailed
  <2> QED BY <1>6, <2>1, <2>2, <2>3, <2>5, <2>6, <2>7 DEF ConnectorStep
<1>7. CASE StopStep
  <2>0. /\ UNCHANGED <<setup, client, wanted, conn, closeTo, keeper, asked>>
        /\ StopFunctor /\ AtFront("stop")
        /\ UNCHANGED <<connect, calls, gaveUp, ready, polled>>
    BY <1>7 DEF StopStep, StopFunctor, clientVars
  <2>1. /\ mail # <<>> /\ Head(mail) = "stop" /\ Tail(mail) \in Seq(Functors)
    BY <2>0, FunctorTaken
  <2>2. /\ ~Absent(mail, "stop")
        /\ Keeps(mail, Tail(mail), "start") /\ Keeps(mail, Tail(mail), "reset")
    BY <1>1, <2>1, Removed
  <2>3. PassInv'
    BY <1>1, <2>0 DEF PassInv
  <2>4. CASE state = "kConnecting"
    BY <2>0, <2>1, <2>2, <2>3, <2>4, LifeRetries DEF StopFunctor
  <2>5. CASE state # "kConnecting"
    <3>1. mail' = Tail(mail) /\ UNCHANGED <<channel, state, sockets, timers>>
      BY <2>0, <2>5 DEF StopFunctor, retryVars
    <3>2. (client' = "alive" /\ ~asked) => ~StopUnderway' /\ ~stopped'
      BY <1>3, <2>0, <2>2 DEF StopUnderway
    <3>3. /\ NoCaller' <=> NoCaller
          /\ OneCaller => OneCaller'
      BY <2>0, CallsKept
    <3> QED BY <1>3, <2>0, <2>2, <2>3, <3>1, <3>2, <3>3, LifeQuiet
  <2> QED BY <2>4, <2>5
<1>8. CASE NewConnection
  <2>0. /\ UNCHANGED <<setup, client, wanted, closeTo, keeper, asked, stopped>>
        /\ IF connect THEN client = "alive" /\ conn' = "open" ELSE conn' = conn
        /\ state = "kConnecting" /\ state' = "kConnected"
        /\ channel = "on" /\ channel' = "off"
        /\ mail' = Append(mail, "reset") /\ sockets' = sockets - 1
        /\ UNCHANGED <<connect, calls, gaveUp, timers, polled>> /\ ready' = {}
    BY <1>8 DEF NewConnection, history, HandleWriteDone, RemoveAndResetChannel, retryVars
  <2>1. Attempting /\ sockets' = 0 /\ asked
    BY <1>1, <2>0, PlacesDiffer
       DEF Places, Nowhere, Called, Mailed, Retrying, Attempting, Connected,
           ChannelAgrees, Fresh
  <2>2. Absent(mail, "reset") /\ "reset" \in Functors
    BY <1>1, <2>0 DEF ResetQueued, Functors
  <2>3. Once(mail', "reset") /\ Keeps(mail, mail', "start")
    BY <1>1, <2>0, <2>2, Appended
  <2>4. ResetQueued' /\ ChannelAgrees'
    <3>1. ResetQueued'
      BY <2>0, <2>3 DEF ResetQueued
    <3> QED BY <2>0, <2>1, <3>1, ResetsAgree DEF ChannelAgrees
  <2>5. Unstarted' /\ timers' = 0
    BY <2>0, <2>1, <2>3, CallsKept DEF Attempting, Unstarted, Keeps
  <2>6. IF connect THEN Connected' ELSE Nowhere' /\ conn' = "none"
    BY <2>0, <2>1, <2>5 DEF Attempting, Connected, Nowhere
  <2>7. Orphaned'
    BY <1>1, <2>0, <2>6 DEF Orphaned
  <2>8. PassInv'
    BY <1>1, <2>0, <2>6 DEF PassInv
  <2> QED BY <2>0, <2>1, <2>4, <2>6, <2>7, <2>8 DEF LifeInv, Places, Underway, Fresh
<1> QED BY <1>5, <1>6, <1>7, <1>8

(* so do those that end a connection and make it again,                     *)
LEMMA LifeConnection ==
    ASSUME TypeOK, LifeInv,
           \/ ConnectionEnds \/ ForceCloseFunctor \/ CloseCallback \/ RestartStep
           \/ DestroyFunctor \/ KeeperFires
    PROVE  LifeInv'
<1>1. /\ ChannelAgrees /\ Places /\ ResetQueued /\ Underway /\ Fresh /\ Orphaned
      /\ PassInv /\ mail \in Seq(Functors)
  BY DEF LifeInv, TypeOK, ConnectorTypeOK
<1>2. mail' = mail => Keeps(mail, mail', "start") /\ Keeps(mail, mail', "reset")
                        /\ Keeps(mail, mail', "stop")
  BY DEF Keeps, Absent, Once
<1>3. ASSUME UNCHANGED <<connect, calls, state, channel, sockets, timers, gaveUp>>,
             UNCHANGED <<setup, client, closeTo, asked, stopped, ready, polled>>,
             Keeps(mail, mail', "start"), Keeps(mail, mail', "reset"),
             Keeps(mail, mail', "stop"), conn' = "none" <=> conn = "none",
             conn' = "closed" => conn = "closed" \/ (closeTo = "client" /\ setup.retry)
      PROVE  LifeInv'
  <2>1. PassInv'
    BY <1>1, <1>3 DEF PassInv
  <2>2. /\ NoCaller' <=> NoCaller
        /\ OneCaller => OneCaller'
        /\ StopUnderway' => StopUnderway
    BY <1>3, CallsKept
  <2>3. (client' = "alive" /\ ~asked) => ~StopUnderway' /\ ~stopped'
    BY <1>1, <1>3, <2>2 DEF Fresh
  <2>4. client' = "destroyed" =>
           /\ \A t \in Threads : calls'[t] = "none"
           /\ conn' # "none" => closeTo' = "nobody" /\ conn' # "closed"
    BY <1>1, <1>3 DEF Orphaned
  <2> QED BY <1>3, <2>1, <2>2, <2>3, <2>4, LifeQuiet
<1>4. CASE ConnectionEnds
  BY <1>2, <1>3, <1>4 DEF ConnectionEnds, connectorVars, connectionVars, retryVars,
                          passVars, history
<1>5. ASSUME NEW f, AtFront(f), f # "start", f # "reset", f # "stop", mail' = Tail(mail)
      PROVE  /\ Keeps(mail, mail', "start") /\ Keeps(mail, mail', "reset")
             /\ Keeps(mail, mail', "stop")
  BY <1>1, <1>5, FunctorTaken, Removed
<1>6. CASE ForceCloseFunctor
  <2>1. /\ Keeps(mail, mail', "start") /\ Keeps(mail, mail', "reset")
        /\ Keeps(mail, mail', "stop")
    BY <1>5, <1>6 DEF ForceCloseFunctor
  <2> QED BY <1>3, <1>6, <2>1
          DEF ForceCloseFunctor, connectionVars, retryVars, history
<1>7. CASE DestroyFunctor
  <2>1. /\ Keeps(mail, mail', "start") /\ Keeps(mail, mail', "reset")
        /\ Keeps(mail, mail', "stop")
    BY <1>5, <1>7 DEF DestroyFunctor
  <2> QED BY <1>3, <1>7, <2>1
          DEF DestroyFunctor, connectionVars, retryVars, history, clientVars
<1>8. CASE KeeperFires
  BY <1>2, <1>3, <1>8 DEF KeeperFires, connectorVars, connectionVars, retryVars,
                          passVars, history
<1>9. CASE CloseCallback
  <2>1. /\ UNCHANGED <<setup, connect, calls, state, channel, sockets, timers, gaveUp>>
        /\ UNCHANGED <<client, closeTo, asked, stopped, ready, polled>>
        /\ mail' = Append(mail, "destroy") /\ conn = "closing"
        /\ conn' = IF closeTo = "client" /\ setup.retry /\ wanted THEN "closed"
                                                                  ELSE "none"
    BY <1>9 DEF CloseCallback, connectionVars, retryVars, passVars, history
  <2>2. /\ Keeps(mail, mail', "start") /\ Keeps(mail, mail', "reset")
        /\ Keeps(mail, mail', "stop")
    <3>1. "destroy" \in Functors
      BY DEF Functors
    <3> QED BY <1>1, <2>1, <3>1, Appended
  <2>3. CASE conn' = "closed"
    BY <1>3, <2>1, <2>2, <2>3
  <2>4. CASE conn' = "none"
    <3>1. Connected
      BY <1>1, <2>1 DEF Places, Nowhere, Called, Mailed, Retrying, Attempting, Connected
    <3>2. Unstarted'
      BY <2>1, <2>2, <3>1, CallsKept DEF Connected, Unstarted, Keeps
    <3>3. Nowhere' /\ state' # "kDisconnected"
      BY <2>1, <2>4, <3>1, <3>2 DEF Connected, Nowhere
    <3>4. ResetQueued'
      BY <1>1, <2>1, <2>2 DEF ResetQueued, Keeps
    <3>5. ChannelAgrees'
      BY <1>1, <2>1, <3>4, ResetsAgree DEF ChannelAgrees
    <3>6. PassInv'
      BY <1>1, <2>1, <2>4 DEF PassInv
    <3>7. asked'
      BY <1>1, <2>1, <3>1, PlacesDiffer DEF Fresh
    <3>8. Orphaned'
      BY <1>1, <2>1, <2>4, <3>3 DEF Orphaned
    <3> QED BY <3>3, <3>4, <3>5, <3>6, <3>7, <3>8 DEF LifeInv, Places, Underway, Fresh
  <2> QED BY <2>1, <2>3, <2>4
<1>10. CASE RestartStep
  <2>1. /\ conn = "closed" /\ conn' = "none" /\ Connect(timers, 1) /\ mail' = mail
        /\ UNCHANGED <<calls, client, asked, ready, polled>>
    BY <1>10 DEF RestartStep, Restart, passVars, history
  <2>2. Connected /\ asked /\ client = "alive" /\ channel # "on" /\ sockets = 0
    <3>1. Connected
      BY <1>1, <2>1 DEF Places, Nowhere, Called, Mailed, Retrying, Attempting, Connected
    <3>2. asked
      BY <1>1, <3>1, PlacesDiffer DEF Fresh
    <3>3. client = "alive"
      BY <1>1, <2>1 DEF Orphaned, TypeOK
    <3> QED BY <1>1, <3>1, <3>2, <3>3 DEF Connected, ChannelAgrees
  <2>3. Unstarted'
    BY <2>1, <2>2, CallsKept DEF Connected, Unstarted
  <2>4. Connect(0, 1)
    BY <2>1, <2>2 DEF Connected
  <2>5. PassInv'
    BY <1>1, <2>1 DEF PassInv
  <2> QED BY <1>1, <1>2, <2>1, <2>2, <2>3, <2>4, <2>5, LifeConnects
<1> QED BY <1>4, <1>6, <1>7, <1>8, <1>9, <1>10

(* the user's calls in the loop,                                            *)
LEMMA LifeLoopCall ==
    ASSUME TypeOK, LifeInv, NEW call, LoopCall(call)
    PROVE  LifeInv'
<1>1. /\ ChannelAgrees /\ Places /\ ResetQueued /\ Underway /\ Fresh /\ Orphaned
      /\ PassInv /\ mail \in Seq(Functors) /\ client = "alive" /\ conn # "closed"
  BY DEF LifeInv, TypeOK, ConnectorTypeOK, LoopCall
<1>2. Keeps(mail, mail, "start") /\ Keeps(mail, mail, "reset") /\ Keeps(mail, mail, "stop")
  BY DEF Keeps
<1>3. /\ UNCHANGED calls => /\ NoCaller' <=> NoCaller
                            /\ OneCaller => OneCaller'
      /\ UNCHANGED <<calls, mail>> => (StopUnderway' <=> StopUnderway)
  BY CallsKept DEF StopUnderway
<1>4. ~asked => ~StopUnderway /\ ~stopped
  BY <1>1 DEF Fresh
<1>5. ASSUME UNCHANGED <<ready, polled, setup>>, conn' # "closed" PROVE PassInv'
  BY <1>1, <1>5 DEF PassInv
<1>6. CASE LoopConnect
  <2>1. /\ ~asked /\ asked' /\ Connect(timers, delay) /\ mail' = mail
        /\ UNCHANGED <<setup, calls, client, conn, ready, polled>>
    BY <1>6 DEF LoopConnect, MayConnect, StartHere, passVars
  <2>2. Nowhere /\ channel = "none" /\ sockets = 0
    BY <1>1, <2>1 DEF Fresh, ChannelAgrees
  <2>3. Unstarted' /\ conn' = "none" /\ timers = 0
    BY <2>1, <2>2, CallsKept DEF Nowhere, Unstarted
  <2>4. Connect(0, delay)
    BY <2>1, <2>3
  <2> QED BY <1>1, <1>2, <1>5, <2>1, <2>2, <2>3, <2>4, LifeConnects
<1>7. CASE LoopDisconnect
  <2>1. /\ UNCHANGED <<connect, state, channel, sockets, timers, gaveUp, mail, calls>>
        /\ UNCHANGED <<setup, client, ready, polled, asked, stopped>>
        /\ conn' = IF conn = "open" THEN "shut" ELSE conn
    BY <1>7 DEF LoopDisconnect, ShutDown, connectorVars, connectionVars, retryVars,
                passVars, history
  <2>2. PassInv' /\ (conn' = "none" <=> conn = "none")
    BY <1>1, <1>5, <2>1
  <2>3. ~asked => ~StopUnderway' /\ ~stopped'
    BY <1>3, <1>4, <2>1
  <2>4. /\ NoCaller' <=> NoCaller
        /\ OneCaller => OneCaller'
        /\ Keeps(mail, mail', "start") /\ Keeps(mail, mail', "reset")
    BY <1>2, <1>3, <2>1
  <2> QED BY <1>1, <2>1, <2>2, <2>3, <2>4, LifeQuiet
<1>8. ASSUME StopHere
      PROVE  /\ UNCHANGED <<state, channel, sockets, timers, gaveUp, calls, ready, polled>>
             /\ ~connect'
             /\ NoCaller' <=> NoCaller
             /\ OneCaller => OneCaller'
             /\ Keeps(mail, mail', "start") /\ Keeps(mail, mail', "reset")
  <2>1. /\ UNCHANGED <<state, channel, sockets, timers, gaveUp, calls, ready, polled>>
        /\ ~connect' /\ mail' = Append(mail, "stop") /\ "stop" \in Functors
    BY <1>8 DEF StopHere, connectionVars, retryVars, passVars, Functors
  <2> QED BY <1>1, <1>3, <2>1, Appended
<1>9. CASE LoopStop
  <2>1. StopHere /\ asked /\ UNCHANGED <<setup, client, conn, asked>>
    BY <1>9 DEF LoopStop, MayStop, history
  <2>2. PassInv'
    BY <1>1, <1>5, <1>8, <2>1
  <2> QED BY <1>1, <1>8, <2>1, <2>2, LifeQuiet
<1>10. CASE LoopDestroy
  <2>0. /\ client' = "destroyed" /\ UNCHANGED <<setup, asked, stopped>>
        /\ \A t \in Threads : calls[t] = "none"
    BY <1>10 DEF LoopDestroy, history
  <2>1. ASSUME conn # "none", closeTo' = "nobody",
               \/ UNCHANGED <<connectorVars, conn>>
               \/ /\ conn \in {"open", "shut"} /\ conn' = "shut"
                  /\ mail' = Append(mail, "forceClose")
                  /\ UNCHANGED <<connect, connectionVars, retryVars, passVars, calls>>
        PROVE  LifeInv'
    <3>1. /\ UNCHANGED <<connect, state, channel, sockets, timers, gaveUp, calls>>
          /\ UNCHANGED <<ready, polled>>
          /\ conn' # "none" /\ conn' # "closed"
          /\ mail' = mail \/ mail' = Append(mail, "forceClose")
      BY <1>1, <2>1 DEF connectorVars, connectionVars, retryVars, passVars
    <3>2. "forceClose" \in Functors
      BY DEF Functors
    <3>3. Keeps(mail, mail', "start") /\ Keeps(mail, mail', "reset")
      BY <1>1, <1>2, <3>1, <3>2, Appended
    <3>4. Connected /\ PassInv'
      BY <1>1, <1>5, <2>0, <2>1, <3>1
         DEF Places, Nowhere, Called, Mailed, Retrying, Attempting, Connected
    <3>5. /\ NoCaller' <=> NoCaller
          /\ OneCaller => OneCaller'
          /\ \A t \in Threads : calls'[t] = "none"
      BY <1>3, <2>0, <3>1
    <3> QED BY <2>0, <2>1, <3>1, <3>3, <3>4, <3>5, LifeQuiet
  <2>2. ASSUME conn = "none", StopHere, UNCHANGED <<conn, closeTo>> PROVE LifeInv'
    <3>1. PassInv' /\ conn' = "none"
      BY <1>1, <1>5, <1>8, <2>0, <2>2
    <3>2. \A t \in Threads : calls'[t] = "none"
      BY <1>8, <2>0, <2>2
    <3> QED BY <1>8, <2>0, <2>2, <3>1, <3>2, LifeQuiet
  <2> QED BY <1>10, <2>1, <2>2 DEF LoopDestroy
<1> QED BY <1>6, <1>7, <1>9, <1>10 DEF LoopCall

(* and those in other threads.                                              *)
LEMMA LifeForeign ==
    ASSUME TypeOK, LifeInv, NEW t \in Threads,
           ForeignQueue(t) \/ \E call \in setup.foreignCalls : ForeignCall(t, call)
    PROVE  LifeInv'
<1>1. /\ ChannelAgrees /\ Places /\ ResetQueued /\ Underway /\ Fresh /\ Orphaned
      /\ PassInv /\ mail \in Seq(Functors)
      /\ calls \in [Threads -> {"none", "start", "stop"}]
  BY DEF LifeInv, TypeOK, ConnectorTypeOK
<1>2. Keeps(mail, mail, "start") /\ Keeps(mail, mail, "reset")
  BY DEF Keeps
<1>3. CASE ForeignQueue(t)
  <2>1. /\ calls[t] # "none" /\ calls' = [calls EXCEPT ![t] = "none"]
        /\ mail' = Append(mail, calls[t])
        /\ UNCHANGED <<connect, state, channel, sockets, timers, gaveUp, ready, polled>>
        /\ UNCHANGED <<setup, client, conn, closeTo, asked, stopped>>
    BY <1>3 DEF ForeignQueue, Queue, connectionVars, retryVars, passVars, clientVars,
                history
  <2>2. client = "alive" /\ PassInv' /\ calls[t] \in {"start", "stop"}
    BY <1>1, <2>1 DEF Orphaned, TypeOK, PassInv
  <2>3. /\ Keeps(mail, mail', "reset")
        /\ calls[t] = "stop" => Keeps(mail, mail', "start")
        /\ (calls[t] = "start" /\ Absent(mail, "start")) => Once(mail', "start")
    <3>1. calls[t] \in Functors
      BY <2>2 DEF Functors
    <3> QED BY <1>1, <2>1, <2>2, <3>1, Appended
  <2>4. CASE calls[t] = "stop"
    <3>1. \A u \in Threads : calls'[u] = "start" <=> calls[u] = "start"
      BY <1>1, <2>1, <2>4
    <3>2. /\ NoCaller' <=> NoCaller
          /\ OneCaller => OneCaller'
      BY <3>1 DEF NoCaller, OneCaller
    <3>3. asked
      BY <1>1, <2>2, <2>4 DEF Fresh, StopUnderway
    <3> QED BY <2>1, <2>2, <2>3, <2>4, <3>2, <3>3, LifeQuiet
  <2>5. CASE calls[t] = "start"
    <3>1. Called
      BY <1>1, <2>5
         DEF Places, Nowhere, Called, Mailed, Retrying, Attempting, Connected, Unstarted,
             NoCaller
    <3>2. NoCaller'
      <4>1. \A u \in Threads : u # t => calls[u] # "start"
        BY <2>5, <3>1 DEF Called, OneCaller
      <4>2. \A u \in Threads : calls'[u] # "start"
        BY <1>1, <2>1, <4>1
      <4> QED BY <4>2 DEF NoCaller
    <3>3. Mailed'
      BY <2>1, <2>3, <2>5, <3>1, <3>2 DEF Called, Mailed
    <3>4. ~Nowhere' /\ asked
      <4>1. ~Absent(mail', "start")
        BY <3>3 DEF Mailed, Absent, Once
      <4> QED BY <1>1, <3>1, <4>1, PlacesDiffer DEF Nowhere, Unstarted, Fresh
    <3>5. ResetQueued'
      BY <1>1, <2>1, <2>3 DEF ResetQueued, Keeps
    <3>6. ChannelAgrees'
      BY <1>1, <2>1, <3>5, ResetsAgree DEF ChannelAgrees
    <3> QED BY <2>1, <2>2, <3>3, <3>4, <3>5, <3>6
            DEF LifeInv, Places, Underway, Fresh, Orphaned
  <2> QED BY <2>2, <2>4, <2>5
<1>4. ASSUME NEW call, ForeignCall(t, call) PROVE LifeInv'
  <2>0. client = "alive"
    BY <1>4 DEF ForeignCall
  <2>1. CASE ForeignConnect(t)
    <3>1. /\ ~asked /\ asked' /\ calls[t] = "none" /\ mail' = mail
          /\ calls' = [calls EXCEPT ![t] = "start"]
          /\ UNCHANGED <<state, channel, sockets, timers, gaveUp, ready, polled>>
          /\ UNCHANGED <<setup, client, conn>>
      BY <2>1 DEF ForeignConnect, MayConnect, Call, connectionVars, retryVars, passVars
    <3>2. Nowhere /\ channel = "none" /\ state = "kDisconnected"
      BY <1>1, <3>1 DEF Fresh
    <3>3. calls'[t] = "start" /\ \A u \in Threads : calls'[u] = "start" => u = t
      <4>1. \A u \in Threads : calls[u] # "start"
        BY <3>2 DEF Nowhere, Unstarted, NoCaller
      <4> QED BY <1>1, <3>1, <4>1
    <3>4. OneCaller' /\ ~NoCaller'
      BY <3>3 DEF OneCaller, NoCaller
    <3>5. Called' /\ ~Nowhere'
      BY <3>1, <3>2, <3>4 DEF Called, Nowhere, Unstarted
    <3>6. ResetQueued' /\ ChannelAgrees' /\ PassInv'
      BY <1>1, <3>1, <3>2 DEF ResetQueued, ChannelAgrees, PassInv
    <3> QED BY <2>0, <3>1, <3>5, <3>6 DEF LifeInv, Places, Underway, Fresh, Orphaned
  <2>2. CASE ForeignDisconnect(t)
    <3>1. /\ UNCHANGED <<connect, state, channel, sockets, timers, gaveUp, mail, calls>>
          /\ UNCHANGED <<setup, client, ready, polled, asked, stopped>>
          /\ conn' = IF conn = "open" THEN "shut" ELSE conn
      BY <2>2 DEF ForeignDisconnect, ShutDown, connectorVars, connectionVars, retryVars,
                  passVars, history
    <3>2. PassInv' /\ (conn' = "none" <=> conn = "none")
      BY <1>1, <3>1 DEF PassInv
    <3>3. ~asked => ~StopUnderway' /\ ~stopped'
      BY <1>1, <2>0, <3>1 DEF Fresh, StopUnderway
    <3>4. /\ NoCaller' <=> NoCaller
          /\ OneCaller => OneCaller'
          /\ Keeps(mail, mail', "start") /\ Keeps(mail, mail', "reset")
      BY <1>2, <3>1, CallsKept
    <3> QED BY <2>0, <3>1, <3>2, <3>3, <3>4, LifeQuiet
  <2>3. CASE ForeignStop(t)
    <3>1. /\ asked /\ calls[t] = "none" /\ calls' = [calls EXCEPT ![t] = "stop"]
          /\ mail' = mail /\ ~connect'
          /\ UNCHANGED <<state, channel, sockets, timers, gaveUp, ready, polled>>
          /\ UNCHANGED <<setup, client, conn, asked>>
      BY <2>3 DEF ForeignStop, MayStop, Call, connectionVars, retryVars, passVars, history
    <3>2. \A u \in Threads : calls'[u] = "start" <=> calls[u] = "start"
      BY <1>1, <3>1
    <3>3. /\ NoCaller' <=> NoCaller
          /\ OneCaller => OneCaller'
      BY <3>2 DEF NoCaller, OneCaller
    <3>4. PassInv' /\ Keeps(mail, mail', "start") /\ Keeps(mail, mail', "reset")
      BY <1>1, <1>2, <3>1 DEF PassInv
    <3> QED BY <2>0, <3>1, <3>3, <3>4, LifeQuiet
  <2> QED BY <1>4, <2>1, <2>2, <2>3 DEF ForeignCall
<1> QED BY <1>3, <1>4

(* The attempt is where it should be in every state.                        *)
LEMMA LifeStep ==
    ASSUME TypeOK, LifeInv, [Next]_vars
    PROVE  LifeInv'
<1>1. CASE Loop
  BY <1>1, LifeLoop, LifeConnection DEF Loop
<1>2. CASE User
  BY <1>2, LifeLoopCall, LifeForeign DEF User
<1>3. CASE UNCHANGED vars
  BY <1>3 DEF vars, connectorVars, connectionVars, retryVars, passVars, clientVars, history,
     LifeInv, ChannelAgrees, Places, ResetQueued, Underway, Fresh, Orphaned, PassInv,
     Nowhere, Called, Mailed, Retrying, Attempting, Connected, Unstarted, NoCaller,
     OneCaller, StopUnderway
<1> QED BY <1>1, <1>2, <1>3 DEF Next

-----------------------------------------------------------------------------
(* A step that calls no stop and queues none: what is queued was before.    *)
LEMMA NoNewStop ==
    ASSUME TypeOK, UNCHANGED calls,
           \/ mail' = mail
           \/ \E f \in Functors \ {"stop"} : mail' = Append(mail, f)
           \/ \E f : AtFront(f) /\ mail' = Tail(mail)
           \/ \E f : AtFront(f) /\ mail' = Append(Tail(mail), "reset")
    PROVE  StopUnderway' => StopUnderway
<1>1. mail \in Seq(Functors)
  BY DEF TypeOK
<1>2. CASE mail' = mail
  BY <1>2 DEF StopUnderway
<1>3. CASE \E f \in Functors \ {"stop"} : mail' = Append(mail, f)
  <2>1. Keeps(mail, mail', "stop")
    BY <1>1, <1>3, Appended
  <2> QED BY <2>1, CallsKept
<1>4. ASSUME NEW f, AtFront(f), mail' = Tail(mail) \/ mail' = Append(Tail(mail), "reset"),
             StopUnderway'
      PROVE  StopUnderway
  <2>1. mail # <<>> /\ f = Head(mail) /\ Tail(mail) \in Seq(Functors)
    BY <1>4, FunctorTaken
  <2>2. CASE f = "stop"
    BY <1>1, <2>1, <2>2, Removed DEF StopUnderway
  <2>3. CASE f # "stop"
    <3>1. Keeps(mail, Tail(mail), "stop") /\ "reset" \in Functors
      BY <1>1, <2>1, <2>3, Removed DEF Functors
    <3>2. Keeps(Tail(mail), Append(Tail(mail), "reset"), "stop")
      BY <2>1, <3>1, Appended
    <3>3. Keeps(mail, mail', "stop")
      BY <1>4, <3>1, <3>2 DEF Keeps
    <3> QED BY <1>4, <3>3, CallsKept
  <2> QED BY <2>2, <2>3
<1> QED BY <1>2, <1>3, <1>4

(* What a step has to leave alone for a stop to be final.                   *)
LEMMA StopQuiet ==
    ASSUME StopInv, setup' = setup, connect' => connect,
           StopUnderway' => StopUnderway, stopped' => StopUnderway \/ stopped,
           conn' = "closed" =>
               \/ conn = "closed"
               \/ conn # "none" /\ wanted /\ setup.retry /\ closeTo # "nobody",
           conn' # "none" => connect \/ conn # "none",
           wanted' => wanted, closeTo = "nobody" => closeTo' = "nobody",
           (stopped' /\ state' = "kConnecting") =>
               connect \/ (stopped /\ state = "kConnecting")
    PROVE  StopInv'
<1> SUFFICES ASSUME StopUnderway' \/ stopped'
             PROVE  /\ ~connect'
                    /\ conn' # "closed"
                    /\ conn' # "none" => ~wanted' \/ ~setup'.retry \/ closeTo' = "nobody"
                    /\ stopped' => state' # "kConnecting"
  BY DEF StopInv
<1>1. /\ ~connect /\ conn # "closed"
      /\ conn # "none" => ~wanted \/ ~setup.retry \/ closeTo = "nobody"
      /\ stopped => state # "kConnecting"
  BY DEF StopInv
<1> QED BY <1>1

(* And for a reset to come before the next attempt.                         *)
LEMMA ResetQuiet ==
    ASSUME ResetInv, UNCHANGED <<polled, channel, armed>>, ResetDue => ResetDue',
           connect' => connect, conn' # "none" => conn # "none"
    PROVE  ResetInv'
BY DEF ResetInv

(* No step of the loop undoes a stop, nor connects over an old channel,     *)
LEMMA OrderLoop ==
    ASSUME TypeOK, LifeInv, StopInv, ResetInv,
           LoopStep \/ ConnectorStep \/ StopStep \/ NewConnection
    PROVE  StopInv' /\ ResetInv'
<1>1. /\ ChannelAgrees /\ Places /\ ResetQueued /\ PassInv
      /\ mail \in Seq(Functors) /\ armed \in 0..timers /\ timers \in Nat
      /\ Len(mail) \in Nat
  BY DEF LifeInv, TypeOK, ConnectorTypeOK
<1>2. state = "kConnecting" => timers = 0 /\ armed = 0 /\ conn = "none"
  BY <1>1 DEF Places, Nowhere, Called, Mailed, Retrying, Attempting, Connected
<1>3. UNCHANGED <<mail, due>> => (ResetDue <=> ResetDue')
  BY DEF ResetDue
<1>4. "reset" \in Functors \ {"stop"}
  BY DEF Functors
<1>5. ASSUME /\ UNCHANGED <<setup, client, wanted, conn, closeTo, keeper, asked, stopped>>
             /\ connect' = connect /\ (StopUnderway' => StopUnderway)
             /\ state' = "kConnecting" => connect \/ state = "kConnecting"
      PROVE  StopInv'
  BY <1>5, StopQuiet
<1>6. CASE LoopStep
  <2>0. /\ UNCHANGED <<setup, client, wanted, conn, closeTo, keeper, asked, stopped>>
        /\ UNCHANGED <<connect, state, channel, timers, mail, calls>>
    BY <1>6 DEF LoopStep, Swap, Poll, clientVars, history, connectionVars, retryVars
  <2>1. StopInv'
    BY <1>5, <2>0, NoNewStop
  <2>2. CASE Swap
    <3>1. polled' = FALSE /\ due' = Len(mail)
      BY <2>2 DEF Swap
    <3>2. channel' = "off" => ResetDue'
      <4>1. channel = "off" => \E i \in 1..Len(mail) : mail[i] = "reset"
        <5>1. DOMAIN mail = 1..Len(mail)
          BY <1>1
        <5> QED BY <1>1, <5>1 DEF ChannelAgrees
      <4> QED BY <2>0, <3>1, <4>1 DEF ResetDue
    <3> QED BY <2>1, <3>1, <3>2 DEF ResetInv
  <2>3. ASSUME NEW events \in SUBSET {"OUT", "ERR"}, Poll(events) PROVE ResetInv'
    <3>1. ~polled /\ due = 0 /\ polled' = TRUE /\ armed' = timers
      BY <2>3 DEF Poll
    <3>2. (channel = "off" /\ connect) => FALSE
      <4>1. ~ResetDue
        BY <3>1 DEF ResetDue
      <4> QED BY <3>1, <4>1 DEF ResetInv
    <3>3. timers > 0 => state = "kDisconnected"
      BY <1>1 DEF Places, Nowhere, Called, Mailed, Retrying, Attempting, Connected
    <3>4. timers > 0 => channel # "on"
      BY <1>1, <3>3 DEF ChannelAgrees
    <3>5. channel \in {"none", "on", "off"}
      BY DEF TypeOK, ConnectorTypeOK
    <3> QED BY <2>0, <3>1, <3>2, <3>4, <3>5 DEF ResetInv
  <2> QED BY <1>6, <2>1, <2>2, <2>3 DEF LoopStep
<1>7. CASE ConnectorStep
  <2>0. /\ UNCHANGED <<setup, client, wanted, conn, closeTo, keeper, asked, stopped>>
        /\ UNCHANGED <<connect, calls, polled>>
    BY <1>7 DEF ConnectorStep, clientVars, history, TimerFires, StartFunctor, ResetFunctor,
                HandleError, HandleWriteLate, HandleWriteFailed
  <2>1. ASSUME NEW pending, StartInLoop(pending)
        PROVE  /\ state' = "kConnecting" => connect \/ state = "kConnecting"
               /\ channel = "none" => channel' # "off"
    BY <2>1 DEF StartInLoop, Connect, Connecting, Backoff, connectionVars
  <2>2. CASE TimerFires
    <3>1. /\ polled /\ armed > 0 /\ armed' = armed - 1 /\ mail' = mail
          /\ StartInLoop(timers - 1)
      BY <2>2 DEF TimerFires
    <3>2. timers = 1
      BY <1>1, <3>1 DEF Places, Nowhere, Called, Mailed, Retrying, Attempting, Connected
    <3>3. armed' = 0
      BY <1>1, <3>1, <3>2
    <3>4. StopInv'
      BY <1>5, <2>0, <2>1, <3>1, NoNewStop
    <3> QED BY <2>0, <3>1, <3>3, <3>4 DEF ResetInv
  <2>3. CASE StartFunctor
    <3>1. /\ AtFront("start") /\ ~polled /\ mail' = Tail(mail) /\ StartInLoop(timers)
      BY <2>3 DEF StartFunctor, AtFront
    <3>2. StopInv'
      BY <1>5, <2>0, <2>1, <3>1, NoNewStop
    <3>3. ~Absent(mail, "start")
      BY <1>1, <3>1, FunctorTaken, Removed
    <3>4. channel = "none"
      BY <1>1, <3>3
         DEF Places, Nowhere, Called, Mailed, Retrying, Attempting, Connected, Unstarted
    <3>5. channel' # "off"
      BY <2>1, <3>1, <3>4
    <3> QED BY <2>0, <3>1, <3>2, <3>5 DEF ResetInv
  <2>4. CASE ResetFunctor
    <3>1. AtFront("reset") /\ mail' = Tail(mail) /\ channel' = "none" /\ state' = state
      BY <2>4 DEF ResetFunctor
    <3>2. StopInv'
      BY <1>5, <2>0, <3>1, NoNewStop
    <3> QED BY <3>1, <3>2 DEF ResetInv
  <2>5. ASSUME state = "kConnecting", state' = "kDisconnected", armed' = armed,
               mail' = Append(mail, "reset"), ready # {}
        PROVE  StopInv' /\ ResetInv'
    <3>1. StopInv'
      BY <1>4, <1>5, <2>0, <2>5, NoNewStop
    <3>2. polled
      BY <1>1, <2>5 DEF PassInv
    <3> QED BY <1>2, <2>0, <2>5, <3>1, <3>2 DEF ResetInv
  <2>6. ASSUME UNCHANGED <<state, channel, armed, due, mail>>
        PROVE  StopInv' /\ ResetInv'
    <3>1. StopInv'
      BY <1>5, <2>0, <2>6, NoNewStop
    <3> QED BY <1>3, <2>0, <2>6, <3>1, ResetQuiet
  <2>7. CASE HandleError
    BY <2>5, <2>6, <2>7 DEF HandleError, Retry, RemoveAndResetChannel
  <2>8. CASE HandleWriteLate
    BY <2>6, <2>8 DEF HandleWriteLate, connectionVars
  <2>9. CASE HandleWriteFailed
    BY <2>5, <2>9 DEF HandleWriteFailed, Retry, RemoveAndResetChannel
  <2> QED BY <1>7, <2>2, <2>3, <2>4, <2>7, <2>8, <2>9 DEF ConnectorStep
<1>8. CASE StopStep
  <2>0. /\ UNCHANGED <<setup, client, wanted, conn, closeTo, keeper, asked>>
        /\ StopFunctor /\ AtFront("stop") /\ ~polled
        /\ UNCHANGED <<connect, calls, armed, polled>> /\ due' = due - 1
    BY <1>8 DEF StopStep, StopFunctor, clientVars, AtFront
  <2>1. StopUnderway
    <3>1. ~Absent(mail, "stop")
      BY <1>1, <2>0, FunctorTaken, Removed
    <3> QED BY <3>1 DEF StopUnderway
  <2>2. state' # "kConnecting" /\ (StopUnderway' => StopUnderway)
    BY <2>0, <2>1 DEF StopFunctor, Retry
  <2>3. StopInv'
    BY <2>0, <2>1, <2>2, StopQuiet
  <2>4. CASE state = "kConnecting"
    <3>1. ~connect /\ conn = "none"
      BY <1>2, <2>1, <2>4 DEF StopInv
    <3> QED BY <2>0, <2>3, <3>1 DEF ResetInv
  <2>5. CASE state # "kConnecting"
    <3>1. mail' = Tail(mail) /\ channel' = channel
      BY <2>0, <2>5 DEF StopFunctor
    <3>2. ResetDue => ResetDue'
      BY <2>0, <3>1, ResetStaysDue
    <3> QED BY <2>0, <2>3, <3>1, <3>2, ResetQuiet
  <2> QED BY <2>4, <2>5
<1>9. CASE NewConnection
  <2>0. /\ UNCHANGED <<setup, client, wanted, closeTo, keeper, asked, stopped>>
        /\ IF connect THEN conn' = "open" ELSE conn' = conn
        /\ state = "kConnecting" /\ state' = "kConnected" /\ ready = {"OUT"}
        /\ mail' = Append(mail, "reset")
        /\ UNCHANGED <<connect, calls, armed, polled>>
    BY <1>9 DEF NewConnection, history, HandleWriteDone, RemoveAndResetChannel
  <2>1. StopUnderway' => StopUnderway
    BY <1>4, <2>0, NoNewStop
  <2>2. StopInv'
    BY <1>2, <2>0, <2>1, StopQuiet
  <2>3. polled
    BY <1>1, <2>0 DEF PassInv
  <2> QED BY <1>2, <2>0, <2>2, <2>3 DEF ResetInv
<1> QED BY <1>6, <1>7, <1>8, <1>9

(* nor does the end of a connection and what comes after it,                *)
LEMMA OrderConnection ==
    ASSUME TypeOK, LifeInv, StopInv, ResetInv,
           \/ ConnectionEnds \/ ForceCloseFunctor \/ CloseCallback \/ RestartStep
           \/ DestroyFunctor \/ KeeperFires
    PROVE  StopInv' /\ ResetInv'
<1>1. Places /\ armed \in 0..timers /\ timers \in Nat
  BY DEF LifeInv, TypeOK, ConnectorTypeOK
<1>2. UNCHANGED <<mail, due>> => (ResetDue <=> ResetDue')
  BY DEF ResetDue
<1>3. ASSUME UNCHANGED <<setup, connect, wanted, closeTo, stopped, state, channel>>,
             UNCHANGED <<polled, armed>>, StopUnderway' => StopUnderway,
             conn' = "closed" =>
                \/ conn = "closed"
                \/ conn # "none" /\ wanted /\ setup.retry /\ closeTo # "nobody",
             conn' # "none" => conn # "none", ResetDue => ResetDue'
      PROVE  StopInv' /\ ResetInv'
  BY <1>3, StopQuiet, ResetQuiet
<1>4. CASE ConnectionEnds \/ KeeperFires
  <2>1. /\ UNCHANGED <<setup, connect, wanted, closeTo, stopped, state, channel>>
        /\ UNCHANGED <<polled, armed, mail, due, calls>>
        /\ conn' = conn \/ (conn # "none" /\ conn' = "closing")
    BY <1>4 DEF ConnectionEnds, KeeperFires, connectorVars, connectionVars, retryVars,
                passVars, history
  <2>2. StopUnderway' => StopUnderway
    BY <2>1, NoNewStop
  <2> QED BY <1>2, <1>3, <2>1, <2>2
<1>5. CASE ForceCloseFunctor
  <2>1. /\ UNCHANGED <<setup, connect, wanted, closeTo, stopped, state, channel>>
        /\ UNCHANGED <<polled, armed, calls>> /\ AtFront("forceClose")
        /\ mail' = Tail(mail) /\ due' = due - 1
        /\ conn' = "none" \/ (conn # "none" /\ conn' = "closing")
        /\ conn' = "none" <=> conn = "none"
    BY <1>5 DEF ForceCloseFunctor, connectionVars, retryVars, history
  <2>2. (StopUnderway' => StopUnderway) /\ (ResetDue => ResetDue')
    BY <2>1, NoNewStop, ResetStaysDue
  <2> QED BY <1>3, <2>1, <2>2
<1>6. CASE DestroyFunctor
  <2>1. /\ UNCHANGED <<setup, connect, wanted, closeTo, stopped, state, channel, conn>>
        /\ UNCHANGED <<polled, armed, calls>> /\ AtFront("destroy")
        /\ mail' = Tail(mail) /\ due' = due - 1
    BY <1>6 DEF DestroyFunctor, connectionVars, retryVars, history, clientVars
  <2>2. (StopUnderway' => StopUnderway) /\ (ResetDue => ResetDue')
    BY <2>1, NoNewStop, ResetStaysDue
  <2> QED BY <1>3, <2>1, <2>2
<1>7. CASE CloseCallback
  <2>1. /\ UNCHANGED <<setup, connect, wanted, closeTo, stopped, state, channel>>
        /\ UNCHANGED <<polled, armed, calls, due>> /\ mail' = Append(mail, "destroy")
        /\ conn = "closing" /\ (conn' = "none" \/ conn' = "closed")
        /\ conn' = "closed" => closeTo = "client" /\ setup.retry /\ wanted
    BY <1>7 DEF CloseCallback, connectionVars, retryVars, passVars, history
  <2>2. "destroy" \in Functors \ {"stop"}
    BY DEF Functors
  <2>3. (StopUnderway' => StopUnderway) /\ (ResetDue => ResetDue')
    BY <2>1, <2>2, NoNewStop, ResetStaysDue
  <2> QED BY <1>3, <2>1, <2>3
<1>8. CASE RestartStep
  <2>1. /\ conn = "closed" /\ conn' = "none" /\ Connect(timers, 1)
        /\ UNCHANGED <<mail, due, calls, polled, armed, stopped>>
    BY <1>8 DEF RestartStep, Restart, passVars, history
  <2>2. ~StopUnderway' /\ ~stopped'
    <3>1. ~StopUnderway /\ ~stopped
      BY <2>1 DEF StopInv
    <3> QED BY <2>1, <3>1, NoNewStop
  <2>3. armed' = 0
    <3>1. timers = 0
      BY <1>1, <2>1 DEF Places, Nowhere, Called, Mailed, Retrying, Attempting, Connected
    <3> QED BY <1>1, <2>1, <3>1
  <2>4. channel' = "off" => channel = "off"
    BY <2>1 DEF Connect, Connecting
  <2>5. ResetInv'
    BY <1>2, <2>1, <2>3, <2>4 DEF ResetInv
  <2> QED BY <2>2, <2>5 DEF StopInv
<1> QED BY <1>4, <1>5, <1>6, <1>7, <1>8

(* nor a call of the user in the loop,                                      *)
LEMMA OrderLoopCall ==
    ASSUME TypeOK, LifeInv, StopInv, ResetInv, NEW call, LoopCall(call)
    PROVE  StopInv' /\ ResetInv'
<1>1. /\ armed \in 0..timers /\ timers \in Nat
      /\ client = "alive" /\ conn # "closed"
  BY DEF TypeOK, ConnectorTypeOK, LoopCall
<1>2. UNCHANGED <<mail, due>> => (ResetDue <=> ResetDue')
  BY DEF ResetDue
<1>3. /\ stopped => state # "kConnecting"
      /\ conn # "none" => \/ ~(StopUnderway \/ stopped) \/ ~wanted \/ ~setup.retry
                          \/ closeTo = "nobody"
  BY DEF StopInv
<1>4. CASE LoopConnect
  <2>1. /\ ~asked /\ Connect(timers, delay) /\ ~stopped'
        /\ UNCHANGED <<mail, calls, polled, armed>>
    BY <1>4 DEF LoopConnect, MayConnect, StartHere, passVars
  <2>2. /\ Nowhere /\ channel = "none" /\ ~StopUnderway
    BY <1>1, <2>1 DEF LifeInv, Fresh
  <2>3. ~StopUnderway'
    BY <2>1, <2>2, NoNewStop
  <2>4. armed' = 0
    BY <1>1, <2>1, <2>2 DEF Nowhere
  <2>5. channel' # "off"
    BY <2>1, <2>2 DEF Connect, Connecting
  <2> QED BY <2>1, <2>3, <2>4, <2>5 DEF StopInv, ResetInv
<1>5. CASE LoopDisconnect
  <2>1. /\ UNCHANGED <<setup, connect, closeTo, stopped, state, channel>> /\ ~wanted'
        /\ UNCHANGED <<polled, armed, mail, due, calls>>
        /\ conn' = IF conn = "open" THEN "shut" ELSE conn
    BY <1>5 DEF LoopDisconnect, ShutDown, connectorVars, connectionVars, retryVars,
                passVars, history
  <2>2. StopUnderway' => StopUnderway
    BY <2>1, NoNewStop
  <2>3. conn' # "closed" /\ (conn' = "none" <=> conn = "none")
    BY <1>1, <2>1
  <2>4. StopInv'
    BY <2>1, <2>2, <2>3, StopQuiet
  <2> QED BY <1>2, <2>1, <2>3, <2>4, ResetQuiet
<1>6. ASSUME StopHere
      PROVE  /\ UNCHANGED <<state, channel, armed, polled>> /\ ~connect'
             /\ ResetDue => ResetDue'
  <2>1. mail' = Append(mail, "stop") /\ due' = due /\ "stop" \in Functors
    BY <1>6 DEF StopHere, passVars, Functors
  <2> QED BY <1>6, <2>1, ResetStaysDue DEF StopHere, connectionVars, passVars
<1>7. CASE LoopStop
  <2>1. StopHere /\ ~wanted' /\ UNCHANGED <<conn, stopped>>
    BY <1>7 DEF LoopStop, history
  <2>2. StopInv'
    BY <1>1, <1>3, <1>6, <2>1 DEF StopInv
  <2> QED BY <1>6, <2>1, <2>2, ResetQuiet
<1>8. CASE LoopDestroy
  <2>0. UNCHANGED <<setup, stopped, wanted>>
    BY <1>8 DEF LoopDestroy, history
  <2>1. ASSUME conn # "none", closeTo' = "nobody",
               \/ UNCHANGED <<connectorVars, conn>>
               \/ /\ conn \in {"open", "shut"} /\ conn' = "shut"
                  /\ mail' = Append(mail, "forceClose")
                  /\ UNCHANGED <<connect, connectionVars, retryVars, passVars, calls>>
        PROVE  StopInv' /\ ResetInv'
    <3>1. /\ UNCHANGED <<connect, state, channel, polled, armed, calls, due>>
          /\ conn' # "none" /\ conn' # "closed"
          /\ mail' = mail \/ mail' = Append(mail, "forceClose")
      BY <1>1, <2>1 DEF connectorVars, connectionVars, retryVars, passVars
    <3>2. "forceClose" \in Functors \ {"stop"}
      BY DEF Functors
    <3>3. StopUnderway' => StopUnderway
      BY <3>1, <3>2, NoNewStop
    <3>4. ResetDue => ResetDue'
      BY <1>2, <3>1, <3>2, ResetStaysDue
    <3>5. StopInv'
      BY <2>0, <2>1, <3>1, <3>3, StopQuiet
    <3> QED BY <2>1, <3>1, <3>4, <3>5, ResetQuiet
  <2>2. ASSUME conn = "none", StopHere, UNCHANGED <<conn, closeTo>>
        PROVE  StopInv' /\ ResetInv'
    <3>1. StopInv'
      BY <1>3, <1>6, <2>0, <2>2 DEF StopInv
    <3> QED BY <1>6, <2>2, <3>1, ResetQuiet
  <2> QED BY <1>8, <2>1, <2>2 DEF LoopDestroy
<1> QED BY <1>4, <1>5, <1>7, <1>8 DEF LoopCall

(* or in another thread.                                                    *)
LEMMA OrderForeign ==
    ASSUME TypeOK, LifeInv, StopInv, ResetInv, Ordered, NEW t \in Threads,
           ForeignQueue(t) \/ \E call \in setup.foreignCalls : ForeignCall(t, call)
    PROVE  StopInv' /\ ResetInv'
<1>1. /\ armed \in 0..timers /\ timers \in Nat /\ mail \in Seq(Functors)
      /\ calls \in [Threads -> {"none", "start", "stop"}] /\ PassInv
  BY DEF TypeOK, ConnectorTypeOK, LifeInv
<1>2. UNCHANGED <<mail, due>> => (ResetDue <=> ResetDue')
  BY DEF ResetDue
<1>3. CASE ForeignQueue(t)
  <2>1. /\ calls[t] # "none" /\ calls' = [calls EXCEPT ![t] = "none"]
        /\ mail' = Append(mail, calls[t]) /\ due' = due
        /\ UNCHANGED <<setup, connect, wanted, closeTo, stopped, state, channel, conn>>
        /\ UNCHANGED <<polled, armed>>
    BY <1>3 DEF ForeignQueue, Queue, connectionVars, retryVars, passVars, clientVars,
                history
  <2>2. calls[t] \in Functors
    BY <1>1, <2>1 DEF Functors
  <2>3. StopUnderway' => StopUnderway
    <3>1. CASE calls[t] = "stop"
      BY <3>1 DEF StopUnderway
    <3>2. CASE calls[t] # "stop"
      <4>1. Keeps(mail, mail', "stop")
        BY <1>1, <2>1, <2>2, <3>2, Appended
      <4>2. \A u \in Threads : calls'[u] = "stop" => calls[u] = "stop"
        BY <1>1, <2>1
      <4> QED BY <4>1, <4>2 DEF StopUnderway, Keeps
    <3> QED BY <3>1, <3>2
  <2>4. StopInv'
    BY <2>1, <2>3, StopQuiet
  <2>5. ResetDue => ResetDue'
    BY <2>1, <2>2, ResetStaysDue
  <2> QED BY <2>1, <2>4, <2>5, ResetQuiet
<1>4. ASSUME NEW call \in setup.foreignCalls, ForeignCall(t, call)
      PROVE  StopInv' /\ ResetInv'
  <2>0. client = "alive"
    BY <1>4 DEF ForeignCall
  <2>1. CASE ForeignConnect(t)
    <3>1. /\ ~asked /\ calls' = [calls EXCEPT ![t] = "start"] /\ mail' = mail /\ ~stopped'
          /\ UNCHANGED <<channel, armed>>
      BY <2>1 DEF ForeignConnect, MayConnect, Call, connectionVars, retryVars, passVars
    <3>2. /\ Nowhere /\ channel = "none" /\ ~StopUnderway
      BY <2>0, <3>1 DEF LifeInv, Fresh
    <3>3. \A u \in Threads : calls'[u] = "stop" => calls[u] = "stop"
      BY <1>1, <3>1
    <3>4. ~StopUnderway'
      BY <3>1, <3>2, <3>3 DEF StopUnderway
    <3> QED BY <3>1, <3>2, <3>4 DEF StopInv, ResetInv
  <2>2. CASE ForeignDisconnect(t)
    <3>1. /\ UNCHANGED <<setup, connect, closeTo, stopped, state, channel>> /\ ~wanted'
          /\ UNCHANGED <<polled, armed, mail, due, calls>>
          /\ conn' = IF conn = "open" THEN "shut" ELSE conn
      BY <2>2 DEF ForeignDisconnect, ShutDown, connectorVars, connectionVars, retryVars,
                  passVars, history
    <3>2. StopUnderway' => StopUnderway
      BY <3>1, NoNewStop
    <3>3. (conn' = "closed" => conn = "closed") /\ (conn' = "none" <=> conn = "none")
      BY <3>1
    <3>4. StopInv'
      BY <3>1, <3>2, <3>3, StopQuiet
    <3> QED BY <1>2, <3>1, <3>3, <3>4, ResetQuiet
  <2>3. CASE call = "stop" /\ ForeignStop(t)
    <3>1. /\ ~connect' /\ ~wanted'
          /\ UNCHANGED <<state, channel, armed, polled, mail, due, conn, stopped>>
      BY <2>3 DEF ForeignStop, Call, connectionVars, retryVars, passVars, history
    <3>2. conn # "closed"
      BY <1>1, <1>4, <2>3 DEF Ordered, PassInv
    <3>3. stopped => state # "kConnecting"
      BY DEF StopInv
    <3>4. StopInv'
      BY <3>1, <3>2, <3>3 DEF StopInv
    <3> QED BY <1>2, <3>1, <3>4, ResetQuiet
  <2> QED BY <1>4, <2>1, <2>2, <2>3 DEF ForeignCall
<1> QED BY <1>3, <1>4

(* A stop stays in effect, in programs whose stops are in order.            *)
LEMMA OrderStep ==
    ASSUME TypeOK, LifeInv, OrderInv, [Next]_vars
    PROVE  OrderInv'
<1>1. setup' = setup
  BY DEF Next, Loop, User, LoopStep, ConnectorStep, StopStep, NewConnection, ConnectionEnds,
         ForceCloseFunctor, CloseCallback, RestartStep, DestroyFunctor, KeeperFires,
         LoopCall, LoopConnect, LoopDisconnect, LoopStop, LoopDestroy, ForeignQueue,
         ForeignCall, ForeignConnect, ForeignDisconnect, ForeignStop, vars
<1>2. Ordered' <=> Ordered
  BY <1>1 DEF Ordered
<1>3. SUFFICES ASSUME Ordered PROVE StopInv' /\ ResetInv'
  BY <1>2 DEF OrderInv
<1>4. StopInv /\ ResetInv
  BY <1>3 DEF OrderInv
<1>5. CASE Loop
  BY <1>4, <1>5, OrderLoop, OrderConnection DEF Loop
<1>6. CASE User
  BY <1>3, <1>4, <1>6, OrderLoopCall, OrderForeign DEF User
<1>7. CASE UNCHANGED vars
  BY <1>4, <1>7
     DEF vars, connectorVars, connectionVars, retryVars, passVars, clientVars, history,
         StopInv, ResetInv, ResetDue, StopUnderway
<1> QED BY <1>5, <1>6, <1>7 DEF Next

-----------------------------------------------------------------------------
(* ClientInv is an invariant of the client, whatever connect(2), the peer,  *)
(* the loop and the threads that use it do.                                 *)
THEOREM Invariance == Spec => []ClientInv
<1>1. ASSUME Init PROVE ClientInv
  <2> USE <1>1 DEF Init, ConnectorInit
  <2>1. mail \in Seq(Functors) /\ Len(mail) = 0 /\ DOMAIN mail = {}
    OBVIOUS
  <2>2. TypeOK
    <3>1. delay \in 1..MaxDelay /\ armed \in 0..timers /\ due \in 0..Len(mail)
      BY <2>1, DelayAssumption
    <3>2. calls \in [Threads -> {"none", "start", "stop"}]
      OBVIOUS
    <3>3. /\ connect \in BOOLEAN /\ polled \in BOOLEAN /\ gaveUp \in BOOLEAN
          /\ wanted \in BOOLEAN /\ keeper \in BOOLEAN /\ asked \in BOOLEAN
          /\ stopped \in BOOLEAN
      OBVIOUS
    <3>4. /\ state \in {"kDisconnected", "kConnecting", "kConnected"}
          /\ channel \in {"none", "on", "off"} /\ ready \subseteq {"OUT", "ERR"}
          /\ sockets \in Nat /\ timers \in Nat /\ setup \in Setups
          /\ client \in {"alive", "destroyed"} /\ closeTo \in {"client", "nobody"}
          /\ conn \in {"none", "open", "shut", "closing", "closed"}
      OBVIOUS
    <3> QED BY <2>1, <3>1, <3>2, <3>3, <3>4 DEF TypeOK, ConnectorTypeOK
  <2>3. /\ \A f : Absent(mail, f)
        /\ NoCaller /\ Nowhere /\ ~StopUnderway
    BY <2>1 DEF Absent, NoCaller, Nowhere, Unstarted, StopUnderway
  <2>4. /\ ChannelAgrees /\ Places /\ ResetQueued /\ Underway /\ Fresh /\ Orphaned
        /\ PassInv
    BY <2>3 DEF ChannelAgrees, Places, ResetQueued, Underway, Fresh, Orphaned, PassInv
  <2>5. StopInv /\ ResetInv
    BY <2>3 DEF StopInv, ResetInv
  <2> QED BY <2>2, <2>4, <2>5 DEF ClientInv, LifeInv, OrderInv
<1>2. ClientInv /\ [Next]_vars => ClientInv'
  <2> SUFFICES ASSUME ClientInv, [Next]_vars PROVE ClientInv'
    OBVIOUS
  <2>1. TypeOK /\ LifeInv /\ OrderInv /\ ChannelAgrees
    BY DEF ClientInv, LifeInv
  <2> QED BY <2>1, TypeStep, LifeStep, OrderStep DEF ClientInv
<1> QED BY <1>1, <1>2, PTL DEF Spec

(* The places as the numbers they are counted by.                           *)
LEMMA PlacesCounted ==
    ASSUME TypeOK, LifeInv
    PROVE  Attempts = IF Nowhere THEN 0 ELSE 1
<1> DEFINE M == {i \in DOMAIN mail : mail[i] = "start"}
           C == {t \in Threads : calls[t] = "start"}
<1>1. Absent(mail, "start") => Cardinality(M) = 0
  <2>1. Absent(mail, "start") => M = {}
    BY DEF Absent
  <2> QED BY <2>1, FS_EmptySet
<1>2. Once(mail, "start") => Cardinality(M) = 1
  <2>1. ASSUME Once(mail, "start") PROVE \E i : M = {i}
    BY <2>1 DEF Once
  <2> QED BY <2>1, FS_Singleton
<1>3. NoCaller => Cardinality(C) = 0
  <2>1. NoCaller => C = {}
    BY DEF NoCaller
  <2> QED BY <2>1, FS_EmptySet
<1>4. OneCaller => Cardinality(C) = 1
  <2>1. ASSUME OneCaller PROVE \E t : C = {t}
    BY <2>1 DEF OneCaller
  <2> QED BY <2>1, FS_Singleton
<1>5. Attempts = Cardinality(M) + Cardinality(C) + timers + One(state = "kConnecting")
                    + One(conn # "none")
  BY DEF Attempts
<1> HIDE DEF M, C
<1>6. CASE Nowhere
  BY <1>1, <1>3, <1>5, <1>6 DEF Nowhere, Unstarted, One
<1>7. CASE Called
  <2>1. ~Nowhere
    BY <1>7, PlacesDiffer
  <2> QED BY <1>1, <1>4, <1>5, <1>7, <2>1 DEF Called, One
<1>8. CASE Mailed
  <2>1. ~Nowhere
    BY <1>8, PlacesDiffer
  <2> QED BY <1>2, <1>3, <1>5, <1>8, <2>1 DEF Mailed, One
<1>9. CASE Retrying \/ Attempting \/ Connected
  <2>1. ~Nowhere
    BY <1>9, PlacesDiffer
  <2> QED BY <1>1, <1>3, <1>5, <1>9, <2>1 DEF Retrying, Attempting, Connected, Unstarted, One
<1> QED BY <1>6, <1>7, <1>8, <1>9 DEF LifeInv, Places

(* There is never more than one attempt, timer or connection, and one as    *)
(* long as it is wanted; a start finds the connector idle.                  *)
THEOREM OneAtATime == Spec => []AttemptInv
<1>1. ClientInv => AttemptInv
  <2> SUFFICES ASSUME ClientInv PROVE AttemptInv
    OBVIOUS
  <2>1. TypeOK /\ LifeInv /\ OrderInv /\ ChannelAgrees /\ Places /\ Underway
    BY DEF ClientInv, LifeInv
  <2>2. Attempts = IF Nowhere THEN 0 ELSE 1
    BY <2>1, PlacesCounted
  <2>3. OneAttempt
    BY <2>2 DEF OneAttempt
  <2>4. AttemptUnderway
    BY <2>1, <2>2 DEF AttemptUnderway, Underway
  <2>5. ASSUME Ordered PROVE StartFindsIdle
    <3>1. ResetInv /\ mail \in Seq(Functors) /\ armed \in 0..timers /\ timers \in Nat
      BY <2>1, <2>5 DEF OrderInv, TypeOK, ConnectorTypeOK
    <3>2. ASSUME AtFront("start") PROVE state = "kDisconnected" /\ channel = "none"
      <4>1. ~Absent(mail, "start")
        BY <2>1, <3>1, <3>2, FunctorTaken, Removed
      <4> QED BY <2>1, <4>1 DEF Places, Nowhere, Called, Mailed, Retrying, Attempting,
                                Connected, Unstarted
    <3>3. ASSUME polled, armed > 0
          PROVE  state = "kDisconnected" /\ (connect => channel = "none")
      <4>1. timers # 0
        BY <3>1, <3>3
      <4>2. state = "kDisconnected"
        BY <2>1, <4>1 DEF Places, Nowhere, Called, Mailed, Retrying, Attempting, Connected
      <4> QED BY <3>1, <3>3, <4>2 DEF ResetInv
    <3> QED BY <3>2, <3>3 DEF StartFindsIdle
  <2> QED BY <2>1, <2>3, <2>4, <2>5 DEF AttemptInv
<1> QED BY <1>1, Invariance, PTL

(* After a stop that was executed no attempt is begun.                      *)
THEOREM StopsAreFinal == Spec => []StopIsFinal
<1>1. ClientInv => StopIsFinal
  BY DEF ClientInv, OrderInv, StopInv, StopIsFinal
<1> QED BY <1>1, Invariance, PTL

(* A client that was destroyed is not called by connector or connection.    *)
THEOREM DestroyedIsLeftAlone == Spec => []DestroyedIsNotCalled
<1>1. ClientInv => DestroyedIsNotCalled
  BY DEF ClientInv, LifeInv, Orphaned, Nowhere, Connected, DestroyedIsNotCalled
<1> QED BY <1>1, Invariance, PTL

=============================================================================
