------------------------------ MODULE Connector ------------------------------
(***************************************************************************)
(* src/src/net/Connector.{h,cc}: makes one connection, trying again with a *)
(* growing delay.  start and stop are called by the loop thread and by     *)
(* others; what they do to the connector happens in the loop, whose passes *)
(* (poll, handle events and timers, run the functors queued by then) are   *)
(* as EventLoop has them.  newConnectionCallback_ is TcpClient's.          *)
(*                                                                         *)
(* A failed assertion ends the process: the step is not enabled.           *)
(***************************************************************************)
EXTENDS Naturals, Sequences

CONSTANTS
    Threads,    \* threads other than the loop's that call start and stop
    MaxDelay    \* kMaxRetryDelayMs, in units of kInitRetryDelayMs

ASSUME DelayAssumption == MaxDelay \in Nat \ {0}

VARIABLES
    connect,    \* connect_
    state,      \* state_
    channel,    \* channel_: "none", "on" (asks for writability), "off"
                \* (removed from the poller, to be reset)
    sockets,    \* open sockets the connector is responsible for
    delay,      \* retryDelayMs_
    timers,     \* retry timers that have not fired
    armed,      \* those of them that may fire in this pass
    ready,      \* events of the channel this pass has still to handle
    polled,     \* the loop handles what its last poll returned
    mail,       \* functors queued in the loop
    due,        \* those of them left in this pass of doPendingFunctors
    calls,      \* per thread: "start" or "stop" between its assignment to
                \* connect_ and its functor
    gaveUp      \* history: connect(2) failed with an error that is not retried

connectionVars == <<state, channel, sockets, gaveUp>>
retryVars == <<delay, timers>>
passVars == <<armed, ready, polled, due>>
connectorVars == <<connect, connectionVars, retryVars, passVars, mail, calls>>

ConnectorTypeOK ==
    /\ connect \in BOOLEAN
    /\ state \in {"kDisconnected", "kConnecting", "kConnected"}
    /\ channel \in {"none", "on", "off"}
    /\ sockets \in Nat
    /\ delay \in 1..MaxDelay
    /\ timers \in Nat
    /\ armed \in 0..timers
    /\ ready \subseteq {"OUT", "ERR"}
    /\ polled \in BOOLEAN
    /\ due \in 0..Len(mail)
    /\ calls \in [Threads -> {"none", "start", "stop"}]
    /\ gaveUp \in BOOLEAN

ConnectorInit ==
    /\ connect = FALSE
    /\ state = "kDisconnected"
    /\ channel = "none"
    /\ sockets = 0
    /\ delay = 1
    /\ timers = 0
    /\ armed = 0
    /\ ready = {}
    /\ polled = FALSE
    /\ mail = <<>>
    /\ due = 0
    /\ calls = [t \in Threads |-> "none"]
    /\ gaveUp = FALSE

-----------------------------------------------------------------------------
(* Parts of the handlers; pending is the number of retry timers without the *)
(* one that fires, wait the delay of the next, queued the mail without the  *)
(* functor that runs.                                                       *)

(* Mutant: no timer is set. *)
BackoffNever(pending, wait) ==
    /\ timers' = pending
    /\ delay' = wait

(* The back-off of retry. *)
Backoff(pending, wait) ==
    /\ timers' = pending + 1
    /\ delay' = IF 2 * wait < MaxDelay THEN 2 * wait ELSE MaxDelay

(* retry *)
Retry ==
    /\ sockets' = sockets - 1
    /\ state' = "kDisconnected"
    /\ IF connect THEN Backoff(timers, delay) ELSE UNCHANGED retryVars

(* connecting *)
Connecting ==
    /\ channel = "none"
    /\ state' = "kConnecting"
    /\ channel' = "on"
    /\ sockets' = sockets + 1

(* connect(): the attempt is underway; or is to be repeated; or the error   *)
(* is one that is only logged.                                              *)
Connect(pending, wait) ==
    \/ /\ Connecting
       /\ timers' = pending /\ delay' = wait
       /\ gaveUp' = FALSE
    \/ /\ Backoff(pending, wait)
       /\ state' = "kDisconnected"
       /\ gaveUp' = FALSE
       /\ UNCHANGED <<channel, sockets>>
    \/ /\ timers' = pending /\ delay' = wait
       /\ state' = "kDisconnected"
       /\ gaveUp' = TRUE
       /\ UNCHANGED <<channel, sockets>>

(* Mutant: connect_ is not tested. *)
StartInLoopAnyway(pending) ==
    /\ state = "kDisconnected"
    /\ Connect(pending, delay)

(* startInLoop *)
StartInLoop(pending) ==
    /\ state = "kDisconnected"
    /\ IF connect
         THEN Connect(pending, delay)
         ELSE timers' = pending /\ UNCHANGED <<connectionVars, delay>>

(* Mutant: the channel object is never reset. *)
RemoveChannelOnly(queued) ==
    /\ channel = "on"
    /\ channel' = "off"
    /\ mail' = queued

(* removeAndResetChannel *)
RemoveAndResetChannel(queued) ==
    /\ channel = "on"
    /\ channel' = "off"
    /\ mail' = Append(queued, "reset")

-----------------------------------------------------------------------------
(* The loop.                                                                *)

(* epoll_wait returns. *)
Poll(events) ==
    /\ ~polled /\ due = 0
    /\ channel = "on" \/ events = {}
    /\ polled' = TRUE
    /\ ready' = events
    /\ armed' = timers
    /\ UNCHANGED <<connect, connectionVars, retryVars, due, mail, calls>>

(* doPendingFunctors takes the functors. *)
Swap ==
    /\ polled /\ ready = {}
    /\ polled' = FALSE
    /\ due' = Len(mail)
    /\ UNCHANGED <<connect, connectionVars, retryVars, armed, ready, mail, calls>>

(* A retry timer calls startInLoop. *)
TimerFires ==
    /\ polled
    /\ armed > 0
    /\ armed' = armed - 1
    /\ StartInLoop(timers - 1)
    /\ UNCHANGED <<connect, ready, polled, due, mail, calls>>

(* The functor at the front of this pass. *)
AtFront(f) == ~polled /\ due > 0 /\ Head(mail) = f

StartFunctor ==
    /\ AtFront("start")
    /\ StartInLoop(timers)
    /\ mail' = Tail(mail)
    /\ due' = due - 1
    /\ UNCHANGED <<connect, armed, ready, polled, calls>>

(* stopInLoop *)
StopFunctor ==
    /\ AtFront("stop")
    /\ due' = due - 1
    /\ IF state = "kConnecting"
         THEN RemoveAndResetChannel(Tail(mail)) /\ Retry
         ELSE mail' = Tail(mail) /\ UNCHANGED <<channel, state, sockets, retryVars>>
    /\ UNCHANGED <<connect, gaveUp, armed, ready, polled, calls>>

(* resetChannel *)
ResetFunctor ==
    /\ AtFront("reset")
    /\ channel' = "none"
    /\ mail' = Tail(mail)
    /\ due' = due - 1
    /\ UNCHANGED <<connect, state, sockets, gaveUp, retryVars, armed, ready,
                   polled, calls>>

(* handleError *)
HandleError ==
    /\ "ERR" \in ready
    /\ ready' = ready \ {"ERR"}
    /\ IF state = "kConnecting"
         THEN RemoveAndResetChannel(mail) /\ Retry
         ELSE UNCHANGED <<mail, channel, state, sockets, retryVars>>
    /\ UNCHANGED <<connect, gaveUp, armed, polled, due, calls>>

(* handleWrite, when the channel is not connecting any more, *)
HandleWriteLate ==
    /\ ready = {"OUT"}
    /\ state = "kDisconnected"
    /\ ready' = {}
    /\ UNCHANGED <<connect, connectionVars, retryVars, armed, polled, due, mail,
                   calls>>

(* when SO_ERROR is set or the socket is connected to itself, *)
HandleWriteFailed ==
    /\ ready = {"OUT"}
    /\ state = "kConnecting"
    /\ ready' = {}
    /\ RemoveAndResetChannel(mail)
    /\ Retry
    /\ UNCHANGED <<connect, gaveUp, armed, polled, due, calls>>

(* when the connection is made: the socket is closed, or handed to          *)
(* newConnectionCallback_.                                                  *)
HandleWriteDone ==
    /\ ready = {"OUT"}
    /\ state = "kConnecting"
    /\ ready' = {}
    /\ RemoveAndResetChannel(mail)
    /\ state' = "kConnected"
    /\ sockets' = sockets - 1
    /\ UNCHANGED <<connect, gaveUp, retryVars, armed, polled, due, calls>>

-----------------------------------------------------------------------------
(* What the loop thread and others call.                                    *)

(* start called in the loop thread, *)
StartHere ==
    /\ connect' = TRUE
    /\ state = "kDisconnected"
    /\ Connect(timers, delay)
    /\ UNCHANGED <<passVars, mail, calls>>

(* restart, of the loop thread only, *)
Restart ==
    /\ connect' = TRUE
    /\ Connect(timers, 1)
    /\ UNCHANGED <<passVars, calls>>

(* and stop, which is queued in any case. *)
StopHere ==
    /\ connect' = FALSE
    /\ mail' = Append(mail, "stop")
    /\ UNCHANGED <<connectionVars, retryVars, passVars, calls>>

(* start or stop called in another thread, up to the assignment, *)
Call(t, what) ==
    /\ calls[t] = "none"
    /\ calls' = [calls EXCEPT ![t] = what]
    /\ connect' = (what = "start")
    /\ UNCHANGED <<connectionVars, retryVars, passVars, mail>>

(* and the functor. *)
Queue(t) ==
    /\ calls[t] # "none"
    /\ calls' = [calls EXCEPT ![t] = "none"]
    /\ mail' = Append(mail, calls[t])
    /\ UNCHANGED <<connect, connectionVars, retryVars, passVars>>

-----------------------------------------------------------------------------
(* connecting() has a channel of its own, in the poller exactly while the   *)
(* connection is being made; one that is removed is reset by a functor; and *)
(* the one socket open is that of the attempt (Connector.cc:137-166).       *)
ChannelAgrees ==
    /\ channel = "on" <=> state = "kConnecting"
    /\ channel = "off" => \E i \in DOMAIN mail : mail[i] = "reset"
    /\ sockets = IF state = "kConnecting" THEN 1 ELSE 0

(* startInLoop finds the connector idle, as its assertion and that of       *)
(* connecting() say (Connector.cc:53, 141).                                 *)
StartFindsIdle ==
    (AtFront("start") \/ (polled /\ armed > 0))
        => state = "kDisconnected" /\ (connect => channel = "none")

=============================================================================
