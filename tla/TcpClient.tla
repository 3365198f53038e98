------------------------------ MODULE TcpClient ------------------------------
(***************************************************************************)
(* src/src/net/TcpClient.{h,cc}: a Connector and the one TcpConnection it  *)
(* leads to, which is made again when it ends, if the user wants that.  Of *)
(* the connection only what TcpConnection's CallbacksInOrder says is used: *)
(* its end is told to the user, then to its close callback, once.          *)
(***************************************************************************)
EXTENDS Connector, FiniteSets

CONSTANT Setups     \* what programs are looked at

(* retry: enableRetry has been called; loopCalls, foreignCalls: what the    *)
(* loop thread and others call.                                             *)
ASSUME SetupAssumption ==
    Setups \subseteq
        [retry : BOOLEAN,
         loopCalls : SUBSET {"connect", "disconnect", "stop", "destroy"},
         foreignCalls : SUBSET {"connect", "disconnect", "stop"}]

VARIABLES
    setup,      \* the program, one of Setups
    client,     \* "alive" or "destroyed"
    wanted,     \* connect_ of TcpClient
    conn,       \* its connection: "none", "open", "shut" (shutdown or
                \* forceClose called), "closing" (in the user's callback at
                \* its end), "closed" (before removeConnection's restart)
    closeTo,    \* whose closeCallback_ the connection has: "client" or, after
                \* the destructor, "nobody"
    keeper,     \* the timer that keeps the connector for a second
    asked,      \* history: connect has been called
    stopped     \* history: a stop() has been executed in the loop

clientVars == <<client, wanted, conn, closeTo, keeper>>
history == <<asked, stopped>>
vars == <<setup, connectorVars, clientVars, history>>

Functors == {"start", "stop", "reset", "forceClose", "destroy"}

TypeOK ==
    /\ ConnectorTypeOK
    /\ mail \in Seq(Functors)
    /\ setup \in Setups
    /\ client \in {"alive", "destroyed"}
    /\ wanted \in BOOLEAN
    /\ conn \in {"none", "open", "shut", "closing", "closed"}
    /\ closeTo \in {"client", "nobody"}
    /\ keeper \in BOOLEAN
    /\ asked \in BOOLEAN
    /\ stopped \in BOOLEAN

Init ==
    /\ ConnectorInit
    /\ setup \in Setups
    /\ client = "alive"
    /\ wanted = TRUE
    /\ conn = "none"
    /\ closeTo = "client"
    /\ keeper = FALSE
    /\ asked = FALSE
    /\ stopped = FALSE

-----------------------------------------------------------------------------
(* Somebody holds the Connector: the client, or a timer. *)
ConnectorAlive == client = "alive" \/ timers > 0 \/ keeper

(* The loop is not in a callback. *)
LoopFree == conn \notin {"closing", "closed"}

-----------------------------------------------------------------------------
(* The loop: what the connector does of its own. *)
LoopStep ==
    /\ LoopFree
    /\ \/ Swap
       \/ \E events \in SUBSET {"OUT", "ERR"} : Poll(events)
    /\ UNCHANGED <<setup, clientVars, history>>

(* Functors bound to the connector's bare this, and its channel's events;   *)
(* when the connector is gone what they do is undefined.                    *)
ConnectorStep ==
    /\ LoopFree
    /\ ConnectorAlive
    /\ \/ TimerFires \/ StartFunctor \/ ResetFunctor
       \/ HandleError \/ HandleWriteLate \/ HandleWriteFailed
    /\ UNCHANGED <<setup, clientVars, history>>

StopStep ==
    /\ LoopFree
    /\ ConnectorAlive
    /\ StopFunctor
    /\ stopped' = TRUE
    /\ UNCHANGED <<setup, clientVars, asked>>

(* handleWrite hands the socket to newConnection, unless stop was called.   *)
NewConnection ==
    /\ LoopFree
    /\ ConnectorAlive
    /\ HandleWriteDone
    /\ IF connect THEN client = "alive" /\ conn' = "open" ELSE UNCHANGED conn
    /\ UNCHANGED <<setup, client, wanted, closeTo, keeper, history>>

-----------------------------------------------------------------------------
(* The connection's end.                                                    *)

(* The peer or the network ends it; the user's callback is called, *)
ConnectionEnds ==
    /\ LoopFree
    /\ polled
    /\ conn \in {"open", "shut"}
    /\ conn' = "closing"
    /\ UNCHANGED <<setup, connectorVars, client, wanted, closeTo, keeper, history>>

(* as by forceClose, *)
ForceCloseFunctor ==
    /\ LoopFree
    /\ AtFront("forceClose")
    /\ mail' = Tail(mail)
    /\ due' = due - 1
    /\ conn' = IF conn = "none" THEN conn ELSE "closing"
    /\ UNCHANGED <<setup, connect, connectionVars, retryVars, armed, ready,
                   polled, calls, client, wanted, closeTo, keeper, history>>

(* then the close callback: removeConnection of the client, up to restart,  *)
(* or that of a client that is gone.                                        *)
CloseCallback ==
    /\ conn = "closing"
    /\ mail' = Append(mail, "destroy")
    /\ conn' = IF closeTo = "client" /\ setup.retry /\ wanted THEN "closed"
                                                              ELSE "none"
    /\ UNCHANGED <<setup, connect, connectionVars, retryVars, passVars, calls,
                   client, wanted, closeTo, keeper, history>>

RestartStep ==
    /\ conn = "closed"
    /\ Restart
    /\ conn' = "none"
    /\ UNCHANGED <<setup, mail, client, wanted, closeTo, keeper, history>>

(* connectDestroyed of a former connection. *)
DestroyFunctor ==
    /\ LoopFree
    /\ AtFront("destroy")
    /\ mail' = Tail(mail)
    /\ due' = due - 1
    /\ UNCHANGED <<setup, connect, connectionVars, retryVars, armed, ready,
                   polled, calls, clientVars, history>>

-----------------------------------------------------------------------------
(* What the user calls: in the loop thread, in callbacks and functors.      *)

(* connect is called once (see the README), stop not before it.             *)
MayConnect == ~asked
MayStop ==
    /\ asked
    /\ \A i \in DOMAIN mail : mail[i] # "stop"

LoopConnect ==
    /\ MayConnect
    /\ StartHere
    /\ wanted' = TRUE
    /\ asked' = TRUE
    /\ stopped' = FALSE
    /\ UNCHANGED <<setup, client, conn, closeTo, keeper>>

ShutDown == conn' = IF conn = "open" THEN "shut" ELSE conn

LoopDisconnect ==
    /\ wanted' = FALSE
    /\ ShutDown
    /\ UNCHANGED <<setup, connectorVars, client, closeTo, keeper, history>>

LoopStop ==
    /\ MayStop
    /\ StopHere
    /\ wanted' = FALSE
    /\ UNCHANGED <<setup, client, conn, closeTo, keeper, history>>

(* Mutant: the connection keeps its close callback. *)
LoopDestroyKeepsCallback ==
    /\ \A t \in Threads : calls[t] = "none"
    /\ client' = "destroyed"
    /\ IF conn # "none"
         THEN UNCHANGED <<connectorVars, conn, closeTo, keeper>>
         ELSE StopHere /\ keeper' = TRUE /\ UNCHANGED <<conn, closeTo>>
    /\ UNCHANGED <<setup, wanted, history>>

(* The destructor, called in the loop thread when no other thread uses the  *)
(* client: a connection gets another close callback and, when nobody else   *)
(* holds it, is closed; without one the connector is stopped.               *)
LoopDestroy ==
    /\ \A t \in Threads : calls[t] = "none"
    /\ client' = "destroyed"
    /\ \/ /\ conn # "none"
          /\ closeTo' = "nobody"
          /\ \/ UNCHANGED <<connectorVars, conn>>
             \/ /\ conn \in {"open", "shut"}
                /\ conn' = "shut"
                /\ mail' = Append(mail, "forceClose")
                /\ UNCHANGED <<connect, connectionVars, retryVars, passVars, calls>>
          /\ UNCHANGED keeper
       \/ /\ conn = "none"
          /\ StopHere
          /\ keeper' = TRUE
          /\ UNCHANGED <<conn, closeTo>>
    /\ UNCHANGED <<setup, wanted, history>>

LoopCall(call) ==
    /\ client = "alive"
    /\ conn # "closed"
    /\ call \in setup.loopCalls
    /\ \/ call = "connect" /\ LoopConnect
       \/ call = "disconnect" /\ LoopDisconnect
       \/ call = "stop" /\ LoopStop
       \/ call = "destroy" /\ LoopDestroy

(* The timer the destructor sets lets the connector go after a second, time *)
(* enough for the loop to have run what was queued.                         *)
KeeperFires ==
    /\ LoopFree
    /\ polled
    /\ keeper
    /\ mail = <<>>
    /\ keeper' = FALSE
    /\ UNCHANGED <<setup, connectorVars, client, wanted, conn, closeTo, history>>

(* In other threads. *)
ForeignConnect(t) ==
    /\ MayConnect
    /\ Call(t, "start")
    /\ wanted' = TRUE
    /\ asked' = TRUE
    /\ stopped' = FALSE
    /\ UNCHANGED <<setup, client, conn, closeTo, keeper>>

ForeignDisconnect(t) ==
    /\ calls[t] = "none"
    /\ wanted' = FALSE
    /\ ShutDown
    /\ UNCHANGED <<setup, connectorVars, client, closeTo, keeper, history>>

ForeignStop(t) ==
    /\ MayStop
    /\ Call(t, "stop")
    /\ wanted' = FALSE
    /\ UNCHANGED <<setup, client, conn, closeTo, keeper, history>>

ForeignQueue(t) ==
    /\ Queue(t)
    /\ UNCHANGED <<setup, clientVars, history>>

ForeignCall(t, call) ==
    /\ client = "alive"
    /\ call \in setup.foreignCalls
    /\ \/ call = "connect" /\ ForeignConnect(t)
       \/ call = "disconnect" /\ ForeignDisconnect(t)
       \/ call = "stop" /\ ForeignStop(t)

-----------------------------------------------------------------------------
Loop ==
    \/ LoopStep \/ ConnectorStep \/ StopStep \/ NewConnection
    \/ ConnectionEnds \/ ForceCloseFunctor \/ CloseCallback \/ RestartStep
    \/ DestroyFunctor \/ KeeperFires

User ==
    \/ \E call \in setup.loopCalls : LoopCall(call)
    \/ \E t \in Threads :
        ForeignQueue(t) \/ \E call \in setup.foreignCalls : ForeignCall(t, call)

Next == Loop \/ User

Spec == Init /\ [][Next]_vars

(* The loop runs and polls again whatever happens, timers fire, a thread    *)
(* that assigned to connect_ queues its functor; the channel of an attempt  *)
(* becomes writable, and a server that refuses again and again accepts in   *)
(* the end.                                                                 *)
Fairness ==
    /\ WF_vars(LoopStep /\ ready' = {})
    /\ WF_vars(ConnectorStep)
    /\ WF_vars(StopStep \/ ForceCloseFunctor \/ CloseCallback \/ RestartStep
                 \/ DestroyFunctor)
    /\ \A t \in Threads : WF_vars(ForeignQueue(t))
    /\ SF_vars(LoopStep /\ ready' = {"OUT"})
    /\ SF_vars(ConnectorStep /\ armed' < armed)
    /\ SF_vars(ConnectorStep /\ state' = "kConnecting")
    /\ SF_vars(NewConnection)

FairSpec == Spec /\ Fairness

-----------------------------------------------------------------------------
(* Programs whose stops are in order with their restarts: no other thread   *)
(* stops a client that connects again, for restart would overwrite the      *)
(* connect_ of a stop that came after removeConnection's test (see README). *)
Ordered == setup.retry => "stop" \notin setup.foreignCalls

One(holds) == IF holds THEN 1 ELSE 0

(* What leads, or has led, to a connection. *)
Attempts ==
    Cardinality({i \in DOMAIN mail : mail[i] = "start"})
        + Cardinality({t \in Threads : calls[t] = "start"})
        + timers
        + One(state = "kConnecting")
        + One(conn # "none")

(* When connect is called once there is never more than one attempt or      *)
(* connection, whatever failures, ends of the connection, retries and       *)
(* restarts there are: the assertions of connecting() and removeConnection  *)
(* rest on it (Connector.cc:53, 141, TcpClient.cc:161).                     *)
OneAttempt == Attempts <= 1

(* As long as the connector is asked to connect and has not, an attempt is  *)
(* underway, or a retry scheduled (Connector.cc:90-121, 223-240).           *)
AttemptUnderway ==
    (client = "alive" /\ connect /\ state = "kDisconnected" /\ ~gaveUp)
        => Attempts > 0

(* One attempt at a time, begun from the idle state, and one as long as it  *)
(* is wanted.                                                               *)
AttemptInv ==
    /\ TypeOK
    /\ ChannelAgrees
    /\ OneAttempt
    /\ Ordered => StartFindsIdle
    /\ AttemptUnderway

(* A stop() that has been executed is final: no attempt is underway, nor    *)
(* does a retry timer or the end of the connection begin one                *)
(* (Connector.cc:64-81, TcpClient.cc:119-123, 167).                         *)
StopIsFinal == (Ordered /\ stopped) => state # "kConnecting"

(* A destroyed client is not called back: the connector hands it no         *)
(* connection and the connection does not tell it of its end                *)
(* (TcpClient.cc:63-94, Connector.cc:191).                                  *)
DestroyedIsNotCalled ==
    client = "destroyed" =>
        /\ (ConnectorAlive /\ state = "kConnecting") => ~connect
        /\ conn # "none" => closeTo = "nobody" /\ conn # "closed"

(* With a server that accepts in the end the connection is made, unless     *)
(* stop is called or connect(2) fails for good: the back-off never ends by  *)
(* itself.                                                                  *)
ConnectsInTheEnd ==
    (client = "alive" /\ connect /\ state # "kConnected")
        ~> (state = "kConnected" \/ ~connect \/ gaveUp)

=============================================================================
