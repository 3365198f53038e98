----------------------------- MODULE TcpConnection -----------------------------
(***************************************************************************)
(* src/src/net/TcpConnection.{h,cc} with the parts of Channel, EpollPoller *)
(* and TcpServer one connection passes through: from TcpServer's           *)
(* newConnection to the end of the last reference.                         *)
(*                                                                         *)
(* The connection lives in its IO loop, which polls, handles events and    *)
(* then runs the functors (mail) queued by then, as EventLoop says;        *)
(* TcpServer lives in the base loop, which is the same loop when OneLoop.  *)
(* Its destructor, which TcpServer.tla has for OneLoop, ends the IO loop.  *)
(* Code of the user's runs in the IO loop's callbacks and in the Threads   *)
(* that keep a pointer.  A failed assertion ends the process: the step     *)
(* that would fail it is not enabled.                                      *)
(***************************************************************************)
EXTENDS Naturals, Sequences, FiniteSets, SequencesExt

CONSTANTS
    LoopThread,     \* the IO loop's thread
    Threads,        \* threads that may keep a pointer, LoopThread or others
    Setups,         \* what programs are looked at, see SetupAssumption
    MessageLen,     \* units of data in a message
    HighWater,      \* highWaterMark_
    MaxOutput,      \* bound on the output buffer
    MaxMail         \* bound on the functors the user's calls queue

(* oneLoop: the server has no IO threads of its own; serverDies: ~TcpServer  *)
(* may run; garbage: what the memory of reading_ holds at first; loopCalls, *)
(* foreignCalls: what the user's code calls in the IO loop and in other     *)
(* threads.                                                                 *)
ASSUME SetupAssumption ==
    Setups \subseteq
        [oneLoop : BOOLEAN, serverDies : BOOLEAN, garbage : BOOLEAN,
         loopCalls : SUBSET {"send", "shutdown", "forceClose",
                             "forceCloseWithDelay", "startRead", "stopRead"},
         foreignCalls : SUBSET {"send", "shutdown", "forceClose"}]
ASSUME SizesAssumption ==
    /\ MessageLen \in Nat \ {0} /\ HighWater \in Nat \ {0}
    /\ MaxOutput \in Nat /\ MaxMail \in Nat

VARIABLES
    setup,      \* the program, one of Setups
    state,      \* state_; "none" before newConnection
    interest,   \* the channel's events_: a subset of {"IN", "OUT"}
    index,      \* the channel's index_: "new", "added", "deleted"
    reading,    \* reading_
    out,        \* units in outputBuffer_
    fin,        \* shutdownWrite has been called on the socket
    ready,      \* events the last poll returned for the channel
    revents,    \* events handleEvent has still to deal with
    context,    \* the callback of the user's that runs: "none", "user",
                \* "closing" (handleClose's), "destroying" (connectDestroyed's)
    polled,     \* the IO loop deals with what its last poll returned
    due,        \* functors of mail left in this pass of doPendingFunctors
    mail,       \* functors queued in the IO loop that concern the connection
    baseMail,   \* removeConnectionInLoop queued in the base loop
    inMap,      \* TcpServer's connections_ holds the connection
    server,     \* "up", in its destructor "dying", then "quitting" when it
                \* has told the IO loop to quit and joins its thread; "dead"
    holders,    \* threads whose code holds a TcpConnectionPtr
    foreign,    \* per thread: the call whose test of state_ has succeeded
    delayed,    \* forceCloseWithDelay's timer is pending
    log         \* history: "up" and "down" of connectionCallback_, "close" of
                \* closeCallback_, "removed" of connectDestroyed

sockVars == <<out, fin>>
channelVars == <<interest, index, reading>>
eventVars == <<polled, ready, revents>>
serverVars == <<baseMail, inMap, server>>
userVars == <<holders, foreign>>
vars == <<setup, state, channelVars, sockVars, eventVars, context, mail, due,
          serverVars, userVars, delayed, log>>

OneLoop == setup.oneLoop
ServerDies == setup.serverDies
LoopCalls == setup.loopCalls
ForeignCalls == setup.foreignCalls

(* Functors bound to a shared_ptr, and to a bare this. *)
Shared == {"established", "forceClose", "destroy", "writeComplete", "highWater"}
Raw == {"send", "shutdown"}

(* Somebody holds a reference: the map, the user, a functor or what runs.   *)
Alive ==
    \/ inMap
    \/ holders # {}
    \/ context # "none" \/ revents # {}
    \/ baseMail > 0
    \/ \E i \in DOMAIN mail : mail[i] \in Shared

TypeOK ==
    /\ setup \in Setups
    /\ state \in {"none", "kConnecting", "kConnected", "kDisconnecting",
                  "kDisconnected"}
    /\ interest \subseteq {"IN", "OUT"}
    /\ index \in {"new", "added", "deleted"}
    /\ reading \in BOOLEAN
    /\ out \in Nat
    /\ fin \in BOOLEAN
    /\ ready \subseteq {"IN", "OUT", "HUP", "ERR"}
    /\ revents \subseteq {"IN", "OUT", "HUP", "ERR"}
    /\ context \in {"none", "user", "closing", "destroying"}
    /\ polled \in BOOLEAN
    /\ due \in 0..Len(mail)
    /\ mail \in Seq(Shared \union Raw)
    /\ baseMail \in Nat
    /\ inMap \in BOOLEAN
    /\ server \in {"up", "dying", "quitting", "dead"}
    /\ holders \subseteq Threads
    /\ foreign \in [Threads \ {LoopThread} -> ForeignCalls \union {"none"}]
    /\ delayed \in BOOLEAN
    /\ log \in Seq({"up", "down", "close", "removed"})

(* reading_ is not initialised by the constructor. *)
Init ==
    /\ setup \in Setups
    /\ state = "none"
    /\ interest = {}
    /\ index = "new"
    /\ reading = setup.garbage
    /\ out = 0
    /\ fin = FALSE
    /\ ready = {}
    /\ revents = {}
    /\ context = "none"
    /\ polled = FALSE
    /\ due = 0
    /\ mail = <<>>
    /\ baseMail = 0
    /\ inMap = FALSE
    /\ server = "up"
    /\ holders = {}
    /\ foreign = [t \in Threads \ {LoopThread} |-> "none"]
    /\ delayed = FALSE
    /\ log = <<>>

-----------------------------------------------------------------------------
(* Parts of the handlers.                                                   *)

Open == state \in {"kConnected", "kDisconnecting"}

(* Channel::update with the given events: the poller adds a channel that is *)
(* new or deleted, even one without events, and deletes an added one        *)
(* without events.                                                          *)
Update(events) ==
    /\ interest' = events
    /\ index' = IF index = "added" /\ events = {} THEN "deleted" ELSE "added"

(* Mutant: the state is not set. *)
HandleCloseStaysOpen ==
    /\ Open
    /\ Update({})
    /\ log' = Append(log, "down")
    /\ context' = "closing"
    /\ UNCHANGED state

(* Mutant: the channel keeps its events. *)
HandleCloseKeepsEvents ==
    /\ Open
    /\ state' = "kDisconnected"
    /\ log' = Append(log, "down")
    /\ context' = "closing"
    /\ UNCHANGED <<interest, index>>

(* handleClose up to the connection callback. *)
HandleClose ==
    /\ Open
    /\ state' = "kDisconnected"
    /\ Update({})
    /\ log' = Append(log, "down")
    /\ context' = "closing"

(* shutdownInLoop with the events the channel has then. *)
ShutdownInLoop(events) == fin' = (fin \/ "OUT" \notin events)

(* What remains of a message goes to the output buffer; queued is the mail  *)
(* without the functor that runs.                                           *)
Buffer(remaining, queued) ==
    /\ out' = out + remaining
    /\ mail' = IF out + remaining >= HighWater /\ out < HighWater
                 THEN Append(queued, "highWater") ELSE queued
    /\ IF "OUT" \in interest THEN UNCHANGED <<interest, index>>
                             ELSE Update(interest \union {"OUT"})

(* sendInLoop gives up. *)
NothingSent(queued) ==
    /\ mail' = queued
    /\ UNCHANGED <<out, interest, index>>

(* sendInLoop: when nothing is in the way the socket is written to, and the *)
(* kernel takes n units; after shutdownWrite or a reset the write fails and *)
(* the message is dropped.                                                  *)
SendInLoop(queued) ==
    \/ state = "kDisconnected" /\ NothingSent(queued)
    \/ /\ state # "kDisconnected"
       /\ "OUT" \in interest \/ out > 0
       /\ Buffer(MessageLen, queued)
    \/ /\ state # "kDisconnected"
       /\ "OUT" \notin interest /\ out = 0
       /\ \/ NothingSent(queued)
          \/ ~fin /\ NothingSent(Append(queued, "writeComplete"))
          \/ ~fin /\ \E n \in 0..MessageLen - 1 : Buffer(MessageLen - n, queued)

(* forceClose, once its test of state_ has succeeded. *)
ForceClose ==
    /\ state' = "kDisconnecting"
    /\ mail' = Append(mail, "forceClose")

(* The IO loop is not in a handler and has no events left to deal with. *)
LoopFree == context = "none" /\ ready = {} /\ revents = {}

-----------------------------------------------------------------------------
(* TcpServer.                                                               *)

(* newConnection in a base loop of its own; in the IO loop it goes straight *)
(* on to connectEstablished.                                                *)
NewConnection ==
    /\ state = "none"
    /\ ~OneLoop
    /\ server = "up"
    /\ state' = "kConnecting"
    /\ inMap' = TRUE
    /\ mail' = <<"established">>
    /\ UNCHANGED <<setup, channelVars, sockVars, eventVars, context, baseMail,
                   server, userVars, due, delayed, log>>

(* removeConnectionInLoop in a base loop of its own, which asserts that the *)
(* map holds the connection.  The base loop stands still in the destructor, *)
(* and what the functor would do of a dead server is undefined.             *)
RemoveConnection ==
    /\ baseMail > 0
    /\ server = "up"
    /\ inMap
    /\ baseMail' = baseMail - 1
    /\ inMap' = FALSE
    /\ mail' = Append(mail, "destroy")
    /\ UNCHANGED <<setup, state, channelVars, sockVars, eventVars, context,
                   due, server, userVars, delayed, log>>

(* ~TcpServer in a base loop of its own queues connectDestroyed ...         *)
ServerDestroyed ==
    /\ ServerDies
    /\ ~OneLoop
    /\ server = "up"
    /\ server' = "dying"
    /\ inMap' = FALSE
    /\ mail' = IF inMap THEN Append(mail, "destroy") ELSE mail
    /\ UNCHANGED <<setup, state, channelVars, sockVars, eventVars, context,
                   due, baseMail, userVars, delayed, log>>

(* ... and destroys the thread pool, whose threads' destructors make their  *)
(* loops quit ...                                                           *)
QuitLoop ==
    /\ server = "dying"
    /\ server' = "quitting"
    /\ UNCHANGED <<setup, state, channelVars, sockVars, eventVars, context,
                   mail, due, baseMail, inMap, userVars, delayed, log>>

(* ... and join them.  The loop leaves before its next poll; its functors   *)
(* and timers, with the references they hold, go with it, whether they have *)
(* been run or not.                                                         *)
LoopEnds ==
    /\ server = "quitting"
    /\ ~polled /\ LoopFree
    /\ due = 0
    /\ server' = "dead"
    /\ mail' = <<>>
    /\ delayed' = FALSE
    /\ UNCHANGED <<setup, state, channelVars, sockVars, eventVars, context,
                   due, baseMail, inMap, userVars, log>>

-----------------------------------------------------------------------------
(* The IO loop: functors.                                                   *)

(* The functor at the front of this pass is f. *)
AtFront(f) ==
    /\ ~polled /\ LoopFree
    /\ due > 0
    /\ Head(mail) = f

Functor(f) == AtFront(f) /\ due' = due - 1

(* connectEstablished up to its call of the user's connection callback. *)
Established ==
    /\ state' = "kConnected"
    /\ Update({"IN"})
    /\ log' = Append(log, "up")
    /\ context' = "user"

NewConnectionHere ==
    /\ state = "none"
    /\ OneLoop
    /\ polled /\ LoopFree
    /\ inMap' = TRUE
    /\ Established
    /\ UNCHANGED <<setup, reading, sockVars, eventVars, mail, due, baseMail,
                   server, userVars, delayed>>

ConnectEstablished ==
    /\ Functor("established")
    /\ state = "kConnecting"
    /\ Established
    /\ mail' = Tail(mail)
    /\ UNCHANGED <<setup, reading, sockVars, eventVars, serverVars, userVars,
                   delayed>>

(* connectDestroyed of an open connection, up to the connection callback. *)
ConnectDestroyedOpen ==
    /\ Functor("destroy")
    /\ state = "kConnected"
    /\ state' = "kDisconnected"
    /\ Update({})
    /\ log' = Append(log, "down")
    /\ context' = "destroying"
    /\ mail' = Tail(mail)
    /\ UNCHANGED <<setup, reading, sockVars, eventVars, serverVars, userVars,
                   delayed>>

(* Mutant: the channel is not removed. *)
ConnectDestroyedOnly ==
    /\ Functor("destroy")
    /\ state # "kConnected"
    /\ log' = Append(log, "removed")
    /\ mail' = Tail(mail)
    /\ UNCHANGED <<setup, state, channelVars, sockVars, eventVars, context,
                   serverVars, userVars, delayed>>

(* connectDestroyed of a closed one: the channel is removed. *)
ConnectDestroyed ==
    /\ Functor("destroy")
    /\ state # "kConnected"
    /\ interest = {}
    /\ index' = "new"
    /\ log' = Append(log, "removed")
    /\ mail' = Tail(mail)
    /\ UNCHANGED <<setup, state, interest, reading, sockVars, eventVars,
                   context, serverVars, userVars, delayed>>

ForceCloseInLoop ==
    /\ Functor("forceClose")
    /\ mail' = Tail(mail)
    /\ IF Open THEN HandleClose
               ELSE UNCHANGED <<state, interest, index, context, log>>
    /\ UNCHANGED <<setup, reading, sockVars, eventVars, serverVars, userVars,
                   delayed>>

(* writeCompleteCallback_ or highWaterMarkCallback_. *)
DataCallback ==
    /\ Functor("writeComplete") \/ Functor("highWater")
    /\ context' = "user"
    /\ mail' = Tail(mail)
    /\ UNCHANGED <<setup, state, channelVars, sockVars, eventVars, serverVars,
                   userVars, delayed, log>>

(* The functors bound to a bare this; on a destroyed connection what they   *)
(* do is undefined.                                                         *)
SendFunctor ==
    /\ Functor("send")
    /\ Alive
    /\ SendInLoop(Tail(mail))
    /\ UNCHANGED <<setup, state, reading, fin, eventVars, context, serverVars,
                   userVars, delayed, log>>

ShutdownFunctor ==
    /\ Functor("shutdown")
    /\ Alive
    /\ ShutdownInLoop(interest)
    /\ mail' = Tail(mail)
    /\ UNCHANGED <<setup, state, channelVars, out, eventVars, context,
                   serverVars, userVars, delayed, log>>

(* forceCloseWithDelay's timer holds a weak reference and calls forceClose. *)
DelayOver ==
    /\ polled /\ LoopFree
    /\ delayed
    /\ delayed' = FALSE
    /\ IF Alive /\ Open THEN ForceClose ELSE UNCHANGED <<state, mail>>
    /\ UNCHANGED <<setup, channelVars, sockVars, eventVars, context, due,
                   serverVars, userVars, log>>

-----------------------------------------------------------------------------
(* The IO loop: the channel's events.                                       *)

(* epoll_wait reports what the channel is interested in, and hang-up and    *)
(* error unasked, or only events of other channels; the loop polls unless   *)
(* it has been told to quit.                                                *)
Poll(events) ==
    /\ server \in {"up", "dying"}
    /\ ~polled /\ LoopFree
    /\ due = 0
    /\ index = "added" \/ events = {}
    /\ polled' = TRUE
    /\ ready' = events
    /\ UNCHANGED <<setup, state, channelVars, sockVars, revents, context,
                   mail, due, serverVars, userVars, delayed, log>>

(* The events are handled: doPendingFunctors takes the functors. *)
Swap ==
    /\ polled /\ LoopFree
    /\ polled' = FALSE
    /\ due' = Len(mail)
    /\ UNCHANGED <<setup, state, channelVars, sockVars, ready, revents,
                   context, mail, serverVars, userVars, delayed, log>>

(* Channel::handleEvent is entered, unless the connection is gone. *)
HandleEvent ==
    /\ context = "none"
    /\ ready # {}
    /\ revents' = IF Alive THEN ready ELSE {}
    /\ ready' = {}
    /\ UNCHANGED <<setup, state, channelVars, sockVars, polled, context, mail,
                   due, serverVars, userVars, delayed, log>>

(* A hang-up without anything to read. *)
EventHup ==
    /\ context = "none"
    /\ "HUP" \in revents
    /\ revents' = revents \ {"HUP"}
    /\ IF "IN" \notin revents
         THEN HandleClose
         ELSE UNCHANGED <<state, interest, index, context, log>>
    /\ UNCHANGED <<setup, reading, sockVars, polled, ready, mail, due,
                   serverVars, userVars, delayed>>

(* handleError changes nothing. *)
EventError ==
    /\ context = "none"
    /\ "ERR" \in revents /\ "HUP" \notin revents
    /\ revents' = revents \ {"ERR"}
    /\ UNCHANGED <<setup, state, channelVars, sockVars, polled, ready,
                   context, mail, due, serverVars, userVars, delayed, log>>

(* handleRead: data, the end of the stream, or an error. *)
EventRead ==
    /\ context = "none"
    /\ "IN" \in revents /\ revents \intersect {"HUP", "ERR"} = {}
    /\ revents' = revents \ {"IN"}
    /\ \/ context' = "user" /\ UNCHANGED <<state, interest, index, log>>
       \/ HandleClose
       \/ UNCHANGED <<state, interest, index, context, log>>
    /\ UNCHANGED <<setup, reading, sockVars, polled, ready, mail, due,
                   serverVars, userVars, delayed>>

(* Mutant: the interest in writing does not end with the output. *)
EventWriteForever(n) ==
    /\ context = "none"
    /\ revents = {"OUT"}
    /\ revents' = {}
    /\ "OUT" \in interest
    /\ n \in 1..out
    /\ out' = out - n
    /\ UNCHANGED <<setup, state, channelVars, fin, polled, ready, context,
                   mail, due, serverVars, userVars, delayed, log>>

(* Mutant: the shutdown that waited for the output is not done. *)
EventWriteNoShutdown(n) ==
    /\ context = "none"
    /\ revents = {"OUT"}
    /\ revents' = {}
    /\ "OUT" \in interest
    /\ n \in 1..out
    /\ out' = out - n
    /\ IF n = out
         THEN Update(interest \ {"OUT"}) /\ mail' = Append(mail, "writeComplete")
         ELSE UNCHANGED <<interest, index, mail>>
    /\ UNCHANGED <<setup, state, reading, fin, polled, ready, context, due,
                   serverVars, userVars, delayed, log>>

(* handleWrite writes n units; the last one ends the interest in writing,   *)
(* and the shutdown that waited for it is done.                             *)
EventWrite(n) ==
    /\ context = "none"
    /\ revents = {"OUT"}
    /\ revents' = {}
    /\ "OUT" \in interest
    /\ n \in 1..out
    /\ out' = out - n
    /\ IF n = out
         THEN /\ Update(interest \ {"OUT"})
              /\ mail' = Append(mail, "writeComplete")
              /\ IF state = "kDisconnecting" THEN ShutdownInLoop(interest')
                                             ELSE UNCHANGED fin
         ELSE UNCHANGED <<interest, index, mail, fin>>
    /\ UNCHANGED <<setup, state, reading, polled, ready, context, due,
                   serverVars, userVars, delayed, log>>

(* handleWrite when the write fails, or the channel no longer writes. *)
EventNoWrite ==
    /\ context = "none"
    /\ revents = {"OUT"}
    /\ revents' = {}
    /\ UNCHANGED <<setup, state, channelVars, sockVars, polled, ready,
                   context, mail, due, serverVars, userVars, delayed, log>>

(* A callback of the user's returns, and what follows it is done:           *)
(* handleClose's closeCallback_, which is TcpServer::removeConnection, or   *)
(* connectDestroyed's removal of the channel.                               *)
CallbackReturn ==
    /\ context # "none"
    /\ context' = "none"
    /\ \/ context = "user" /\ UNCHANGED <<index, mail, baseMail, inMap, log>>
       \/ /\ context = "destroying"
          /\ interest = {}
          /\ index' = "new"
          /\ log' = Append(log, "removed")
          /\ UNCHANGED <<mail, baseMail, inMap>>
       \/ /\ context = "closing"
          /\ log' = Append(log, "close")
          /\ IF OneLoop
               THEN /\ inMap
                    /\ inMap' = FALSE
                    /\ mail' = Append(mail, "destroy")
                    /\ UNCHANGED baseMail
               ELSE baseMail' = baseMail + 1 /\ UNCHANGED <<inMap, mail>>
          /\ UNCHANGED index
    /\ UNCHANGED <<setup, state, interest, reading, sockVars, eventVars, due,
                   server, userVars, delayed>>

-----------------------------------------------------------------------------
(* The user's code.                                                         *)

(* Code in the IO loop has the connection in its own callbacks, and         *)
(* elsewhere if it kept a pointer, as long as there is a loop.              *)
InLoop ==
    /\ context # "none" \/ LoopThread \in holders
    /\ server # "dead"

RoomFor(call) ==
    /\ call \in {"send", "forceClose", "forceCloseWithDelay"} =>
           Len(mail) < MaxMail
    /\ call = "send" => out + MessageLen <= MaxOutput

LoopSend ==
    /\ state = "kConnected"
    /\ SendInLoop(mail)
    /\ UNCHANGED <<state, reading, fin, delayed>>

LoopShutdown ==
    /\ state = "kConnected"
    /\ state' = "kDisconnecting"
    /\ ShutdownInLoop(interest)
    /\ UNCHANGED <<channelVars, out, mail, delayed>>

LoopForceClose ==
    /\ Open
    /\ ForceClose
    /\ UNCHANGED <<channelVars, sockVars, delayed>>

LoopForceCloseWithDelay ==
    /\ Open
    /\ ~delayed
    /\ state' = "kDisconnecting"
    /\ delayed' = TRUE
    /\ UNCHANGED <<channelVars, sockVars, mail>>

LoopStartRead ==
    /\ ~reading \/ "IN" \notin interest
    /\ Update(interest \union {"IN"})
    /\ reading' = TRUE
    /\ UNCHANGED <<state, sockVars, mail, delayed>>

LoopStopRead ==
    /\ reading \/ "IN" \in interest
    /\ Update(interest \ {"IN"})
    /\ reading' = FALSE
    /\ UNCHANGED <<state, sockVars, mail, delayed>>

LoopCall(call) ==
    /\ InLoop
    /\ call \in LoopCalls
    /\ RoomFor(call)
    /\ \/ call = "send" /\ LoopSend
       \/ call = "shutdown" /\ LoopShutdown
       \/ call = "forceClose" /\ LoopForceClose
       \/ call = "forceCloseWithDelay" /\ LoopForceCloseWithDelay
       \/ call = "startRead" /\ LoopStartRead
       \/ call = "stopRead" /\ LoopStopRead
    /\ UNCHANGED <<setup, eventVars, context, due, serverVars, userVars, log>>

(* A callback keeps the pointer it was given, or passes it to a thread. *)
Share(t) ==
    /\ context # "none"
    /\ holders' = holders \union {t}
    /\ UNCHANGED <<setup, state, channelVars, sockVars, eventVars, context,
                   mail, due, serverVars, foreign, delayed, log>>

Release(t) ==
    /\ t \in holders
    /\ t # LoopThread => foreign[t] = "none"
    /\ holders' = holders \ {t}
    /\ UNCHANGED <<setup, state, channelVars, sockVars, eventVars, context,
                   mail, due, serverVars, foreign, delayed, log>>

(* Another thread tests state_ ... *)
ForeignTest(t, call) ==
    /\ t \in holders
    /\ foreign[t] = "none"
    /\ state = "kConnected" \/ (call = "forceClose" /\ Open)
    /\ foreign' = [foreign EXCEPT ![t] = call]
    /\ UNCHANGED <<setup, state, channelVars, sockVars, eventVars, context,
                   mail, due, serverVars, holders, delayed, log>>

(* ... and later sets it and queues the functor, if there is still a loop    *)
(* to queue it in: otherwise what it does is undefined.                     *)
ForeignCall(t) ==
    /\ foreign[t] # "none"
    /\ server # "dead"
    /\ RoomFor(foreign[t])
    /\ foreign' = [foreign EXCEPT ![t] = "none"]
    /\ state' = IF foreign[t] = "send" THEN state ELSE "kDisconnecting"
    /\ mail' = Append(mail, foreign[t])
    /\ UNCHANGED <<setup, channelVars, sockVars, eventVars, context, due,
                   serverVars, holders, delayed, log>>

-----------------------------------------------------------------------------
RunFunctor ==
    \/ ConnectEstablished
    \/ ConnectDestroyedOpen
    \/ ConnectDestroyed
    \/ ForceCloseInLoop
    \/ DataCallback
    \/ SendFunctor
    \/ ShutdownFunctor

Handle ==
    \/ HandleEvent
    \/ EventHup
    \/ EventError
    \/ EventRead
    \/ \E n \in 1..MaxOutput : EventWrite(n)
    \/ EventNoWrite

Server ==
    \/ NewConnection
    \/ NewConnectionHere
    \/ RemoveConnection
    \/ ServerDestroyed
    \/ QuitLoop

User ==
    \/ \E call \in LoopCalls : LoopCall(call)
    \/ \E t \in Threads : Share(t) \/ Release(t)
    \/ \E t \in Threads \ {LoopThread} :
        \/ \E call \in ForeignCalls : ForeignTest(t, call)
        \/ ForeignCall(t)

Loop ==
    \/ RunFunctor
    \/ DelayOver
    \/ \E events \in SUBSET (interest \union {"HUP", "ERR"}) : Poll(events)
    \/ Swap
    \/ Handle
    \/ CallbackReturn
    \/ LoopEnds

Next == Server \/ User \/ Loop

Spec == Init /\ [][Next]_vars

(* The loops go round and run their functors, callbacks return, the timer   *)
(* fires, and a peer that is sent to takes the data in the end: a channel   *)
(* interested in writing is reported and written to again and again.        *)
Fairness ==
    /\ WF_vars(Poll({}))
    /\ WF_vars(Swap)
    /\ WF_vars(RunFunctor)
    /\ WF_vars(Handle)
    /\ WF_vars(CallbackReturn)
    /\ WF_vars(RemoveConnection)
    /\ WF_vars(QuitLoop)
    /\ WF_vars(LoopEnds)
    /\ SF_vars(DelayOver)
    /\ SF_vars("OUT" \in interest /\ Poll({"OUT"}))
    /\ SF_vars(\E n \in 1..MaxOutput : EventWrite(n))

FairSpec == Spec /\ Fairness

-----------------------------------------------------------------------------
(* Programs as TcpConnection.h:88 wants them, and more: the connection is   *)
(* closed from the IO loop only, and reading is left on.                    *)
Confined ==
    /\ LoopCalls \intersect {"startRead", "stopRead"} = {}
    /\ ForeignCalls \subseteq {"send"}

(* The user is told of the connection once, of its end once, and then the   *)
(* server once, unless it is the server that ends it; the channel is        *)
(* removed after all of them (TcpServer.cc:78-125, TcpConnection.cc:312-338,*)
(* 401-413).                                                                *)
CallbacksInOrder == Confined =>
    /\ \/ IsPrefix(log, <<"up", "down", "close", "removed">>)
       \/ server # "up" /\ log = <<"up", "down", "removed">>
    /\ log = <<"up">> <=> Open
    /\ inMap => Len(log) < 4

(* handleClose is reached only with the connection open: the assertion at   *)
(* TcpConnection.cc:405, whatever brings it about (a read of 0 bytes,       *)
(* a hang-up, forceCloseInLoop).                                            *)
CloseOnlyOnce ==
    (/\ Confined
     /\ context = "none"
     /\ revents \intersect {"HUP", "IN"} # {})
        => Open

(* A server finds each connection it is to remove in its map: the assertion *)
(* at TcpServer.cc:121.                                                     *)
RemovalFindsConnection == (Confined /\ baseMail > 0 /\ server = "up") => inMap

(* connectDestroyed finds the channel without events, as Channel::remove    *)
(* and EpollPoller::removeChannel assert (Channel.cc:62, EpollPoller.cc:172)*)
(* unless a dying server has queued it for a connection being closed.       *)
DestroyFindsNoEvents ==
    (Confined /\ AtFront("destroy") /\ state # "kConnected")
        => interest = {} \/ (server # "up" /\ state = "kDisconnecting")

(* When the last reference is gone the connection is closed, its channel    *)
(* out of the poller and not being handled: the assertions of the two       *)
(* destructors (TcpConnection.cc:78, Channel.cc:39-44); unless its loop has *)
(* ended before connectDestroyed.                                           *)
DestroyedClean ==
    (/\ Confined
     /\ state # "none"
     /\ ~Alive
     /\ server = "dead" => Contains(log, "removed"))
        => state = "kDisconnected" /\ index = "new"

(* The variables keep their types, and no assertion on the way from the     *)
(* connection's end to its destructor fails, but for three a server that is *)
(* destroyed makes fail: TcpServer.cc:121 when the base loop goes on to run *)
(* removeConnectionInLoop, Channel.cc:62 when a connection is half closed,  *)
(* and TcpConnection.cc:78 when connectDestroyed is never run.              *)
AssertionsHold ==
    /\ TypeOK
    /\ CloseOnlyOnce
    /\ RemovalFindsConnection
    /\ DestroyFindsNoEvents
    /\ DestroyedClean

(* While the connection is open it asks for writability exactly when there  *)
(* is output left: neither is output stuck nor does the loop spin           *)
(* (TcpConnection.cc:161, 201-205, 374-377).                                *)
WritesWhileOutput == log = <<"up">> => ("OUT" \in interest <=> out > 0)

(* On a connection still open, all output accepted goes before the FIN      *)
(* (TcpConnection.cc:222-225, 382-385).                                     *)
FinAfterOutput == (fin /\ log = <<"up">>) => out = 0

(* Output is not forgotten, neither by the poller nor by the FIN.           *)
OutputInv == WritesWhileOutput /\ FinAfterOutput

(* A connection that is being shut down gets there: the output drains and   *)
(* the FIN is sent, or the connection is closed, or its server is destroyed.*)
ShutdownCompletes ==
    (Confined /\ state = "kDisconnecting")
        ~> (fin \/ state = "kDisconnected" \/ server # "up")

(* A closed connection is removed from the poller for good, unless its loop *)
(* ends.                                                                    *)
ClosedIsRemoved ==
    (Confined /\ state = "kDisconnected") ~> (index = "new" \/ server = "dead")

=============================================================================
