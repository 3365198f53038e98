------------------------- MODULE TcpConnection_proofs -------------------------
(***************************************************************************)
(* TcpConnection, for any programs, threads, sizes of messages and water   *)
(* marks: callbacks come once and in their order, no assertion between the *)
(* connection's end and its destructor fails, and output is forgotten      *)
(* neither by the poller nor by the FIN.                                   *)
(***************************************************************************)
EXTENDS TcpConnection, SequenceTheorems, TLAPS

(* Functors that end the connection: none is queued, or exactly one.        *)
NoDestroy(queue) == \A i \in DOMAIN queue : queue[i] # "destroy"
OneDestroy(queue) ==
    \E i \in DOMAIN queue :
        /\ queue[i] = "destroy"
        /\ \A j \in DOMAIN queue : queue[j] = "destroy" => j = i

(* Before connectEstablished nobody has seen the connection; its functor is *)
(* queued in front of the one that ends it.                                 *)
Pristine ==
    state \in {"none", "kConnecting"} =>
        /\ log = <<>> /\ interest = {} /\ index = "new" /\ out = 0
        /\ holders = {} /\ context = "none" /\ ready = {} /\ revents = {}
        /\ \A t \in Threads \ {LoopThread} : foreign[t] = "none"
        /\ ~delayed /\ baseMail = 0
        /\ state = "none" => mail = <<>> /\ ~inMap
        /\ state = "kConnecting" =>
              \/ mail = <<"established">> /\ inMap
              \/ mail = <<"established", "destroy">> /\ ~inMap /\ server # "up"
              \/ mail = <<>> /\ server = "dead"
        /\ OneLoop => state = "none"

(* What happened is what state_ says. *)
History ==
    /\ log = <<>> => state \in {"none", "kConnecting"}
    /\ log = <<"up">> => state # "kDisconnected"

(* Who will end the connection: nobody yet, with the connection in the map; *)
(* the functor ~TcpServer queued; or connectDestroyed has begun.            *)
Mapped == inMap /\ NoDestroy(mail)
Leaving == ~inMap /\ OneDestroy(mail)
Gone == ~inMap /\ NoDestroy(mail)

OpenPhase ==
    /\ Open /\ log = <<"up">>
    /\ "IN" \in interest /\ index = "added"
    /\ context \in {"none", "user"}
    /\ baseMail = 0
    /\ Mapped \/ (Leaving /\ server # "up")

Unread == state = "kDisconnected" /\ interest = {}

ClosingPhase ==
    /\ Unread /\ log = <<"up", "down">>
    /\ index = "deleted"
    /\ context = "closing"
    /\ baseMail = 0
    /\ Mapped \/ (Leaving /\ server # "up")

DestroyingPhase ==
    /\ Unread /\ log = <<"up", "down">>
    /\ index = "deleted"
    /\ context = "destroying"
    /\ Gone /\ server # "up"

ClosedPhase ==
    /\ Unread /\ log = <<"up", "down", "close">>
    /\ index = "deleted"
    /\ context \in {"none", "user"}
    /\ (Mapped /\ baseMail = 1 /\ ~OneLoop)
          \/ (Leaving /\ (server = "up" => baseMail = 0))

RemovedPhase ==
    /\ Unread
    /\ \/ log = <<"up", "down", "close", "removed">>
       \/ log = <<"up", "down", "removed">> /\ server # "up"
    /\ index = "new"
    /\ context \in {"none", "user"}
    /\ Gone /\ (server = "up" => baseMail = 0)

Phases ==
    \/ state \in {"none", "kConnecting"}
    \/ OpenPhase \/ ClosingPhase \/ DestroyingPhase \/ ClosedPhase
    \/ RemovedPhase

(* What the loop's end leaves: a connection that is open, closed, or        *)
(* removed.                                                                 *)
Ended ==
    \/ log = <<>> /\ state \in {"none", "kConnecting"}
    \/ log = <<"up">> /\ Open
    \/ log = <<"up", "down", "close">> /\ Unread
    \/ /\ log = <<"up", "down", "close", "removed">> \/ log = <<"up", "down", "removed">>
       /\ Unread /\ index = "new"

(* The events that may close a connection are those of an open one.         *)
EventsOfOpen ==
    /\ ready # {} => Open /\ revents = {} /\ context = "none"
    /\ revents \intersect {"HUP", "IN"} # {} => Open

(* Only a server with threads of its own, that has let go of its            *)
(* connection, is in its destructor; a loop that has ended holds nothing.   *)
ServerInv ==
    /\ OneLoop \/ inMap => server = "up"
    /\ server = "dead" => /\ ~polled /\ LoopFree /\ due = 0
                          /\ mail = <<>> /\ ~delayed

ConfinedInv ==
    Confined => EventsOfOpen /\ (IF server = "dead" THEN Ended ELSE Phases)

ConnectionInv ==
    TypeOK /\ Pristine /\ History /\ OutputInv /\ ServerInv /\ ConfinedInv

Names == {"established", "forceClose", "destroy", "writeComplete", "highWater",
          "send", "shutdown"}

(* What the assumptions say of a program. *)
LEMMA ProgramCalls ==
    ASSUME setup \in Setups
    PROVE  /\ LoopCalls \subseteq {"send", "shutdown", "forceClose",
                                   "forceCloseWithDelay", "startRead", "stopRead"}
           /\ ForeignCalls \subseteq {"send", "shutdown", "forceClose"}
           /\ OneLoop \in BOOLEAN /\ ServerDies \in BOOLEAN
BY SetupAssumption DEF LoopCalls, ForeignCalls, OneLoop, ServerDies

(* The steps of a queue: a functor at its end, or one less at its front.    *)
LEMMA Queued ==
    ASSUME NEW q \in Seq(Names), NEW f \in Names
    PROVE  /\ Append(q, f) \in Seq(Names) /\ Len(Append(q, f)) = Len(q) + 1
           /\ q # <<>> => /\ Tail(q) \in Seq(Names) /\ Len(Tail(q)) = Len(q) - 1
                          /\ Head(q) \in Names
           /\ Len(q) \in Nat /\ (Len(q) > 0 => q # <<>>)
OBVIOUS

(* A sequence of two. *)
LEMMA AppendTwo == ASSUME NEW a, NEW b PROVE Append(<<a>>, b) = <<a, b>>
<1>1. <<a>> \in Seq({a, b}) /\ <<a, b>> \in Seq({a, b}) /\ Append(<<a>>, b) \in Seq({a, b})
  OBVIOUS
<1>2. Len(<<a>>) = 1 /\ Len(<<a, b>>) = 2 /\ Len(Append(<<a>>, b)) = 2
  OBVIOUS
<1>3. Append(<<a>>, b)[1] = a /\ Append(<<a>>, b)[2] = b
  OBVIOUS
<1>4. <<a, b>>[1] = a /\ <<a, b>>[2] = b
  OBVIOUS
<1>5. \A i \in 1..2 : <<a, b>>[i] = Append(<<a>>, b)[i]
  BY <1>3, <1>4
<1> QED BY <1>1, <1>2, <1>5, SeqEqual

(* What runs a functor finds one. *)
LEMMA FunctorQueued ==
    ASSUME TypeOK, NEW f, Functor(f)
    PROVE  /\ due > 0 /\ mail # <<>> /\ mail \in Seq(Names)
           /\ Tail(mail) \in Seq(Names) /\ Head(mail) = f
           /\ due' \in 0..Len(Tail(mail)) /\ Len(Tail(mail)) \in Nat
           /\ context = "none" /\ ready = {} /\ revents = {} /\ ~polled
<1>1. mail \in Seq(Names) /\ due \in 0..Len(mail) /\ due > 0 /\ due' = due - 1
  BY DEF TypeOK, Functor, AtFront, Shared, Raw, Names
<1>2. Len(mail) \in Nat /\ Len(mail) > 0
  BY <1>1
<1>3. mail # <<>>
  BY <1>2
<1>4. Tail(mail) \in Seq(Names) /\ Len(Tail(mail)) = Len(mail) - 1
  BY <1>1, <1>3
<1>5. due' \in 0..Len(Tail(mail)) /\ Len(Tail(mail)) \in Nat
  BY <1>1, <1>2, <1>4
<1> QED BY <1>1, <1>3, <1>4, <1>5 DEF Functor, AtFront, LoopFree

(* The parts of the handlers keep the types. *)
ChannelType == interest \subseteq {"IN", "OUT"} /\ index \in {"new", "added", "deleted"}

(* Channel::update, *)
LEMMA UpdateType ==
    ASSUME ChannelType, NEW events \in SUBSET {"IN", "OUT"}, Update(events)
    PROVE  ChannelType'
BY DEF ChannelType, Update

(* and handleClose, in which the channel is updated. *)
LEMMA HandleCloseType ==
    ASSUME TypeOK, HandleClose
    PROVE  /\ ChannelType' /\ state' = "kDisconnected" /\ context' = "closing"
           /\ log' \in Seq({"up", "down", "close", "removed"})
<1>1. ChannelType' /\ state' = "kDisconnected" /\ context' = "closing"
  BY DEF HandleClose, Update, TypeOK, ChannelType
<1>2. log' \in Seq({"up", "down", "close", "removed"})
  BY DEF HandleClose, TypeOK
<1> QED BY <1>1, <1>2

(* sendInLoop, in all its ways: the queue it is given, with at most one     *)
(* callback more; output only with the interest in writing it.              *)
LEMMA SendEffect ==
    ASSUME TypeOK, OutputInv, log = <<"up">> => state # "kDisconnected",
           NEW q \in Seq(Names), SendInLoop(q)
    PROVE  /\ mail' \in {q, Append(q, "highWater"), Append(q, "writeComplete")}
           /\ out' \in Nat
           /\ ChannelType' /\ interest' \in {interest, interest \union {"OUT"}}
           /\ interest' = interest => index' = index
           /\ interest' # interest => index' = "added"
           /\ state = "kDisconnected" => UNCHANGED <<interest, index>>
           /\ log = <<"up">> => /\ "OUT" \in interest' <=> out' > 0
                                /\ fin => out' = 0
<1>1. MessageLen \in Nat /\ MessageLen > 0 /\ out \in Nat /\ ChannelType
  BY SizesAssumption DEF TypeOK, ChannelType
<1>2. ASSUME NEW k \in Nat, k > 0, Buffer(k, q)
      PROVE  /\ mail' \in {q, Append(q, "highWater")}
             /\ out' \in Nat /\ out' > 0 /\ "OUT" \in interest'
             /\ ChannelType' /\ interest' \in {interest, interest \union {"OUT"}}
             /\ interest' = interest => index' = index
             /\ interest' # interest => index' = "added"
  <2>1. mail' \in {q, Append(q, "highWater")} /\ out' \in Nat /\ out' > 0
    BY <1>1, <1>2 DEF Buffer
  <2>2. CASE "OUT" \in interest
    BY <1>1, <1>2, <2>1, <2>2 DEF Buffer, ChannelType
  <2>3. CASE "OUT" \notin interest
    BY <1>1, <1>2, <2>1, <2>3 DEF Buffer, ChannelType, Update
  <2> QED BY <2>2, <2>3
<1>3. ASSUME NEW r, NothingSent(r)
      PROVE  mail' = r /\ UNCHANGED <<out, interest, index>> /\ ChannelType'
  BY <1>1, <1>3 DEF NothingSent, ChannelType
<1>4. CASE state = "kDisconnected"
  <2>1. NothingSent(q)
    BY <1>4 DEF SendInLoop
  <2> QED BY <1>1, <1>3, <1>4, <2>1
<1>5. CASE state # "kDisconnected" /\ ("OUT" \in interest \/ out > 0)
  <2>1. Buffer(MessageLen, q)
    BY <1>1, <1>5 DEF SendInLoop
  <2>2. log = <<"up">> => ~fin
    BY <1>1, <1>5 DEF OutputInv, WritesWhileOutput, FinAfterOutput
  <2> QED BY <1>1, <1>2, <1>5, <2>1, <2>2
<1>6. CASE state # "kDisconnected" /\ "OUT" \notin interest /\ out = 0
  <2>1. CASE NothingSent(q)
    BY <1>1, <1>3, <1>6, <2>1
  <2>2. CASE ~fin /\ NothingSent(Append(q, "writeComplete"))
    <3>1. mail' = Append(q, "writeComplete") /\ UNCHANGED <<out, interest, index>>
          /\ ChannelType'
      BY <1>3, <2>2
    <3> QED BY <1>1, <1>6, <2>2, <3>1
  <2>3. CASE ~fin /\ \E n \in 0..MessageLen - 1 : Buffer(MessageLen - n, q)
    <3>1. PICK n \in 0..MessageLen - 1 : Buffer(MessageLen - n, q)
      BY <2>3
    <3>2. MessageLen - n \in Nat /\ MessageLen - n > 0
      BY <1>1
    <3> QED BY <1>1, <1>2, <1>6, <2>3, <3>1, <3>2
  <2> QED BY <1>1, <1>6, <2>1, <2>2, <2>3 DEF SendInLoop
<1> QED BY <1>1, <1>4, <1>5, <1>6

(* The steps of the specification, one by one. *)
Step ==
    \/ NewConnection \/ NewConnectionHere \/ RemoveConnection \/ ServerDestroyed
    \/ QuitLoop \/ LoopEnds
    \/ ConnectEstablished \/ ConnectDestroyedOpen \/ ConnectDestroyed
    \/ ForceCloseInLoop \/ DataCallback \/ SendFunctor \/ ShutdownFunctor
    \/ DelayOver
    \/ \E events \in SUBSET {"IN", "OUT", "HUP", "ERR"} : Poll(events)
    \/ Swap \/ HandleEvent \/ EventHup \/ EventError \/ EventRead
    \/ \E n \in 1..MaxOutput : EventWrite(n)
    \/ EventNoWrite \/ CallbackReturn
    \/ \E call \in LoopCalls : LoopCall(call)
    \/ \E t \in Threads : Share(t) \/ Release(t)
    \/ \E t \in Threads \ {LoopThread} :
          (\E call \in ForeignCalls : ForeignTest(t, call)) \/ ForeignCall(t)
    \/ UNCHANGED vars

(* Next takes one of the steps. *)
LEMMA Steps == ASSUME TypeOK, [Next]_vars PROVE Step
<1>1. SUBSET (interest \union {"HUP", "ERR"}) \subseteq SUBSET {"IN", "OUT", "HUP", "ERR"}
  BY DEF TypeOK
<1>2. CASE Server
  BY <1>2 DEF Server, Step
<1>3. CASE User
  BY <1>3 DEF User, Step
<1>4. CASE RunFunctor
  BY <1>4 DEF RunFunctor, Step
<1>5. CASE Handle
  BY <1>5 DEF Handle, Step
<1>6. CASE Loop /\ ~RunFunctor /\ ~Handle
  BY <1>1, <1>6 DEF Loop, Step
<1>7. CASE UNCHANGED vars
  BY <1>7 DEF Step
<1> QED BY <1>2, <1>3, <1>4, <1>5, <1>6, <1>7 DEF Next, Loop

-----------------------------------------------------------------------------
(* Every step keeps the types. *)
LEMMA TypeStep ==
    ASSUME TypeOK, Pristine, OutputInv, History, [Next]_vars
    PROVE  TypeOK'
<1> DEFINE Events == {"IN", "OUT", "HUP", "ERR"}
<1>0. /\ mail \in Seq(Names) /\ due \in 0..Len(mail) /\ Len(mail) \in Nat
      /\ Shared \union Raw = Names
      /\ log \in Seq({"up", "down", "close", "removed"})
  BY DEF TypeOK, Names, Shared, Raw
<1>1. TypeOK' <=>
        /\ setup' \in Setups
        /\ state' \in {"none", "kConnecting", "kConnected", "kDisconnecting",
                       "kDisconnected"}
        /\ ChannelType'
        /\ reading' \in BOOLEAN
        /\ out' \in Nat
        /\ fin' \in BOOLEAN
        /\ ready' \subseteq Events
        /\ revents' \subseteq Events
        /\ context' \in {"none", "user", "closing", "destroying"}
        /\ polled' \in BOOLEAN
        /\ due' \in 0..Len(mail')
        /\ mail' \in Seq(Names)
        /\ baseMail' \in Nat
        /\ inMap' \in BOOLEAN
        /\ server' \in {"up", "dying", "quitting", "dead"}
        /\ holders' \subseteq Threads
        /\ foreign' \in [Threads \ {LoopThread} -> ForeignCalls' \union {"none"}]
        /\ delayed' \in BOOLEAN
        /\ log' \in Seq({"up", "down", "close", "removed"})
  BY <1>0 DEF TypeOK, ChannelType
<1>2. /\ ChannelType /\ setup \in Setups /\ reading \in BOOLEAN /\ out \in Nat
      /\ fin \in BOOLEAN /\ ready \subseteq Events /\ revents \subseteq Events
      /\ polled \in BOOLEAN /\ baseMail \in Nat /\ inMap \in BOOLEAN
      /\ server \in {"up", "dying", "quitting", "dead"}
      /\ holders \subseteq Threads /\ delayed \in BOOLEAN
      /\ foreign \in [Threads \ {LoopThread} -> ForeignCalls \union {"none"}]
      /\ context \in {"none", "user", "closing", "destroying"}
      /\ state \in {"none", "kConnecting", "kConnected", "kDisconnecting",
                    "kDisconnected"}
  BY DEF TypeOK, ChannelType
<1>3. setup' = setup => ForeignCalls' = ForeignCalls
  BY DEF ForeignCalls
<1>4. \A f \in Names : /\ Append(mail, f) \in Seq(Names)
                       /\ Len(Append(mail, f)) = Len(mail) + 1
                       /\ due \in 0..Len(Append(mail, f))
  <2> SUFFICES ASSUME NEW f \in Names
               PROVE  /\ Append(mail, f) \in Seq(Names)
                      /\ Len(Append(mail, f)) = Len(mail) + 1
                      /\ due \in 0..Len(Append(mail, f))
    OBVIOUS
  <2>1. Append(mail, f) \in Seq(Names) /\ Len(Append(mail, f)) = Len(mail) + 1
    BY <1>0, Queued
  <2> QED BY <1>0, <2>1
<1>5. \A e \in {"up", "down", "close", "removed"} :
        Append(log, e) \in Seq({"up", "down", "close", "removed"})
  BY <1>0
<1>6. ASSUME Established
      PROVE  ChannelType' /\ state' = "kConnected" /\ context' = "user"
             /\ log' \in Seq({"up", "down", "close", "removed"})
  BY <1>2, <1>5, <1>6 DEF Established, Update, ChannelType
<1> USE DEF channelVars, sockVars, eventVars, serverVars, userVars
<1>7. CASE NewConnection
  <2>1. <<"established">> \in Seq(Names) /\ due \in 0..Len(<<"established">>)
    <3>1. mail = <<>>
      BY <1>7 DEF NewConnection, Pristine
    <3> QED BY <1>0, <3>1 DEF Names
  <2> QED BY <1>1, <1>2, <1>3, <1>5, <1>7, <2>1 DEF NewConnection, ChannelType
<1>8. CASE NewConnectionHere
  BY <1>0, <1>1, <1>2, <1>3, <1>6, <1>8 DEF NewConnectionHere
<1>9. CASE RemoveConnection
  <2>1. baseMail' \in Nat
    BY <1>2, <1>9 DEF RemoveConnection
  <2>2. mail' \in Seq(Names) /\ due' \in 0..Len(mail')
    BY <1>4, <1>9 DEF RemoveConnection, Names
  <2> QED BY <1>0, <1>1, <1>2, <1>3, <1>9, <2>1, <2>2 DEF RemoveConnection, ChannelType
<1>10. CASE ServerDestroyed
  BY <1>0, <1>1, <1>2, <1>3, <1>4, <1>5, <1>10 DEF ServerDestroyed, ChannelType, Names
<1>11. CASE ConnectEstablished
  <2>1. due' \in 0..Len(Tail(mail)) /\ Tail(mail) \in Seq(Names)
    BY <1>11, FunctorQueued DEF ConnectEstablished
  <2> QED BY <1>1, <1>2, <1>3, <1>6, <1>11, <2>1 DEF ConnectEstablished
<1>12. CASE ConnectDestroyedOpen
  <2>1. due' \in 0..Len(Tail(mail)) /\ Tail(mail) \in Seq(Names)
    BY <1>12, FunctorQueued DEF ConnectDestroyedOpen
  <2> QED BY <1>0, <1>1, <1>2, <1>3, <1>5, <1>12, <2>1 DEF ConnectDestroyedOpen, ChannelType, Update
<1>13. CASE ConnectDestroyed
  <2>1. due' \in 0..Len(Tail(mail)) /\ Tail(mail) \in Seq(Names)
    BY <1>13, FunctorQueued DEF ConnectDestroyed
  <2> QED BY <1>0, <1>1, <1>2, <1>3, <1>5, <1>13, <2>1 DEF ConnectDestroyed, ChannelType
<1>14. CASE ForceCloseInLoop
  <2>1. due' \in 0..Len(Tail(mail)) /\ Tail(mail) \in Seq(Names)
    BY <1>14, FunctorQueued DEF ForceCloseInLoop
  <2>2. CASE Open
    <3>1. HandleClose
      BY <1>14, <2>2 DEF ForceCloseInLoop
    <3> QED BY <1>1, <1>2, <1>3, <1>14, <2>1, <3>1, HandleCloseType DEF ForceCloseInLoop
  <2>3. CASE ~Open
    BY <1>0, <1>1, <1>2, <1>3, <1>14, <2>1, <2>3 DEF ForceCloseInLoop, ChannelType
  <2> QED BY <2>2, <2>3
<1>15. CASE DataCallback
  <2>1. due' \in 0..Len(Tail(mail)) /\ Tail(mail) \in Seq(Names)
    BY <1>15, FunctorQueued DEF DataCallback
  <2> QED BY <1>0, <1>1, <1>2, <1>3, <1>5, <1>15, <2>1 DEF DataCallback, ChannelType
<1>16. CASE SendFunctor
  <2>1. due' \in 0..Len(Tail(mail)) /\ Tail(mail) \in Seq(Names)
        /\ Len(Tail(mail)) \in Nat
    BY <1>16, FunctorQueued DEF SendFunctor
  <2>2. /\ mail' \in {Tail(mail), Append(Tail(mail), "highWater"),
                      Append(Tail(mail), "writeComplete")}
        /\ out' \in Nat /\ ChannelType'
    BY <1>16, <2>1, SendEffect DEF SendFunctor, History
  <2>3. mail' \in Seq(Names) /\ Len(mail') >= Len(Tail(mail)) /\ Len(mail') \in Nat
    <3>1. "highWater" \in Names /\ "writeComplete" \in Names
      BY DEF Names
    <3>2. \A f \in Names : /\ Append(Tail(mail), f) \in Seq(Names)
                           /\ Len(Append(Tail(mail), f)) = Len(Tail(mail)) + 1
      BY <2>1, Queued
    <3>3. CASE mail' = Tail(mail)
      BY <2>1, <3>3
    <3>4. ASSUME NEW f \in Names, mail' = Append(Tail(mail), f)
          PROVE  mail' \in Seq(Names) /\ Len(mail') = Len(Tail(mail)) + 1
      BY <3>2, <3>4
    <3>5. CASE mail' # Tail(mail)
      BY <2>1, <2>2, <3>1, <3>4, <3>5
    <3> QED BY <3>3, <3>5
  <2>4. due' \in 0..Len(mail')
    BY <2>1, <2>3
  <2> QED BY <1>0, <1>1, <1>2, <1>3, <1>16, <2>2, <2>3, <2>4 DEF SendFunctor
<1>17. CASE ShutdownFunctor
  <2>1. due' \in 0..Len(Tail(mail)) /\ Tail(mail) \in Seq(Names)
    BY <1>17, FunctorQueued DEF ShutdownFunctor
  <2> QED BY <1>0, <1>1, <1>2, <1>3, <1>5, <1>17, <2>1 DEF ShutdownFunctor, ChannelType, ShutdownInLoop
<1>18. CASE DelayOver
  BY <1>0, <1>1, <1>2, <1>3, <1>4, <1>18 DEF DelayOver, ForceClose, ChannelType, Names
<1>19. ASSUME NEW events \in SUBSET {"IN", "OUT", "HUP", "ERR"}, Poll(events) PROVE TypeOK'
  BY <1>0, <1>1, <1>2, <1>3, <1>19 DEF Poll, ChannelType, Events
<1>20. CASE Swap
  <2>1. due' \in 0..Len(mail')
    BY <1>0, <1>20 DEF Swap
  <2> QED BY <1>0, <1>1, <1>2, <1>3, <1>20, <2>1 DEF Swap, ChannelType
<1>21. CASE HandleEvent
  BY <1>0, <1>1, <1>2, <1>3, <1>21 DEF HandleEvent, ChannelType
<1>22. CASE EventHup
  <2>1. CASE HandleClose
    BY <1>0, <1>1, <1>2, <1>3, <1>22, <2>1, HandleCloseType DEF EventHup
  <2>2. CASE ~HandleClose
    BY <1>0, <1>1, <1>2, <1>3, <1>22, <2>2 DEF EventHup, ChannelType
  <2> QED BY <2>1, <2>2
<1>23. CASE EventError
  BY <1>0, <1>1, <1>2, <1>3, <1>23 DEF EventError, ChannelType
<1>24. CASE EventRead
  <2>1. CASE HandleClose
    BY <1>0, <1>1, <1>2, <1>3, <1>24, <2>1, HandleCloseType DEF EventRead
  <2>2. CASE ~HandleClose
    BY <1>0, <1>1, <1>2, <1>3, <1>24, <2>2 DEF EventRead, ChannelType
  <2> QED BY <2>1, <2>2
<1>25. ASSUME NEW n \in 1..MaxOutput, EventWrite(n) PROVE TypeOK'
  <2>1. out - n \in Nat /\ n \in Nat
    <3>1. MaxOutput \in Nat
      BY SizesAssumption
    <3> QED BY <1>2, <1>25, <3>1 DEF EventWrite
  <2>2. mail' \in {mail, Append(mail, "writeComplete")} /\ ChannelType' /\ fin' \in BOOLEAN
    BY <1>2, <1>25 DEF EventWrite, ShutdownInLoop, Update, ChannelType
  <2>3. mail' \in Seq(Names) /\ due \in 0..Len(mail')
    BY <1>0, <1>4, <2>2 DEF Names
  <2> QED BY <1>0, <1>1, <1>2, <1>3, <1>25, <2>1, <2>2, <2>3 DEF EventWrite
<1>26. CASE EventNoWrite
  BY <1>0, <1>1, <1>2, <1>3, <1>26 DEF EventNoWrite, ChannelType
<1>27. CASE CallbackReturn
  <2>1. mail' \in {mail, Append(mail, "destroy")}
    BY <1>27 DEF CallbackReturn
  <2>2. mail' \in Seq(Names) /\ due \in 0..Len(mail')
    BY <1>0, <1>4, <2>1 DEF Names
  <2>3. log' \in Seq({"up", "down", "close", "removed"})
    BY <1>0, <1>5, <1>27 DEF CallbackReturn
  <2>4. ChannelType'
    BY <1>2, <1>27 DEF CallbackReturn, ChannelType
  <2>5. inMap' \in BOOLEAN
    BY <1>2, <1>27 DEF CallbackReturn
  <2>6. baseMail' \in {baseMail, baseMail + 1}
    BY <1>2, <1>27 DEF CallbackReturn
  <2>7. baseMail' \in Nat
    BY <1>2, <2>6
  <2> QED BY <1>0, <1>1, <1>2, <1>3, <1>27, <2>2, <2>3, <2>4, <2>5, <2>7 DEF CallbackReturn
<1>28. ASSUME NEW call \in LoopCalls, LoopCall(call) PROVE TypeOK'
  <2>1. UNCHANGED <<setup, eventVars, context, due, serverVars, userVars, log>>
    BY <1>28 DEF LoopCall
  <2>2. CASE LoopSend
    <3>1. /\ mail' \in {mail, Append(mail, "highWater"), Append(mail, "writeComplete")}
          /\ out' \in Nat /\ ChannelType'
      BY <1>0, <2>2, SendEffect DEF LoopSend
    <3>2. mail' \in Seq(Names) /\ due \in 0..Len(mail')
      BY <1>0, <1>4, <3>1 DEF Names
    <3> QED BY <1>0, <1>1, <1>2, <1>3, <2>1, <2>2, <3>1, <3>2 DEF LoopSend
  <2>3. CASE LoopShutdown
    BY <1>0, <1>1, <1>2, <1>3, <2>1, <2>3 DEF LoopShutdown, ShutdownInLoop, ChannelType
  <2>4. CASE LoopForceClose
    BY <1>0, <1>1, <1>2, <1>3, <1>4, <2>1, <2>4 DEF LoopForceClose, ForceClose, ChannelType, Names
  <2>5. CASE LoopForceCloseWithDelay
    BY <1>0, <1>1, <1>2, <1>3, <2>1, <2>5 DEF LoopForceCloseWithDelay, ChannelType
  <2>6. CASE LoopStartRead
    BY <1>0, <1>1, <1>2, <1>3, <2>1, <2>6 DEF LoopStartRead, Update, ChannelType
  <2>7. CASE LoopStopRead
    BY <1>0, <1>1, <1>2, <1>3, <2>1, <2>7 DEF LoopStopRead, Update, ChannelType
  <2> QED BY <1>28, <2>2, <2>3, <2>4, <2>5, <2>6, <2>7 DEF LoopCall
<1>29. ASSUME NEW t \in Threads, Share(t) PROVE TypeOK'
  BY <1>0, <1>1, <1>2, <1>3, <1>29 DEF Share, ChannelType
<1>30. ASSUME NEW t \in Threads, Release(t) PROVE TypeOK'
  BY <1>0, <1>1, <1>2, <1>3, <1>30 DEF Release, ChannelType
<1>31. ASSUME NEW t \in Threads \ {LoopThread}, NEW call \in ForeignCalls, ForeignTest(t, call) PROVE TypeOK'
  BY <1>0, <1>1, <1>2, <1>3, <1>31 DEF ForeignTest, ChannelType
<1>32. ASSUME NEW t \in Threads \ {LoopThread}, ForeignCall(t) PROVE TypeOK'
  <2>1. foreign[t] \in Names
    BY <1>2, <1>32, ProgramCalls DEF ForeignCall, Names
  <2>2. mail' \in Seq(Names) /\ due \in 0..Len(mail')
    BY <1>4, <1>32, <2>1 DEF ForeignCall
  <2>3. foreign' \in [Threads \ {LoopThread} -> ForeignCalls \union {"none"}]
    BY <1>2, <1>32 DEF ForeignCall
  <2>4. state' \in {"none", "kConnecting", "kConnected", "kDisconnecting", "kDisconnected"}
    BY <1>2, <1>32 DEF ForeignCall
  <2>5. UNCHANGED <<setup, channelVars, sockVars, eventVars, context, due,
                    serverVars, holders, delayed, log>>
    BY <1>32 DEF ForeignCall
  <2> QED BY <1>0, <1>1, <1>2, <1>3, <2>2, <2>3, <2>4, <2>5 DEF ChannelType
<1>33. CASE UNCHANGED vars
  BY <1>0, <1>1, <1>2, <1>3, <1>33 DEF vars, ChannelType
<1>34. CASE QuitLoop
  BY <1>0, <1>1, <1>2, <1>3, <1>34 DEF QuitLoop, ChannelType
<1>35. CASE LoopEnds
  <2>1. mail' \in Seq(Names) /\ due' \in 0..Len(mail')
    <3>1. due' = 0 /\ mail' = <<>> /\ 0 \in 0..Len(<<>>) /\ <<>> \in Seq(Names)
      BY <1>35 DEF LoopEnds
    <3> QED BY <3>1
  <2> QED BY <1>0, <1>1, <1>2, <1>3, <1>35, <2>1 DEF LoopEnds, ChannelType
<1> QED
  BY Steps, <1>7, <1>8, <1>9, <1>10, <1>11, <1>12, <1>13, <1>14, <1>15, <1>16,
     <1>17, <1>18, <1>19, <1>20, <1>21, <1>22, <1>23, <1>24, <1>25, <1>26,
     <1>27, <1>28, <1>29, <1>30, <1>31, <1>32, <1>33, <1>34, <1>35 DEF Step
-----------------------------------------------------------------------------
Early == state \in {"none", "kConnecting"}

(* A server in its destructor has let go of the connection. *)
LEMMA ServerLets ==
    ASSUME ServerInv, LoopEnds
    PROVE  /\ ~inMap /\ ~OneLoop /\ server' = "dead" /\ mail' = <<>>
           /\ UNCHANGED <<setup, state, interest, index, log, context, ready, revents,
                          polled, due, out, baseMail, inMap, holders, foreign>>
           /\ ~delayed'
BY DEF ServerInv, LoopEnds, channelVars, sockVars, eventVars, userVars

(* Once the loop has ended little can happen either. *)
LEMMA DeadSteps ==
    ASSUME TypeOK, ServerInv, server = "dead", Step
    PROVE  \/ \E t \in Threads : Release(t)
           \/ \E t \in Threads \ {LoopThread} : \E call \in ForeignCalls : ForeignTest(t, call)
           \/ UNCHANGED vars
<1>1. ~polled /\ LoopFree /\ due = 0 /\ ~inMap /\ ~OneLoop /\ context = "none"
      /\ ready = {} /\ revents = {}
  BY DEF ServerInv, LoopFree
<1>2. \A f : ~Functor(f)
  BY <1>1 DEF Functor, AtFront
<1>3. ~ConnectEstablished /\ ~ConnectDestroyedOpen /\ ~ConnectDestroyed
      /\ ~ForceCloseInLoop /\ ~DataCallback /\ ~SendFunctor /\ ~ShutdownFunctor
  BY <1>2 DEF ConnectEstablished, ConnectDestroyedOpen, ConnectDestroyed,
              ForceCloseInLoop, DataCallback, SendFunctor, ShutdownFunctor
<1>4. ~NewConnection /\ ~NewConnectionHere /\ ~RemoveConnection /\ ~ServerDestroyed
      /\ ~QuitLoop /\ ~LoopEnds
  BY <1>1 DEF NewConnection, NewConnectionHere, RemoveConnection, ServerDestroyed,
              QuitLoop, LoopEnds
<1>5. ~DelayOver /\ ~Swap /\ (\A events : ~Poll(events))
  BY <1>1 DEF DelayOver, Swap, Poll
<1>6. ~HandleEvent /\ ~EventHup /\ ~EventError /\ ~EventRead /\ ~EventNoWrite
      /\ \A n : ~EventWrite(n)
  BY <1>1 DEF HandleEvent, EventHup, EventError, EventRead, EventNoWrite, EventWrite
<1>7. ~CallbackReturn /\ (\A call : ~LoopCall(call)) /\ (\A t : ~Share(t))
      /\ \A t : ~ForeignCall(t)
  BY <1>1 DEF CallbackReturn, LoopCall, InLoop, Share, ForeignCall
<1> QED BY <1>3, <1>4, <1>5, <1>6, <1>7 DEF Step

(* Every step keeps ServerInv, and the program. *)
LEMMA ServerStep ==
    ASSUME TypeOK, ServerInv, Step
    PROVE  ServerInv' /\ setup' = setup
<1> USE DEF channelVars, sockVars, eventVars, serverVars, userVars
<1>1. CASE server = "dead"
  BY <1>1, DeadSteps DEF ServerInv, Release, ForeignTest, vars, OneLoop, LoopFree
<1>2. CASE LoopEnds
  BY <1>2, ServerLets DEF ServerInv, LoopEnds, OneLoop, LoopFree
<1>3. ASSUME server # "dead", UNCHANGED <<setup, server>>, inMap' => inMap
      PROVE  ServerInv' /\ setup' = setup
  BY <1>3 DEF ServerInv, OneLoop
<1>4. CASE server # "dead" /\ (NewConnection \/ NewConnectionHere)
  BY <1>4 DEF NewConnection, NewConnectionHere, ServerInv, OneLoop
<1>5. CASE server # "dead" /\ (RemoveConnection \/ ServerDestroyed \/ QuitLoop)
  BY <1>5 DEF RemoveConnection, ServerDestroyed, QuitLoop, ServerInv, OneLoop
<1>6. CASE server # "dead" /\ (\/ ConnectEstablished \/ ConnectDestroyedOpen
                               \/ ConnectDestroyed \/ ForceCloseInLoop \/ DataCallback
                               \/ SendFunctor \/ ShutdownFunctor \/ DelayOver)
  BY <1>3, <1>6 DEF ConnectEstablished, ConnectDestroyedOpen, ConnectDestroyed,
     ForceCloseInLoop, DataCallback, SendFunctor, ShutdownFunctor, DelayOver
<1>7. CASE server # "dead" /\ (\/ \E events : Poll(events)
                               \/ Swap \/ HandleEvent \/ EventHup \/ EventError \/ EventRead
                               \/ (\E n : EventWrite(n)) \/ EventNoWrite)
  BY <1>3, <1>7 DEF Poll, Swap, HandleEvent, EventHup, EventError, EventRead,
     EventWrite, EventNoWrite
<1>8. CASE server # "dead" /\ CallbackReturn
  <2>1. UNCHANGED <<setup, server>> /\ (inMap' => inMap)
    BY <1>8 DEF CallbackReturn
  <2> QED BY <1>3, <1>8, <2>1
<1>9. CASE server # "dead" /\ (\/ \E call : LoopCall(call)
                               \/ \E t : Share(t) \/ Release(t) \/ ForeignCall(t)
                               \/ \E t, call : ForeignTest(t, call)
                               \/ UNCHANGED vars)
  BY <1>3, <1>9 DEF LoopCall, Share, Release, ForeignCall, ForeignTest, vars
<1> QED BY <1>1, <1>2, <1>4, <1>5, <1>6, <1>7, <1>8, <1>9 DEF Step

(* Until the connection is established little can happen. *)
LEMMA EarlySteps ==
    ASSUME TypeOK, Pristine, Early, Step
    PROVE  \/ NewConnection \/ NewConnectionHere \/ ServerDestroyed
           \/ QuitLoop \/ LoopEnds
           \/ ConnectEstablished \/ Poll({}) \/ Swap \/ UNCHANGED vars
<1>1. /\ log = <<>> /\ interest = {} /\ index = "new" /\ out = 0
      /\ holders = {} /\ context = "none" /\ ready = {} /\ revents = {}
      /\ \A t \in Threads \ {LoopThread} : foreign[t] = "none"
      /\ ~delayed /\ baseMail = 0
  BY DEF Pristine, Early
<1>2. \A f : Functor(f) => f = "established"
  <2>1. mail \in {<<>>, <<"established">>, <<"established", "destroy">>}
    BY DEF Pristine, Early
  <2>2. mail # <<>> => Head(mail) = "established"
    BY <2>1
  <2>3. ASSUME NEW f, Functor(f) PROVE mail # <<>> /\ Head(mail) = f
    BY <2>3, FunctorQueued
  <2> QED BY <2>2, <2>3
<1>3. ~RemoveConnection
  BY <1>1 DEF RemoveConnection
<1>4. ~ConnectDestroyedOpen /\ ~ConnectDestroyed /\ ~ForceCloseInLoop
      /\ ~DataCallback /\ ~SendFunctor /\ ~ShutdownFunctor
  BY <1>2 DEF ConnectDestroyedOpen, ConnectDestroyed, ForceCloseInLoop,
              DataCallback, SendFunctor, ShutdownFunctor
<1>5. ~DelayOver
  BY <1>1 DEF DelayOver
<1>6. \A events : Poll(events) => events = {}
  BY <1>1 DEF Poll
<1>7. ~HandleEvent
  BY <1>1 DEF HandleEvent
<1>8. ~EventHup /\ ~EventError /\ ~EventRead /\ ~EventNoWrite
      /\ \A n : ~EventWrite(n)
  BY <1>1 DEF EventHup, EventError, EventRead, EventNoWrite, EventWrite
<1>9. ~CallbackReturn
  BY <1>1 DEF CallbackReturn
<1>10. \A call : ~LoopCall(call)
  BY <1>1 DEF LoopCall, InLoop
<1>11. \A t : ~Share(t) /\ ~Release(t)
  BY <1>1 DEF Share, Release
<1>12. \A t, call : ~ForeignTest(t, call)
  BY <1>1 DEF ForeignTest
<1>13. \A t \in Threads \ {LoopThread} : ~ForeignCall(t)
  BY <1>1 DEF ForeignCall
<1> QED BY <1>3, <1>4, <1>5, <1>6, <1>7, <1>8, <1>9, <1>10, <1>11, <1>12, <1>13 DEF Step

(* Afterwards the connection is neither made nor destroyed by newConnection. *)
LEMMA LateSteps ==
    ASSUME ~Early, Step
    PROVE  /\ ~NewConnection /\ ~NewConnectionHere /\ ~ConnectEstablished
           /\ ~Early'
<1>1. ~NewConnection /\ ~NewConnectionHere /\ ~ConnectEstablished
  BY DEF Early, NewConnection, NewConnectionHere, ConnectEstablished
<1> SUFFICES state' = state \/ state' \in {"kConnected", "kDisconnecting", "kDisconnected"}
  BY <1>1 DEF Early
<1>3. HandleClose => state' = "kDisconnected"
  BY DEF HandleClose
<1>4. CASE RemoveConnection
  BY <1>4 DEF RemoveConnection
<1>5. CASE ServerDestroyed
  BY <1>5 DEF ServerDestroyed
<1>6. CASE ConnectDestroyedOpen
  BY <1>6 DEF ConnectDestroyedOpen
<1>7. CASE ConnectDestroyed
  BY <1>7 DEF ConnectDestroyed
<1>8. CASE ForceCloseInLoop
  BY <1>3, <1>8 DEF ForceCloseInLoop
<1>9. CASE DataCallback
  BY <1>9 DEF DataCallback
<1>10. CASE SendFunctor
  BY <1>10 DEF SendFunctor
<1>11. CASE ShutdownFunctor
  BY <1>11 DEF ShutdownFunctor
<1>12. CASE DelayOver
  BY <1>12 DEF DelayOver, ForceClose
<1>13. CASE \E events : Poll(events)
  BY <1>13 DEF Poll
<1>14. CASE Swap \/ HandleEvent
  BY <1>14 DEF Swap, HandleEvent
<1>15. CASE EventHup
  BY <1>3, <1>15 DEF EventHup
<1>16. CASE EventError \/ EventNoWrite
  BY <1>16 DEF EventError, EventNoWrite
<1>17. CASE EventRead
  BY <1>3, <1>17 DEF EventRead
<1>18. CASE \E n : EventWrite(n)
  BY <1>18 DEF EventWrite
<1>19. CASE CallbackReturn
  BY <1>19 DEF CallbackReturn
<1>20. CASE \E call : LoopCall(call)
  <2>1. PICK call : LoopCall(call)
    BY <1>20
  <2> QED BY <2>1 DEF LoopCall, LoopSend, LoopShutdown, LoopForceClose, ForceClose,
              LoopForceCloseWithDelay, LoopStartRead, LoopStopRead
<1>21. CASE \E t : Share(t) \/ Release(t)
  BY <1>21 DEF Share, Release
<1>22. CASE \E t, call : ForeignTest(t, call)
  BY <1>22 DEF ForeignTest
<1>23. CASE \E t : ForeignCall(t)
  BY <1>23 DEF ForeignCall
<1>24. CASE UNCHANGED vars
  BY <1>24 DEF vars
<1>25. CASE QuitLoop \/ LoopEnds
  BY <1>25 DEF QuitLoop, LoopEnds
<1> QED
  BY <1>1, <1>4, <1>5, <1>6, <1>7, <1>8, <1>9, <1>10, <1>11, <1>12, <1>13, <1>14,
     <1>15, <1>16, <1>17, <1>18, <1>19, <1>20, <1>21, <1>22, <1>23, <1>24, <1>25
     DEF Step

(* Nobody has seen the connection before it is established. *)
LEMMA PristineStep ==
    ASSUME TypeOK, ServerInv, Pristine, Step
    PROVE  Pristine'
<1> USE DEF channelVars, sockVars, eventVars, serverVars, userVars
<1>1. CASE ~Early
  BY <1>1, LateSteps DEF Pristine, Early
<1>2. CASE Early
  <2>1. /\ log = <<>> /\ interest = {} /\ index = "new" /\ out = 0
        /\ holders = {} /\ context = "none" /\ ready = {} /\ revents = {}
        /\ \A t \in Threads \ {LoopThread} : foreign[t] = "none"
        /\ ~delayed /\ baseMail = 0
        /\ state = "none" => mail = <<>> /\ ~inMap
        /\ state = "kConnecting" =>
              \/ mail = <<"established">> /\ inMap
              \/ mail = <<"established", "destroy">> /\ ~inMap /\ server # "up"
              \/ mail = <<>> /\ server = "dead"
        /\ OneLoop => state = "none"
    BY <1>2 DEF Pristine, Early
  <2>2. setup' = setup => OneLoop' = OneLoop
    BY DEF OneLoop
  <2>3. CASE NewConnection
    BY <2>1, <2>2, <2>3 DEF NewConnection, Pristine
  <2>4. CASE NewConnectionHere \/ ConnectEstablished
    BY <2>4 DEF NewConnectionHere, ConnectEstablished, Established, Pristine
  <2>5. CASE ServerDestroyed
    <3>1. CASE inMap
      <4>1. state = "kConnecting" /\ mail = <<"established">>
        BY <1>2, <2>1, <2>5, <3>1 DEF ServerDestroyed, Early
      <4>2. Append(<<"established">>, "destroy") = <<"established", "destroy">>
        BY AppendTwo
      <4>3. mail' = <<"established", "destroy">> /\ server' # "up"
        BY <2>5, <3>1, <4>1, <4>2 DEF ServerDestroyed
      <4> QED BY <2>1, <2>2, <2>5, <4>1, <4>3 DEF ServerDestroyed, Pristine
    <3>2. CASE ~inMap
      <4>1. state = "none" /\ mail' = mail
        BY <1>2, <2>1, <2>5, <3>2 DEF ServerDestroyed, Early
      <4> QED BY <2>1, <2>2, <2>5, <4>1 DEF ServerDestroyed, Pristine
    <3> QED BY <3>1, <3>2
  <2>6. CASE Poll({})
    BY <2>1, <2>2, <2>6 DEF Poll, Pristine
  <2>7. CASE Swap
    BY <2>1, <2>2, <2>7 DEF Swap, Pristine
  <2>8. CASE UNCHANGED vars
    BY <2>1, <2>2, <2>8 DEF vars, Pristine
  <2>9. CASE QuitLoop
    BY <2>1, <2>2, <2>9 DEF QuitLoop, Pristine
  <2>10. CASE LoopEnds
    BY <1>2, <2>1, <2>2, <2>10, ServerLets DEF LoopEnds, Pristine, Early
  <2> QED BY <1>2, <2>3, <2>4, <2>5, <2>6, <2>7, <2>8, <2>9, <2>10, EarlySteps
<1> QED BY <1>1, <1>2

-----------------------------------------------------------------------------
(* Output is written while there is some, and before the FIN: a step tells  *)
(* of an end, or leaves both so.                                            *)
LEMMA LateOutput ==
    ASSUME TypeOK, OutputInv, History, ~Early, Step
    PROVE  \/ \E e \in {"down", "close", "removed"} : log' = Append(log, e)
           \/ /\ log' = log
              /\ log = <<"up">> => /\ state' # "kDisconnected"
                                   /\ "OUT" \in interest' <=> out' > 0
                                   /\ fin' => out' = 0
<1> USE DEF channelVars, sockVars, eventVars, serverVars, userVars
<1> DEFINE Told == \E e \in {"down", "close", "removed"} : log' = Append(log, e)
           Kept == /\ log' = log
                   /\ log = <<"up">> => /\ state' # "kDisconnected"
                                        /\ "OUT" \in interest' <=> out' > 0
                                        /\ fin' => out' = 0
<1> SUFFICES Told \/ Kept
  OBVIOUS
<1>1. log = <<"up">> => /\ state # "kDisconnected"
                        /\ "OUT" \in interest <=> out > 0
                        /\ fin => out = 0
  BY DEF OutputInv, WritesWhileOutput, FinAfterOutput, History
<1>2. out \in Nat /\ mail \in Seq(Names)
  BY DEF TypeOK, Names, Shared, Raw
<1>3. HandleClose => Told
  BY DEF HandleClose
<1>4. ASSUME log' = log, UNCHANGED <<interest, out, fin>>,
             state' = state \/ state' # "kDisconnected"
      PROVE  Kept
  BY <1>1, <1>4
<1>5. ASSUME log' = log, UNCHANGED <<interest, out, state>>, ShutdownInLoop(interest)
      PROVE  Kept
  <2>1. fin' => fin \/ "OUT" \notin interest
    BY <1>5, Zenon DEF ShutdownInLoop
  <2>2. log = <<"up">> => (fin' => out = 0)
    BY <1>1, <1>2, <2>1
  <2> QED BY <1>1, <1>5, <2>2
<1>6. ASSUME NEW q \in Seq(Names), SendInLoop(q), UNCHANGED <<log, state, fin>>
      PROVE  Kept
  BY <1>1, <1>6, SendEffect
<1> HIDE DEF Told, Kept
<1>7. CASE ConnectDestroyedOpen \/ ConnectDestroyed
  BY <1>7 DEF ConnectDestroyedOpen, ConnectDestroyed, Told
<1>8. CASE ForceCloseInLoop
  BY <1>3, <1>4, <1>8 DEF ForceCloseInLoop
<1>9. CASE SendFunctor
  <2>1. Tail(mail) \in Seq(Names)
    BY <1>9, FunctorQueued DEF SendFunctor
  <2> QED BY <1>6, <1>9, <2>1 DEF SendFunctor
<1>10. CASE ShutdownFunctor
  BY <1>5, <1>10 DEF ShutdownFunctor
<1>11. CASE DataCallback \/ RemoveConnection \/ ServerDestroyed \/ QuitLoop \/ LoopEnds
  BY <1>4, <1>11 DEF DataCallback, RemoveConnection, ServerDestroyed, QuitLoop, LoopEnds
<1>12. CASE DelayOver
  BY <1>4, <1>12 DEF DelayOver, ForceClose
<1>13. CASE (\E events : Poll(events)) \/ Swap \/ HandleEvent
  BY <1>4, <1>13 DEF Poll, Swap, HandleEvent
<1>14. CASE EventHup
  BY <1>3, <1>4, <1>14 DEF EventHup
<1>15. CASE EventError \/ EventNoWrite
  BY <1>4, <1>15 DEF EventError, EventNoWrite
<1>16. CASE EventRead
  BY <1>3, <1>4, <1>16 DEF EventRead
<1>17. CASE \E n \in 1..MaxOutput : EventWrite(n)
  <2>1. PICK n \in 1..MaxOutput : EventWrite(n)
    BY <1>17
  <2>2. log' = log /\ state' = state /\ "OUT" \in interest /\ out' = out - n
        /\ n \in 1..out
    BY <2>1 DEF EventWrite
  <2>3. out \in Nat /\ n \in Nat /\ out > 0
    BY <1>2, <2>2
  <2>4. CASE n = out
    <3>1. out' = 0
      BY <2>2, <2>3, <2>4
    <3>2. "OUT" \notin interest'
      BY <2>1, <2>4 DEF EventWrite, Update
    <3> QED BY <1>1, <2>2, <3>1, <3>2 DEF Kept
  <2>5. CASE n # out
    <3>1. out' > 0 /\ out' # 0
      BY <2>2, <2>3, <2>5
    <3>2. UNCHANGED <<interest, fin>>
      BY <2>1, <2>5 DEF EventWrite
    <3>3. log = <<"up">> => ~fin
      BY <1>1, <2>3
    <3> QED BY <1>1, <2>2, <3>1, <3>2, <3>3 DEF Kept
  <2> QED BY <2>4, <2>5
<1>18. CASE CallbackReturn
  <2>1. CASE context = "user"
    BY <1>4, <1>18, <2>1 DEF CallbackReturn
  <2>2. CASE context # "user"
    BY <1>18, <2>2 DEF CallbackReturn, Told
  <2> QED BY <2>1, <2>2
<1>19. CASE \E call \in LoopCalls : LoopCall(call)
  <2>1. PICK call : LoopCall(call)
    BY <1>19
  <2>2. log' = log
    BY <2>1 DEF LoopCall
  <2>3. CASE LoopSend
    BY <1>2, <1>6, <2>2, <2>3 DEF LoopSend
  <2>4. CASE LoopShutdown
    <3>1. fin' => fin \/ "OUT" \notin interest
      BY <2>4, Zenon DEF LoopShutdown, ShutdownInLoop
    <3>2. log = <<"up">> => (fin' => out = 0)
      BY <1>1, <1>2, <3>1
    <3>3. state' # "kDisconnected" /\ UNCHANGED <<interest, out>>
      BY <2>4 DEF LoopShutdown
    <3> QED BY <1>1, <2>2, <3>2, <3>3 DEF Kept
  <2>5. CASE LoopForceClose \/ LoopForceCloseWithDelay
    BY <1>4, <2>2, <2>5 DEF LoopForceClose, LoopForceCloseWithDelay, ForceClose
  <2>6. CASE LoopStartRead \/ LoopStopRead
    <3>1. "OUT" \in interest' <=> "OUT" \in interest
      BY <2>6 DEF LoopStartRead, LoopStopRead, Update
    <3>2. UNCHANGED <<state, out, fin>>
      BY <2>6 DEF LoopStartRead, LoopStopRead
    <3> QED BY <1>1, <2>2, <3>1, <3>2 DEF Kept
  <2> QED BY <2>1, <2>3, <2>4, <2>5, <2>6 DEF LoopCall
<1>20. CASE \E t : Share(t) \/ Release(t)
  BY <1>4, <1>20 DEF Share, Release
<1>21. CASE \E t, call : ForeignTest(t, call)
  BY <1>4, <1>21 DEF ForeignTest
<1>22. CASE \E t : ForeignCall(t)
  BY <1>4, <1>22 DEF ForeignCall
<1>23. CASE UNCHANGED vars
  BY <1>4, <1>23 DEF vars
<1> QED
  BY LateSteps, <1>7, <1>8, <1>9, <1>10, <1>11, <1>12, <1>13, <1>14, <1>15, <1>16,
     <1>17, <1>18, <1>19, <1>20, <1>21, <1>22, <1>23 DEF Step

(* Every step keeps OutputInv, and the history true. *)
LEMMA OutputStep ==
    ASSUME TypeOK, Pristine, OutputInv, History, Step
    PROVE  OutputInv' /\ History'
<1> USE DEF channelVars, sockVars, eventVars, serverVars, userVars
<1>1. CASE ~Early
  <2>1. log # <<>> /\ log \in Seq({"up", "down", "close", "removed"})
    BY <1>1 DEF History, TypeOK, Early
  <2>2. \A e \in {"down", "close", "removed"} :
            Append(log, e) # <<>> /\ Append(log, e) # <<"up">>
    BY <2>1
  <2> QED BY <1>1, <2>1, <2>2, LateOutput
          DEF OutputInv, WritesWhileOutput, FinAfterOutput, History
<1>2. CASE Early
  <2>1. log = <<>> /\ out = 0 /\ <<>> # <<"up">>
    BY <1>2 DEF Pristine, Early
  <2>2. CASE NewConnectionHere \/ ConnectEstablished
    <3>1. Established /\ out' = 0
      BY <2>1, <2>2 DEF NewConnectionHere, ConnectEstablished
    <3>2. log' = <<"up">> /\ interest' = {"IN"} /\ state' = "kConnected"
      BY <2>1, <3>1 DEF Established, Update
    <3> QED BY <3>1, <3>2 DEF OutputInv, WritesWhileOutput, FinAfterOutput, History
  <2>3. CASE ~NewConnectionHere /\ ~ConnectEstablished
    <3>1. log' = <<>> /\ Early'
      BY <1>2, <2>1, <2>3, EarlySteps
         DEF NewConnection, ServerDestroyed, QuitLoop, LoopEnds, Poll, Swap, vars, Early
    <3> QED BY <2>1, <3>1 DEF OutputInv, WritesWhileOutput, FinAfterOutput, History, Early
  <2> QED BY <2>2, <2>3
<1> QED BY <1>1, <1>2

-----------------------------------------------------------------------------
(* What the functors that end the connection are kept by. *)
KeepsDestroy(q, r) ==
    /\ NoDestroy(q) => NoDestroy(r)
    /\ OneDestroy(q) => OneDestroy(r)

(* A functor at the end of the queue: any other one, or the one that ends the
   connection. *)
LEMMA DestroyAppend ==
    ASSUME NEW q \in Seq(Names), NEW f \in Names
    PROVE  /\ f # "destroy" => KeepsDestroy(q, Append(q, f))
           /\ NoDestroy(q) => OneDestroy(Append(q, "destroy"))
<1>1. Len(q) \in Nat /\ DOMAIN q = 1..Len(q)
  OBVIOUS
<1>2. ASSUME NEW g \in Names
      PROVE  /\ DOMAIN Append(q, g) = 1..(Len(q) + 1)
             /\ Append(q, g)[Len(q) + 1] = g
             /\ \A i \in 1..Len(q) : Append(q, g)[i] = q[i]
  OBVIOUS
<1>3. 1..(Len(q) + 1) = 1..Len(q) \union {Len(q) + 1}
  BY <1>1
<1>4. ASSUME f # "destroy", NoDestroy(q) PROVE NoDestroy(Append(q, f))
  BY <1>1, <1>2, <1>3, <1>4 DEF NoDestroy
<1>5. ASSUME f # "destroy", OneDestroy(q) PROVE OneDestroy(Append(q, f))
  <2>1. PICK i \in DOMAIN q :
            q[i] = "destroy" /\ \A j \in DOMAIN q : q[j] = "destroy" => j = i
    BY <1>5 DEF OneDestroy
  <2>2. /\ i \in DOMAIN Append(q, f) /\ Append(q, f)[i] = "destroy"
        /\ \A j \in DOMAIN Append(q, f) : Append(q, f)[j] = "destroy" => j = i
    BY <1>1, <1>2, <1>3, <1>5, <2>1
  <2> QED BY <2>2 DEF OneDestroy
<1>6. ASSUME NoDestroy(q) PROVE OneDestroy(Append(q, "destroy"))
  <2>0. "destroy" \in Names
    BY DEF Names
  <2> DEFINE n == Len(q) + 1
  <2>1. /\ n \in DOMAIN Append(q, "destroy") /\ Append(q, "destroy")[n] = "destroy"
        /\ \A j \in DOMAIN Append(q, "destroy") :
              Append(q, "destroy")[j] = "destroy" => j = n
    BY <1>1, <1>2, <1>3, <1>6, <2>0 DEF NoDestroy
  <2> QED BY <2>1 DEF OneDestroy
<1> QED BY <1>4, <1>5, <1>6 DEF KeepsDestroy

(* A functor less at its front. *)
LEMMA DestroyTail ==
    ASSUME NEW q \in Seq(Names), q # <<>>
    PROVE  /\ Head(q) # "destroy" => KeepsDestroy(q, Tail(q))
           /\ Head(q) = "destroy" =>
                 ~NoDestroy(q) /\ (OneDestroy(q) => NoDestroy(Tail(q)))
<1>1. /\ Len(q) \in Nat /\ Len(q) >= 1 /\ DOMAIN q = 1..Len(q) /\ Head(q) = q[1]
      /\ DOMAIN Tail(q) = 1..(Len(q) - 1)
      /\ \A i \in 1..(Len(q) - 1) : Tail(q)[i] = q[i + 1]
  OBVIOUS
<1>2. \A i \in 1..(Len(q) - 1) : i + 1 \in 1..Len(q) /\ i + 1 # 1 /\ i \in Nat
  BY <1>1
<1>3. NoDestroy(q) => NoDestroy(Tail(q)) /\ q[1] # "destroy"
  BY <1>1, <1>2 DEF NoDestroy
<1>4. ASSUME OneDestroy(q)
      PROVE  IF q[1] = "destroy" THEN NoDestroy(Tail(q)) ELSE OneDestroy(Tail(q))
  <2>1. PICK i \in 1..Len(q) :
            q[i] = "destroy" /\ \A j \in 1..Len(q) : q[j] = "destroy" => j = i
    BY <1>1, <1>4 DEF OneDestroy
  <2>2. CASE i = 1
    BY <1>1, <1>2, <2>1, <2>2 DEF NoDestroy
  <2>3. CASE i # 1
    <3>1. i - 1 \in 1..(Len(q) - 1) /\ (i - 1) + 1 = i
      BY <1>1, <2>1, <2>3
    <3>2. Tail(q)[i - 1] = "destroy"
      BY <1>1, <2>1, <3>1
    <3>3. ASSUME NEW j \in 1..(Len(q) - 1), Tail(q)[j] = "destroy" PROVE j = i - 1
      <4>1. q[j + 1] = "destroy" /\ j + 1 \in 1..Len(q) /\ j \in Nat
        BY <1>1, <1>2, <3>3
      <4>2. j + 1 = i
        BY <2>1, <4>1
      <4> QED BY <4>1, <4>2
    <3>4. OneDestroy(Tail(q))
      BY <1>1, <3>1, <3>2, <3>3 DEF OneDestroy
    <3>5. q[1] # "destroy"
      BY <1>1, <2>1, <2>3
    <3> QED BY <3>4, <3>5
  <2> QED BY <2>2, <2>3
<1> QED BY <1>1, <1>3, <1>4 DEF KeepsDestroy

(* The histories there are. *)
LEMMA Histories ==
    /\ Append(<<>>, "up") = <<"up">>
    /\ Append(<<"up">>, "down") = <<"up", "down">>
    /\ Append(<<"up", "down">>, "removed") = <<"up", "down", "removed">>
    /\ Append(<<"up", "down">>, "close") = <<"up", "down", "close">>
    /\ Append(<<"up", "down", "close">>, "removed") = <<"up", "down", "close", "removed">>
<1> DEFINE E == {"up", "down", "close", "removed"}
<1>1. Append(<<>>, "up") = <<"up">>
  OBVIOUS
<1>2. Append(<<"up">>, "down") = <<"up", "down">>
  BY AppendTwo
<1>3. ASSUME NEW c \in E PROVE Append(<<"up", "down">>, c) = <<"up", "down", c>>
  <2>1. <<"up", "down">> \in Seq(E) /\ <<"up", "down", c>> \in Seq(E)
        /\ Append(<<"up", "down">>, c) \in Seq(E)
    OBVIOUS
  <2>2. Len(<<"up", "down", c>>) = 3 /\ Len(Append(<<"up", "down">>, c)) = 3
    OBVIOUS
  <2>3. /\ Append(<<"up", "down">>, c)[1] = "up" /\ Append(<<"up", "down">>, c)[2] = "down"
        /\ Append(<<"up", "down">>, c)[3] = c
    OBVIOUS
  <2>4. /\ <<"up", "down", c>>[1] = "up" /\ <<"up", "down", c>>[2] = "down"
        /\ <<"up", "down", c>>[3] = c
    OBVIOUS
  <2>5. \A i \in 1..3 : Append(<<"up", "down">>, c)[i] = <<"up", "down", c>>[i]
    BY <2>3, <2>4
  <2> QED BY <2>1, <2>2, <2>5, SeqEqual
<1>4. Append(<<"up", "down", "close">>, "removed") = <<"up", "down", "close", "removed">>
  <2> DEFINE s == Append(<<"up", "down", "close">>, "removed")
             t == <<"up", "down", "close", "removed">>
  <2>1. <<"up", "down", "close">> \in Seq(E) /\ t \in Seq(E) /\ s \in Seq(E)
    OBVIOUS
  <2>2. Len(t) = 4 /\ Len(s) = 4
    OBVIOUS
  <2>3. s[1] = "up" /\ s[2] = "down" /\ s[3] = "close" /\ s[4] = "removed"
    OBVIOUS
  <2>4. t[1] = "up" /\ t[2] = "down" /\ t[3] = "close" /\ t[4] = "removed"
    OBVIOUS
  <2>5. \A i \in 1..4 : s[i] = t[i]
    BY <2>3, <2>4
  <2> QED BY <2>1, <2>2, <2>5, SeqEqual
<1> QED BY <1>1, <1>2, <1>3, <1>4

(* A step that neither ends the connection nor goes on with its end.        *)
LEMMA PhaseKept ==
    ASSUME Phases, ~Early, KeepsDestroy(mail, mail'),
           UNCHANGED <<setup, log, baseMail, inMap, server>>,
           state' = state \/ (Open /\ Open'),
           index' = index \/ (Open /\ index' = "added"),
           "IN" \in interest => "IN" \in interest',
           state = "kDisconnected" => UNCHANGED interest,
           context' = context \/ (context \in {"none", "user"} /\ context' \in {"none", "user"})
    PROVE  Phases'
<1>1. OneLoop' = OneLoop
  BY DEF OneLoop
<1>2. /\ Mapped => Mapped'
      /\ Leaving => Leaving'
      /\ Gone => Gone'
  BY DEF Mapped, Leaving, Gone, KeepsDestroy
<1>3. OpenPhase => OpenPhase'
  BY <1>1, <1>2 DEF OpenPhase, Open
<1>4. Unread => Unread' /\ index' = index
  BY DEF Unread, Open
<1>5. ClosingPhase => ClosingPhase'
  BY <1>1, <1>2, <1>4 DEF ClosingPhase
<1>6. DestroyingPhase => DestroyingPhase'
  BY <1>1, <1>2, <1>4 DEF DestroyingPhase
<1>7. ClosedPhase => ClosedPhase'
  BY <1>1, <1>2, <1>4 DEF ClosedPhase
<1>8. RemovedPhase => RemovedPhase'
  BY <1>1, <1>2, <1>4 DEF RemovedPhase
<1> QED BY <1>3, <1>5, <1>6, <1>7, <1>8 DEF Phases, Early

(* handleClose ends an open connection, whoever will destroy it.            *)
LEMMA PhaseCloses ==
    ASSUME Phases, HandleClose, ~Early, KeepsDestroy(mail, mail'),
           UNCHANGED <<setup, baseMail, inMap, server>>
    PROVE  /\ OpenPhase /\ Open
           /\ Phases' /\ state' = "kDisconnected"
<1>1. OneLoop' = OneLoop
  BY DEF OneLoop
<1>2. (Mapped => Mapped') /\ (Leaving => Leaving')
  BY DEF Mapped, Leaving, KeepsDestroy
<1>3. Open /\ OpenPhase
  BY DEF HandleClose, Open, Phases, Early, ClosingPhase, DestroyingPhase,
         ClosedPhase, RemovedPhase, Unread
<1>4. /\ log' = <<"up", "down">> /\ index' = "deleted" /\ interest' = {}
      /\ state' = "kDisconnected" /\ context' = "closing"
  BY <1>3, Histories DEF HandleClose, Update, OpenPhase
<1>5. ClosingPhase'
  BY <1>1, <1>2, <1>3, <1>4 DEF OpenPhase, ClosingPhase, Unread
<1> QED BY <1>3, <1>4, <1>5 DEF Phases

(* The phases follow one another, and the events that are left are those of *)
(* an open connection.                                                      *)
LEMMA LateConfined ==
    ASSUME TypeOK, OutputInv, History, ServerInv, Confined, Phases, EventsOfOpen,
           ~Early, Step, ~LoopEnds
    PROVE  Phases' /\ EventsOfOpen'
<1> USE DEF channelVars, sockVars, eventVars, serverVars, userVars
<1> DEFINE Good == Phases' /\ EventsOfOpen'
<1> SUFFICES Good
  OBVIOUS
<1>1. /\ mail \in Seq(Names) /\ setup \in Setups
      /\ foreign \in [Threads \ {LoopThread} -> ForeignCalls \union {"none"}]
      /\ interest \subseteq {"IN", "OUT"}
  BY DEF TypeOK, Names, Shared, Raw
<1>2. setup' = setup => OneLoop' = OneLoop
  BY DEF OneLoop
<1>3. /\ ready # {} => Open /\ revents = {} /\ context = "none"
      /\ revents \intersect {"HUP", "IN"} # {} => Open
      /\ OneLoop \/ inMap => server = "up"
  BY DEF EventsOfOpen, ServerInv
<1>4. KeepsDestroy(mail, mail)
  BY DEF KeepsDestroy
<1>5. Open => OpenPhase
  BY DEF Phases, Early, Open, ClosingPhase, DestroyingPhase, ClosedPhase,
         RemovedPhase, Unread
<1>6. /\ index = "added" => OpenPhase
      /\ context = "closing" => ClosingPhase
      /\ context = "destroying" => DestroyingPhase
      /\ state = "kDisconnected" => Unread
  BY DEF Phases, Early, OpenPhase, Open, ClosingPhase, DestroyingPhase,
         ClosedPhase, RemovedPhase, Unread
<1>7. OpenPhase => Open /\ "IN" \in interest /\ index = "added"
  BY DEF OpenPhase
<1>8. ASSUME HandleClose, KeepsDestroy(mail, mail'),
             UNCHANGED <<setup, baseMail, inMap, server>>,
             ready' = {}, revents' \intersect {"HUP", "IN"} = {}
      PROVE  Good
  <2>1. Phases' /\ state' = "kDisconnected"
    BY <1>8, PhaseCloses
  <2> QED BY <1>2, <1>3, <1>8, <2>1 DEF EventsOfOpen
<1>9. ASSUME KeepsDestroy(mail, mail'),
             UNCHANGED <<setup, log, baseMail, inMap, state, index, interest, server>>,
             context' = context \/ (context \in {"none", "user"} /\ context' \in {"none", "user"}),
             ready' # {} => Open /\ revents' = {} /\ context' = "none",
             revents' \intersect {"HUP", "IN"} # {} => Open
      PROVE  Good
  <2>1. Phases'
    BY <1>9, PhaseKept
  <2>2. Open' = Open
    BY <1>9 DEF Open
  <2> QED BY <1>2, <1>3, <1>9, <2>1, <2>2 DEF EventsOfOpen
<1>10. ASSUME NEW q \in Seq(Names), KeepsDestroy(mail, q), SendInLoop(q),
              UNCHANGED <<setup, log, baseMail, inMap, state, server, context,
                          ready, revents>>
       PROVE  Good
  <2>1. /\ mail' \in {q, Append(q, "highWater"), Append(q, "writeComplete")}
        /\ interest' \in {interest, interest \union {"OUT"}}
        /\ interest' = interest => index' = index
        /\ interest' # interest => index' = "added"
        /\ state = "kDisconnected" => UNCHANGED <<interest, index>>
    BY <1>10, SendEffect DEF History
  <2>2. KeepsDestroy(mail, mail')
    BY <1>10, <2>1, DestroyAppend DEF KeepsDestroy, Names
  <2>3. index' = index \/ (Open /\ index' = "added")
    BY <1>6, <2>1 DEF Phases, Early, OpenPhase, ClosingPhase, DestroyingPhase,
                      ClosedPhase, RemovedPhase, Unread
  <2>4. Phases'
    BY <1>10, <2>1, <2>2, <2>3, PhaseKept
  <2>5. Open' = Open
    BY <1>10 DEF Open
  <2> QED BY <1>2, <1>3, <1>10, <2>4, <2>5 DEF EventsOfOpen
<1>11. \A f : Functor(f) =>
          /\ mail # <<>> /\ Head(mail) = f /\ Tail(mail) \in Seq(Names)
          /\ f # "destroy" => KeepsDestroy(mail, Tail(mail))
          /\ context = "none" /\ ready = {} /\ revents = {}
  BY <1>1, FunctorQueued, DestroyTail
<1> HIDE DEF Good
<1>12. CASE RemoveConnection
  <2>1. baseMail > 0 /\ inMap /\ inMap' = FALSE /\ baseMail' = baseMail - 1
        /\ mail' = Append(mail, "destroy")
        /\ server = "up" /\ server' = "up"
        /\ UNCHANGED <<setup, state, interest, index, log, context, ready, revents>>
    BY <1>12 DEF RemoveConnection
  <2>2. ClosedPhase /\ Mapped /\ baseMail = 1
    BY <2>1 DEF Phases, Early, OpenPhase, ClosingPhase, DestroyingPhase,
                ClosedPhase, RemovedPhase, Mapped, Leaving, Gone
  <2>3. Leaving' /\ baseMail' = 0
    BY <1>1, <2>1, <2>2, DestroyAppend DEF Mapped, Leaving, Names
  <2>4. ClosedPhase'
    BY <2>1, <2>2, <2>3 DEF ClosedPhase, Unread
  <2>5. Open' = Open
    BY <2>1 DEF Open
  <2> QED BY <1>2, <1>3, <2>1, <2>4, <2>5 DEF Phases, EventsOfOpen, Good
<1>13. CASE ServerDestroyed
  <2>1. /\ inMap' = FALSE /\ server' = "dying" /\ server = "up"
        /\ mail' = IF inMap THEN Append(mail, "destroy") ELSE mail
        /\ UNCHANGED <<setup, state, interest, index, log, context, ready, revents,
                       baseMail>>
    BY <1>13 DEF ServerDestroyed
  <2>2. Open' = Open
    BY <2>1 DEF Open
  <2>3. CASE inMap
    <3>1. Mapped
      BY <2>3 DEF Phases, Early, OpenPhase, ClosingPhase, DestroyingPhase,
                  ClosedPhase, RemovedPhase, Leaving, Gone
    <3>2. Leaving'
      BY <1>1, <2>1, <2>3, <3>1, DestroyAppend DEF Mapped, Leaving, Names
    <3>3. OpenPhase => OpenPhase'
      BY <2>1, <3>2 DEF OpenPhase, Open
    <3>4. ClosingPhase => ClosingPhase'
      BY <2>1, <3>2 DEF ClosingPhase, Unread
    <3>5. ClosedPhase => ClosedPhase'
      BY <2>1, <3>2 DEF ClosedPhase, Unread
    <3>6. ~DestroyingPhase /\ ~RemovedPhase
      BY <2>3 DEF DestroyingPhase, RemovedPhase, Gone
    <3> QED BY <1>3, <2>1, <2>2, <3>3, <3>4, <3>5, <3>6
            DEF Phases, Early, EventsOfOpen, Good
  <2>4. CASE ~inMap
    <3>1. (Leaving => Leaving') /\ (Gone => Gone') /\ ~Mapped
      BY <2>1, <2>4 DEF Leaving, Gone, Mapped
    <3>2. ClosedPhase => ClosedPhase'
      BY <2>1, <3>1 DEF ClosedPhase, Unread
    <3>3. RemovedPhase => RemovedPhase'
      BY <2>1, <3>1 DEF RemovedPhase, Unread
    <3>4. ~OpenPhase /\ ~ClosingPhase /\ ~DestroyingPhase
      BY <2>1, <3>1 DEF OpenPhase, ClosingPhase, DestroyingPhase
    <3> QED BY <1>3, <2>1, <2>2, <3>2, <3>3, <3>4
            DEF Phases, Early, EventsOfOpen, Good
  <2> QED BY <2>3, <2>4
<1>14. CASE ConnectDestroyedOpen
  <2>1. /\ state = "kConnected" /\ state' = "kDisconnected" /\ Update({})
        /\ log' = Append(log, "down") /\ context' = "destroying"
        /\ mail' = Tail(mail)
        /\ UNCHANGED <<setup, inMap, baseMail, server, ready, revents>>
        /\ Functor("destroy")
    BY <1>14 DEF ConnectDestroyedOpen
  <2>2. OpenPhase
    BY <1>5, <2>1 DEF Open
  <2>3. Leaving /\ server # "up" /\ NoDestroy(mail')
    BY <1>1, <1>11, <2>1, <2>2, DestroyTail DEF OpenPhase, Mapped, Leaving
  <2>4. DestroyingPhase'
    BY <1>2, <2>1, <2>2, <2>3, Histories
       DEF OpenPhase, DestroyingPhase, Unread, Update, Leaving, Gone
  <2> QED BY <1>2, <1>3, <1>11, <2>1, <2>4 DEF Phases, EventsOfOpen, Good
<1>15. CASE ConnectDestroyed
  <2>1. /\ state # "kConnected" /\ interest = {}
        /\ index' = "new" /\ log' = Append(log, "removed")
        /\ mail' = Tail(mail)
        /\ UNCHANGED <<setup, state, interest, context, inMap, baseMail, server,
                       ready, revents>>
        /\ Functor("destroy")
    BY <1>15 DEF ConnectDestroyed
  <2>2. ~NoDestroy(mail) /\ (OneDestroy(mail) => NoDestroy(mail')) /\ context = "none"
        /\ ready = {} /\ revents = {}
    BY <1>1, <1>11, <2>1, DestroyTail
  <2>3. ClosedPhase /\ Leaving
    BY <1>3, <2>1, <2>2 DEF Phases, Early, OpenPhase, Open, ClosingPhase,
       DestroyingPhase, ClosedPhase, RemovedPhase, Mapped, Leaving, Gone
  <2>4. Gone' /\ Unread' /\ log' = <<"up", "down", "close", "removed">>
    BY <2>1, <2>2, <2>3, Histories DEF ClosedPhase, Unread, Leaving, Gone
  <2>5. context' = "none" /\ (server' = "up" => baseMail' = 0)
    BY <2>1, <2>2, <2>3 DEF ClosedPhase, Mapped, Leaving
  <2>6. RemovedPhase'
    BY <2>1, <2>4, <2>5 DEF RemovedPhase
  <2> QED BY <1>2, <1>3, <2>1, <2>2, <2>6 DEF Phases, EventsOfOpen, Good
<1>16. CASE ForceCloseInLoop
  <2>1. /\ KeepsDestroy(mail, mail') /\ context = "none" /\ ready' = {} /\ revents' = {}
        /\ UNCHANGED <<setup, inMap, baseMail, server>>
    BY <1>11, <1>16 DEF ForceCloseInLoop
  <2>2. CASE Open
    BY <1>8, <1>16, <2>1, <2>2 DEF ForceCloseInLoop
  <2>3. CASE ~Open
    BY <1>9, <1>16, <2>1, <2>3 DEF ForceCloseInLoop
  <2> QED BY <2>2, <2>3
<1>17. CASE DataCallback
  <2>1. /\ KeepsDestroy(mail, mail') /\ context = "none" /\ ready' = {} /\ revents' = {}
        /\ context' = "user"
        /\ UNCHANGED <<setup, state, index, interest, inMap, baseMail, server, log>>
    BY <1>11, <1>17 DEF DataCallback
  <2> QED BY <1>9, <2>1
<1>18. CASE SendFunctor
  <2>1. /\ SendInLoop(Tail(mail)) /\ ready = {} /\ revents = {}
        /\ Tail(mail) \in Seq(Names) /\ KeepsDestroy(mail, Tail(mail))
        /\ UNCHANGED <<setup, log, baseMail, inMap, state, server, context, ready, revents>>
    BY <1>11, <1>18 DEF SendFunctor
  <2> QED BY <1>10, <2>1
<1>19. CASE ShutdownFunctor
  <2>1. /\ KeepsDestroy(mail, mail') /\ context = "none" /\ ready' = {} /\ revents' = {}
        /\ UNCHANGED <<setup, state, index, interest, inMap, baseMail, server, log, context>>
    BY <1>11, <1>19 DEF ShutdownFunctor
  <2> QED BY <1>9, <2>1
<1>20. CASE DelayOver
  <2>1. /\ ready = {} /\ revents = {} /\ server' = server
        /\ UNCHANGED <<setup, interest, index, inMap, baseMail, log, context, ready, revents>>
    BY <1>3, <1>20 DEF DelayOver, LoopFree
  <2>2. mail' = mail \/ mail' = Append(mail, "forceClose")
    BY <1>20 DEF DelayOver, ForceClose
  <2>3. KeepsDestroy(mail, mail')
    BY <1>1, <1>4, <2>2, DestroyAppend DEF Names
  <2>4. state' = state \/ (Open /\ Open')
    BY <1>20 DEF DelayOver, ForceClose, Open
  <2>5. Phases'
    BY <2>1, <2>3, <2>4, PhaseKept
  <2> QED BY <1>2, <2>1, <2>5 DEF EventsOfOpen, Good
<1>21. CASE \E events : Poll(events)
  <2>1. PICK events : Poll(events)
    BY <1>21
  <2>2. /\ UNCHANGED <<setup, state, index, interest, inMap, baseMail, server, log,
                       context, revents, mail>>
        /\ context = "none" /\ revents = {} /\ ready' = events
        /\ events # {} => Open
    BY <1>6, <1>7, <2>1 DEF Poll, LoopFree
  <2> QED BY <1>4, <1>9, <2>2
<1>22. CASE Swap
  BY <1>3, <1>4, <1>9, <1>22 DEF Swap
<1>23. CASE HandleEvent
  BY <1>3, <1>4, <1>9, <1>23 DEF HandleEvent
<1>24. CASE EventHup
  <2>1. /\ "HUP" \in revents /\ revents' = revents \ {"HUP"} /\ ready' = ready
        /\ UNCHANGED <<setup, inMap, baseMail, server, mail>>
    BY <1>24 DEF EventHup
  <2>2. ready = {} /\ Open
    BY <1>3, <2>1
  <2>3. CASE "IN" \in revents
    BY <1>4, <1>9, <1>24, <2>1, <2>2, <2>3 DEF EventHup
  <2>4. CASE "IN" \notin revents
    BY <1>4, <1>8, <1>24, <2>1, <2>2, <2>4 DEF EventHup
  <2> QED BY <2>3, <2>4
<1>25. CASE EventError
  BY <1>3, <1>4, <1>9, <1>25 DEF EventError
<1>26. CASE EventRead
  <2>1. /\ "IN" \in revents /\ revents' \intersect {"HUP", "IN"} = {} /\ ready' = ready
        /\ UNCHANGED <<setup, inMap, baseMail, server, mail>>
        /\ context = "none"
    BY <1>26 DEF EventRead
  <2>2. ready = {}
    BY <1>3, <2>1
  <2>3. CASE HandleClose
    BY <1>4, <1>8, <2>1, <2>2, <2>3
  <2>4. CASE ~HandleClose
    <3>1. UNCHANGED <<state, interest, index, log>> /\ context' \in {"none", "user"}
      BY <1>26, <2>1, <2>4 DEF EventRead
    <3> QED BY <1>4, <1>9, <2>1, <2>2, <3>1
  <2> QED BY <2>3, <2>4
<1>27. CASE \E n : EventWrite(n)
  <2>1. PICK n : EventWrite(n)
    BY <1>27
  <2>2. /\ revents = {"OUT"} /\ revents' = {} /\ "OUT" \in interest /\ ready' = ready
        /\ UNCHANGED <<setup, state, inMap, baseMail, server, context, log>>
    BY <2>1 DEF EventWrite
  <2>3. ready = {}
    BY <1>3, <2>2
  <2>4. OpenPhase
    BY <2>2 DEF Phases, Early, ClosingPhase, DestroyingPhase, ClosedPhase,
                RemovedPhase, Unread
  <2>5. (mail' = mail \/ mail' = Append(mail, "writeComplete"))
        /\ (interest' = interest \/ interest' = interest \ {"OUT"})
        /\ (index' = index \/ index' = "added")
    BY <1>7, <2>1, <2>4 DEF EventWrite, Update
  <2>6. KeepsDestroy(mail, mail')
    BY <1>1, <1>4, <2>5, DestroyAppend DEF Names
  <2>7. Phases'
    BY <1>7, <2>2, <2>4, <2>5, <2>6, PhaseKept DEF Open
  <2> QED BY <1>2, <1>3, <2>2, <2>3, <2>7 DEF EventsOfOpen, Good
<1>28. CASE EventNoWrite
  BY <1>3, <1>4, <1>9, <1>28 DEF EventNoWrite
<1>29. CASE CallbackReturn
  <2>1. /\ context # "none" /\ context' = "none" /\ ready' = ready /\ revents' = revents
        /\ ready = {}
        /\ UNCHANGED <<setup, state, interest, server>>
    BY <1>3, <1>29 DEF CallbackReturn
  <2>2. Open' = Open
    BY <2>1 DEF Open
  <2>3. CASE context = "user"
    <3>1. UNCHANGED <<index, mail, log, inMap, baseMail>>
      BY <1>29, <2>3 DEF CallbackReturn
    <3> QED BY <1>3, <1>4, <1>9, <2>1, <2>3, <3>1
  <2>4. CASE context = "destroying"
    <3>1. index' = "new" /\ log' = Append(log, "removed")
          /\ UNCHANGED <<mail, inMap, baseMail>>
      BY <1>29, <2>4 DEF CallbackReturn
    <3>2. RemovedPhase'
      BY <1>2, <1>6, <2>1, <2>4, <3>1, Histories
         DEF DestroyingPhase, RemovedPhase, Unread, Gone
    <3> QED BY <1>2, <1>3, <2>1, <2>2, <3>2 DEF Phases, EventsOfOpen, Good
  <2>5. CASE context = "closing"
    <3>1. log' = Append(log, "close") /\ index' = index
      BY <1>29, <2>5 DEF CallbackReturn
    <3>2. CASE OneLoop
      <4>1. inMap' = FALSE /\ mail' = Append(mail, "destroy") /\ baseMail' = baseMail
        BY <1>29, <2>5, <3>2 DEF CallbackReturn
      <4>2. Mapped
        BY <1>3, <1>6, <2>5, <3>2 DEF ClosingPhase
      <4>3. Leaving'
        BY <1>1, <4>1, <4>2, DestroyAppend DEF Mapped, Leaving, Names
      <4>4. ClosingPhase /\ baseMail' = 0 /\ context' \in {"none", "user"}
        BY <1>6, <2>1, <2>5, <4>1 DEF ClosingPhase
      <4>5. log' = <<"up", "down", "close">> /\ index' = "deleted" /\ Unread'
        BY <2>1, <3>1, <4>4, Histories DEF ClosingPhase, Unread
      <4>6. ClosedPhase'
        BY <4>3, <4>4, <4>5 DEF ClosedPhase
      <4> QED BY <1>2, <1>3, <2>1, <2>2, <4>6 DEF Phases, EventsOfOpen, Good
    <3>3. CASE ~OneLoop
      <4>1. baseMail' = baseMail + 1 /\ UNCHANGED <<inMap, mail>>
        BY <1>29, <2>5, <3>3 DEF CallbackReturn
      <4>2. baseMail' = 1 /\ (Mapped' \/ (Leaving' /\ server' # "up"))
        BY <1>6, <2>1, <2>5, <4>1 DEF ClosingPhase, Mapped, Leaving
      <4>3. Unread' /\ log' = <<"up", "down", "close">> /\ index' = "deleted"
        BY <1>6, <2>1, <2>5, <3>1, Histories DEF ClosingPhase, Unread
      <4>4. ~OneLoop'
        BY <1>2, <2>1, <3>3
      <4>5. ClosedPhase'
        BY <2>1, <4>2, <4>3, <4>4 DEF ClosedPhase
      <4> QED BY <1>2, <1>3, <2>1, <2>2, <4>5 DEF Phases, EventsOfOpen, Good
    <3> QED BY <3>2, <3>3
  <2> QED BY <2>1, <2>3, <2>4, <2>5 DEF TypeOK
<1>30. CASE \E call \in LoopCalls : LoopCall(call)
  <2>1. PICK call \in LoopCalls : LoopCall(call)
    BY <1>30
  <2>2. UNCHANGED <<setup, ready, revents, context, baseMail, inMap, server, log>>
    BY <2>1 DEF LoopCall
  <2>3. call \notin {"startRead", "stopRead"}
    BY <2>1 DEF Confined
  <2>4. CASE LoopSend
    BY <1>1, <1>4, <1>10, <2>2, <2>4 DEF LoopSend
  <2>5. CASE call # "send" /\ (LoopShutdown \/ LoopForceClose \/ LoopForceCloseWithDelay)
    <3>1. Open /\ Open' /\ UNCHANGED <<interest, index>>
      BY <2>5 DEF LoopShutdown, LoopForceClose, LoopForceCloseWithDelay, ForceClose, Open
    <3>2. mail' = mail \/ mail' = Append(mail, "forceClose")
      BY <2>5 DEF LoopShutdown, LoopForceClose, LoopForceCloseWithDelay, ForceClose
    <3>3. KeepsDestroy(mail, mail')
      BY <1>1, <1>4, <3>2, DestroyAppend DEF Names
    <3>4. Phases'
      BY <1>5, <1>7, <2>2, <3>1, <3>3, PhaseKept DEF Open
    <3> QED BY <1>2, <1>3, <2>2, <3>1, <3>4 DEF EventsOfOpen, Good
  <2> QED BY <2>1, <2>3, <2>4, <2>5 DEF LoopCall
<1>31. CASE \E t : Share(t) \/ Release(t)
  BY <1>3, <1>4, <1>9, <1>31 DEF Share, Release
<1>32. CASE \E t, call : ForeignTest(t, call)
  BY <1>3, <1>4, <1>9, <1>32 DEF ForeignTest
<1>33. CASE \E t \in Threads \ {LoopThread} : ForeignCall(t)
  <2>1. PICK t \in Threads \ {LoopThread} : ForeignCall(t)
    BY <1>33
  <2>2. foreign[t] = "send"
    BY <1>1, <2>1 DEF ForeignCall, Confined
  <2>3. /\ mail' = Append(mail, "send")
        /\ UNCHANGED <<setup, state, interest, index, ready, revents, context,
                       baseMail, inMap, server, log>>
    BY <2>1, <2>2 DEF ForeignCall
  <2>4. KeepsDestroy(mail, mail')
    BY <1>1, <2>3, DestroyAppend DEF Names
  <2> QED BY <1>3, <1>9, <2>3, <2>4
<1>34. CASE UNCHANGED vars
  BY <1>3, <1>4, <1>9, <1>34 DEF vars
<1>35. CASE QuitLoop
  <2>1. /\ server = "dying" /\ server' = "quitting"
        /\ UNCHANGED <<setup, state, interest, index, log, context, ready, revents,
                       baseMail, inMap, mail>>
    BY <1>35 DEF QuitLoop
  <2>2. (Mapped => Mapped') /\ (Leaving => Leaving') /\ (Gone => Gone') /\ Open' = Open
    BY <2>1 DEF Mapped, Leaving, Gone, Open
  <2>3. (OpenPhase => OpenPhase') /\ (ClosingPhase => ClosingPhase')
        /\ (DestroyingPhase => DestroyingPhase')
    BY <1>2, <2>1, <2>2 DEF OpenPhase, ClosingPhase, DestroyingPhase, Unread
  <2>4. (ClosedPhase => ClosedPhase') /\ (RemovedPhase => RemovedPhase')
    BY <1>2, <2>1, <2>2 DEF ClosedPhase, RemovedPhase, Unread
  <2> QED BY <1>3, <2>1, <2>2, <2>3, <2>4 DEF Phases, Early, EventsOfOpen, Good
<1> QED
  BY LateSteps, <1>12, <1>13, <1>14, <1>15, <1>16, <1>17, <1>18, <1>19, <1>20, <1>21,
     <1>22, <1>23, <1>24, <1>25, <1>26, <1>27, <1>28, <1>29, <1>30, <1>31, <1>32,
     <1>33, <1>34, <1>35 DEF Step

(* Only LoopEnds ends the loop. *)
LEMMA StaysAlive == ASSUME Step, ~LoopEnds, server # "dead" PROVE server' # "dead"
<1> USE DEF channelVars, sockVars, eventVars, serverVars, userVars
<1>1. CASE \/ NewConnection \/ NewConnectionHere \/ RemoveConnection \/ ServerDestroyed
           \/ QuitLoop
  BY <1>1 DEF NewConnection, NewConnectionHere, RemoveConnection, ServerDestroyed, QuitLoop
<1>2. CASE \/ ConnectEstablished \/ ConnectDestroyedOpen \/ ConnectDestroyed
           \/ ForceCloseInLoop \/ DataCallback \/ SendFunctor \/ ShutdownFunctor
           \/ DelayOver \/ (\E events : Poll(events)) \/ Swap
  BY <1>2 DEF ConnectEstablished, ConnectDestroyedOpen, ConnectDestroyed,
     ForceCloseInLoop, DataCallback, SendFunctor, ShutdownFunctor, DelayOver, Poll, Swap
<1>3. CASE \/ HandleEvent \/ EventHup \/ EventError \/ EventRead
           \/ (\E n : EventWrite(n)) \/ EventNoWrite \/ CallbackReturn
  BY <1>3 DEF HandleEvent, EventHup, EventError, EventRead, EventWrite, EventNoWrite,
     CallbackReturn
<1>4. CASE \/ (\E call : LoopCall(call)) \/ (\E t : Share(t) \/ Release(t) \/ ForeignCall(t))
           \/ (\E t, call : ForeignTest(t, call)) \/ UNCHANGED vars
  BY <1>4 DEF LoopCall, Share, Release, ForeignCall, ForeignTest, vars
<1> QED BY <1>1, <1>2, <1>3, <1>4 DEF Step

(* Every step keeps the phases, the establishing ones included. *)
LEMMA ConfinedStep ==
    ASSUME ConnectionInv, Step, Pristine'
    PROVE  ConfinedInv'
<1> USE DEF channelVars, sockVars, eventVars, serverVars, userVars
<1>0. TypeOK /\ Pristine /\ History /\ OutputInv /\ ServerInv /\ ConfinedInv
  BY DEF ConnectionInv
<1>4. Confined' = Confined /\ setup' = setup /\ ServerInv'
  BY <1>0, ServerStep DEF Confined, LoopCalls, ForeignCalls
<1>5. CASE server = "dead"
  <2>1. /\ UNCHANGED <<state, interest, index, log, ready, revents, context, server>>
    BY <1>0, <1>5, DeadSteps DEF Release, ForeignTest, vars
  <2> QED BY <1>0, <1>4, <1>5, <2>1 DEF ConfinedInv, Ended, EventsOfOpen, Open, Unread
<1>6. CASE LoopEnds
  <2>1. /\ server' = "dead" /\ server # "dead"
        /\ UNCHANGED <<state, interest, index, log, ready, revents, context>>
        /\ context = "none"
    BY <1>0, <1>6, ServerLets DEF LoopEnds, LoopFree
  <2>2. Confined => Ended
    BY <1>0, <2>1 DEF ConfinedInv, Ended, Phases, Pristine, OpenPhase, ClosingPhase,
       DestroyingPhase, ClosedPhase, RemovedPhase
  <2>3. (Ended => Ended') /\ (EventsOfOpen => EventsOfOpen')
    BY <2>1 DEF Ended, EventsOfOpen, Open, Unread
  <2> QED BY <1>0, <1>4, <2>1, <2>2, <2>3 DEF ConfinedInv
<1>1. CASE ~Early /\ server # "dead" /\ ~LoopEnds
  <2>1. ASSUME Confined PROVE Phases' /\ EventsOfOpen'
    BY <1>0, <1>1, <2>1, LateConfined DEF ConfinedInv
  <2>2. server' # "dead"
    BY <1>1, StaysAlive
  <2> QED BY <1>4, <2>1, <2>2 DEF ConfinedInv
<1>2. CASE Early /\ ~NewConnectionHere /\ ~ConnectEstablished /\ server # "dead" /\ ~LoopEnds
  <2>1. Early'
    BY <1>0, <1>2, EarlySteps
       DEF NewConnection, ServerDestroyed, QuitLoop, Poll, Swap, vars, Early
  <2>2. Phases' /\ EventsOfOpen'
    BY <2>1 DEF Pristine, Early, Phases, EventsOfOpen
  <2>3. server' # "dead"
    BY <1>2, StaysAlive
  <2> QED BY <2>2, <2>3 DEF ConfinedInv
<1>3. CASE /\ Early /\ (NewConnectionHere \/ ConnectEstablished)
           /\ server # "dead" /\ ~LoopEnds
  <2>1. /\ log = <<>> /\ interest = {} /\ baseMail = 0 /\ ready = {} /\ revents = {}
        /\ context = "none" /\ ~delayed
        /\ state = "none" => mail = <<>> /\ ~inMap
        /\ state = "kConnecting" =>
              \/ mail = <<"established">> /\ inMap
              \/ mail = <<"established", "destroy">> /\ ~inMap /\ server # "up"
        /\ OneLoop => state = "none"
    BY <1>0, <1>3 DEF Pristine, Early
  <2>2. Established /\ UNCHANGED <<setup, baseMail, server, ready, revents>>
    BY <1>3 DEF NewConnectionHere, ConnectEstablished
  <2>3. /\ state' = "kConnected" /\ log' = <<"up">> /\ interest' = {"IN"}
        /\ index' = "added" /\ context' = "user"
    BY <2>1, <2>2, Histories DEF Established, Update
  <2>4. OneLoop' = OneLoop
    BY <2>2 DEF OneLoop
  <2>5. (Mapped \/ (Leaving /\ server # "up"))'
    <3>1. CASE NewConnectionHere
      <4>1. inMap' = TRUE /\ mail' = <<>>
        BY <2>1, <3>1 DEF NewConnectionHere
      <4> QED BY <4>1 DEF Mapped, NoDestroy
    <3>2. CASE ConnectEstablished
      <4>1. state = "kConnecting" /\ mail' = Tail(mail) /\ inMap' = inMap
        BY <3>2 DEF ConnectEstablished
      <4>2. CASE mail = <<"established">> /\ inMap
        <5>1. mail' = <<>>
          BY <4>1, <4>2
        <5> QED BY <4>1, <4>2, <5>1 DEF Mapped, NoDestroy
      <4>3. CASE mail = <<"established", "destroy">> /\ ~inMap /\ server # "up"
        <5>1. DOMAIN mail' = {1} /\ mail'[1] = "destroy"
          BY <4>1, <4>3
        <5> QED BY <2>1, <2>2, <4>1, <4>3, <5>1 DEF Leaving, OneDestroy
      <4> QED BY <2>1, <4>1, <4>2, <4>3
    <3> QED BY <1>3, <3>1, <3>2
  <2>6. OpenPhase'
    BY <2>1, <2>2, <2>3, <2>5 DEF OpenPhase, Open
  <2>7. EventsOfOpen'
    BY <2>1, <2>2, <2>3 DEF EventsOfOpen
  <2> QED BY <1>3, <2>2, <2>6, <2>7 DEF ConfinedInv, Phases
<1> QED BY <1>1, <1>2, <1>3, <1>5, <1>6

-----------------------------------------------------------------------------
(* The inductive invariant, for every program. *)
THEOREM Invariance == Spec => []ConnectionInv
<1>1. Init => ConnectionInv
  <2> SUFFICES ASSUME Init PROVE ConnectionInv
    OBVIOUS
  <2>1. TypeOK
    <3>1. [t \in Threads \ {LoopThread} |-> "none"]
              \in [Threads \ {LoopThread} -> ForeignCalls \union {"none"}]
      OBVIOUS
    <3>2. <<>> \in Seq(Shared \union Raw)
          /\ <<>> \in Seq({"up", "down", "close", "removed"}) /\ 0 \in 0..Len(<<>>)
      OBVIOUS
    <3>3. setup.garbage \in BOOLEAN
      BY SetupAssumption DEF Init
    <3> QED BY <3>1, <3>2, <3>3 DEF Init, TypeOK
  <2>2. Pristine
    BY DEF Init, Pristine
  <2>3. History /\ OutputInv
    <3>1. <<>> # <<"up">>
      OBVIOUS
    <3> QED BY <3>1 DEF Init, History, OutputInv, WritesWhileOutput, FinAfterOutput
  <2>4. Phases /\ EventsOfOpen /\ ServerInv /\ server # "dead"
    BY DEF Init, Phases, EventsOfOpen, ServerInv
  <2> QED BY <2>1, <2>2, <2>3, <2>4 DEF ConnectionInv, ConfinedInv
<1>2. ConnectionInv /\ [Next]_vars => ConnectionInv'
  <2> SUFFICES ASSUME ConnectionInv, [Next]_vars PROVE ConnectionInv'
    OBVIOUS
  <2>1. TypeOK /\ Pristine /\ History /\ OutputInv /\ ServerInv
    BY DEF ConnectionInv
  <2>2. Step
    BY <2>1, Steps
  <2>3. TypeOK' /\ Pristine' /\ OutputInv' /\ History' /\ ServerInv'
    BY <2>1, <2>2, TypeStep, PristineStep, OutputStep, ServerStep
  <2>4. ConfinedInv'
    BY <2>2, <2>3, ConfinedStep
  <2> QED BY <2>3, <2>4 DEF ConnectionInv
<1> QED BY <1>1, <1>2, PTL DEF Spec

(* Output is not forgotten: while the connection is open it asks for        *)
(* writability exactly as long as there is output, and the FIN comes after  *)
(* the last of it (TcpConnection.cc:161-205, 222-225, 374-385).             *)
THEOREM OutputIsNotForgotten == Spec => []OutputInv
<1>1. ConnectionInv => OutputInv
  BY DEF ConnectionInv
<1> QED BY <1>1, Invariance, PTL

(* A whole life, and its prefixes. *)
Life == <<"up", "down", "close", "removed">>

(* What CallbacksInOrder compares with. *)
LEMMA PartsOfLife ==
    /\ IsPrefix(<<>>, Life) /\ IsPrefix(<<"up">>, Life)
    /\ IsPrefix(<<"up", "down">>, Life)
    /\ IsPrefix(<<"up", "down", "close">>, Life)
    /\ IsPrefix(Life, Life)
<1> DEFINE t == <<"up", "down", "close", "removed">>
           E == {"up", "down", "close", "removed"}
<1>1. t \in Seq(E) /\ Len(t) = 4 /\ t[1] = "up" /\ t[2] = "down" /\ t[3] = "close"
      /\ t[4] = "removed"
  OBVIOUS
<1>2. ASSUME NEW s \in Seq(E), Len(s) <= 4, \A i \in 1..Len(s) : s[i] = t[i]
      PROVE  IsPrefix(s, t)
  <2>1. Len(s) \in Nat
    OBVIOUS
  <2>2. SubSeq(t, 1, Len(s)) \in Seq(E) /\ SubSeq(s, 1, Len(s)) \in Seq(E)
        /\ Len(SubSeq(t, 1, Len(s))) = Len(s) /\ Len(SubSeq(s, 1, Len(s))) = Len(s)
        /\ \A i \in 1..Len(s) : SubSeq(t, 1, Len(s))[i] = t[i]
                                /\ SubSeq(s, 1, Len(s))[i] = s[i]
    BY <1>1, <1>2, <2>1 
  <2>3. SubSeq(t, 1, Len(s)) = SubSeq(s, 1, Len(s))
    BY <1>2, <2>2, SeqEqual
  <2> QED BY <1>1, <1>2, <2>3 DEF IsPrefix
<1>3. /\ <<>> \in Seq(E) /\ Len(<<>>) = 0
      /\ <<"up">> \in Seq(E) /\ Len(<<"up">>) = 1 /\ <<"up">>[1] = "up"
  OBVIOUS
<1>4. /\ <<"up", "down">> \in Seq(E) /\ Len(<<"up", "down">>) = 2
      /\ <<"up", "down">>[1] = "up" /\ <<"up", "down">>[2] = "down"
  OBVIOUS
<1>5. /\ <<"up", "down", "close">> \in Seq(E) /\ Len(<<"up", "down", "close">>) = 3
      /\ <<"up", "down", "close">>[1] = "up" /\ <<"up", "down", "close">>[2] = "down"
      /\ <<"up", "down", "close">>[3] = "close"
  OBVIOUS
<1> HIDE DEF t, E
<1>6. IsPrefix(<<>>, t)
  <2>1. \A i \in 1..0 : <<>>[i] = t[i]
    BY <1>1, <1>3
  <2>2. Len(<<>>) <= 4 /\ \A i \in 1..Len(<<>>) : <<>>[i] = t[i]
    BY <1>1, <1>3, <2>1
  <2> QED BY <1>1, <1>2, <1>3, <2>2
<1>7. IsPrefix(<<"up">>, t)
  <2>1. \A i \in 1..1 : <<"up">>[i] = t[i]
    BY <1>1, <1>3
  <2>2. Len(<<"up">>) <= 4 /\ \A i \in 1..Len(<<"up">>) : <<"up">>[i] = t[i]
    BY <1>1, <1>3, <2>1
  <2> QED BY <1>1, <1>2, <1>3, <2>2
<1>8. IsPrefix(<<"up", "down">>, t)
  <2>1. \A i \in 1..2 : <<"up", "down">>[i] = t[i]
    BY <1>1, <1>4
  <2>2. Len(<<"up", "down">>) <= 4 /\ \A i \in 1..Len(<<"up", "down">>) : <<"up", "down">>[i] = t[i]
    BY <1>1, <1>4, <2>1
  <2> QED BY <1>1, <1>2, <1>4, <2>2
<1>9. IsPrefix(<<"up", "down", "close">>, t)
  <2>1. \A i \in 1..3 : <<"up", "down", "close">>[i] = t[i]
    BY <1>1, <1>5
  <2>2. Len(<<"up", "down", "close">>) <= 4 /\ \A i \in 1..Len(<<"up", "down", "close">>) : <<"up", "down", "close">>[i] = t[i]
    BY <1>1, <1>5, <2>1
  <2> QED BY <1>1, <1>2, <1>5, <2>2
<1>10. IsPrefix(t, t)
  <2>1. \A i \in 1..4 : t[i] = t[i]
    BY <1>1, <1>1
  <2>2. Len(t) <= 4 /\ \A i \in 1..Len(t) : t[i] = t[i]
    BY <1>1, <1>1, <2>1
  <2> QED BY <1>1, <1>2, <1>1, <2>2
<1>11. t = Life
  BY DEF t, Life
<1> QED BY <1>6, <1>7, <1>8, <1>9, <1>10, <1>11

(* The user is told of the connection once, of its end once, and then the   *)
(* server once, and the channel is removed after all of them                *)
(* (TcpServer.cc:78-125, TcpConnection.cc:312-338, 401-413).                *)
THEOREM CallbacksComeInOrder == Spec => []CallbacksInOrder
<1>1. ConnectionInv => CallbacksInOrder
  <2> SUFFICES ASSUME ConnectionInv, Confined
               PROVE  /\ \/ IsPrefix(log, Life)
                         \/ server # "up" /\ log = <<"up", "down", "removed">>
                      /\ log = <<"up">> <=> Open
                      /\ inMap => Len(log) < 4
    BY DEF CallbacksInOrder, Life
  <2>0. Pristine /\ ServerInv /\ (IF server = "dead" THEN Ended ELSE Phases)
    BY DEF ConnectionInv, ConfinedInv
  <2>1. /\ Len(<<>>) = 0 /\ Len(<<"up">>) = 1 /\ Len(<<"up", "down">>) = 2
        /\ Len(<<"up", "down", "close">>) = 3
        /\ <<"up", "down">> # <<"up">> /\ <<"up", "down", "close">> # <<"up">>
        /\ <<"up", "down", "removed">> # <<"up">> /\ <<>> # <<"up">>
        /\ <<"up", "down", "close", "removed">> # <<"up">>
    OBVIOUS
  <2>2. CASE state \in {"none", "kConnecting"}
    <3>1. log = <<>> /\ ~Open
      BY <2>0, <2>2 DEF Pristine, Open
    <3> QED BY <2>1, <3>1, PartsOfLife
  <2>3. CASE OpenPhase
    <3>1. log = <<"up">> /\ Open
      BY <2>3 DEF OpenPhase
    <3> QED BY <2>1, <3>1, PartsOfLife
  <2>4. CASE ClosingPhase
    <3>1. log = <<"up", "down">> /\ ~Open
      BY <2>4 DEF ClosingPhase, Unread, Open
    <3> QED BY <2>1, <3>1, PartsOfLife
  <2>5. CASE DestroyingPhase
    <3>1. log = <<"up", "down">> /\ ~Open
      BY <2>5 DEF DestroyingPhase, Unread, Open
    <3> QED BY <2>1, <3>1, PartsOfLife
  <2>6. CASE ClosedPhase
    <3>1. log = <<"up", "down", "close">> /\ ~Open
      BY <2>6 DEF ClosedPhase, Unread, Open
    <3> QED BY <2>1, <3>1, PartsOfLife
  <2>7. CASE RemovedPhase
    <3>1. ~inMap /\ ~Open
      BY <2>7 DEF RemovedPhase, Unread, Open, Gone
    <3>2. CASE log = <<"up", "down", "close", "removed">>
      <4>1. log = Life
        BY <3>2 DEF Life
      <4> QED BY <2>1, <3>1, <3>2, <4>1, PartsOfLife
    <3>3. CASE log = <<"up", "down", "removed">> /\ server # "up"
      BY <2>1, <3>1, <3>3
    <3> QED BY <2>7, <3>2, <3>3 DEF RemovedPhase
  <2>8. CASE server = "dead"
    <3>1. ~inMap /\ Ended
      BY <2>0, <2>8 DEF ServerInv
    <3>2. Open <=> log = <<"up">>
      BY <2>1, <3>1 DEF Ended, Open, Unread
    <3>3. CASE log = <<"up", "down", "close", "removed">>
      <4>1. log = Life
        BY <3>3 DEF Life
      <4> QED BY <3>1, <3>2, <4>1, PartsOfLife
    <3> QED BY <2>8, <3>1, <3>2, <3>3, PartsOfLife DEF Ended
  <2> QED BY <2>0, <2>2, <2>3, <2>4, <2>5, <2>6, <2>7, <2>8 DEF Phases
<1> QED BY <1>1, Invariance, PTL

(* No assertion on the way from the connection's end to its destructor      *)
(* fails but for a server that is destroyed: it is closed once, a server    *)
(* finds it in its map, its channel has no events when it is removed, and   *)
(* it is removed before the last reference goes, unless its loop has ended  *)
(* before (TcpServer.cc:121, TcpConnection.cc:78, 405, Channel.cc:39-62,    *)
(* EpollPoller.cc:172).                                                     *)
THEOREM AssertionsNeverFail == Spec => []AssertionsHold
<1>1. ConnectionInv => AssertionsHold
  <2> SUFFICES ASSUME ConnectionInv PROVE AssertionsHold
    OBVIOUS
  <2>0. TypeOK /\ Pristine /\ ServerInv
        /\ (Confined => EventsOfOpen /\ (IF server = "dead" THEN Ended ELSE Phases))
    BY DEF ConnectionInv, ConfinedInv
  <2>1. CloseOnlyOnce
    BY <2>0 DEF CloseOnlyOnce, EventsOfOpen
  <2>2. mail \in Seq(Names)
    BY <2>0 DEF TypeOK, Names, Shared, Raw
  <2>3. ASSUME Confined, AtFront("destroy"), state # "kConnected"
        PROVE  interest = {} \/ (server # "up" /\ state = "kDisconnecting")
    <3>1. mail # <<>> /\ Head(mail) = "destroy" /\ context = "none"
      <4>1. due \in 0..Len(mail) /\ due > 0
        BY <2>0, <2>3 DEF AtFront, TypeOK
      <4> QED BY <2>2, <2>3, <4>1 DEF AtFront, LoopFree
    <3>2. ~NoDestroy(mail)
      BY <2>2, <3>1, DestroyTail
    <3>3. server # "dead"
      BY <2>0, <3>1 DEF ServerInv
    <3> QED BY <2>0, <2>3, <3>1, <3>2, <3>3
            DEF Phases, Pristine, OpenPhase, Open, ClosingPhase, DestroyingPhase,
                ClosedPhase, RemovedPhase, Unread, Mapped, Leaving, Gone
  <2>4. ASSUME Confined, state # "none", ~Alive,
               server = "dead" => Contains(log, "removed")
        PROVE  state = "kDisconnected" /\ index = "new"
    <3>1. ~inMap /\ context = "none" /\ ~OneDestroy(mail)
      BY <2>4 DEF Alive, OneDestroy, Shared
    <3>2. CASE server = "dead"
      <4>1. ~Contains(<<>>, "removed") /\ ~Contains(<<"up">>, "removed")
            /\ ~Contains(<<"up", "down", "close">>, "removed")
        <5>1. /\ 1..Len(<<>>) = {} /\ 1..Len(<<"up">>) = {1}
              /\ 1..Len(<<"up", "down", "close">>) = {1, 2, 3}
          OBVIOUS
        <5> QED BY <5>1 DEF Contains
      <4> QED BY <2>0, <2>4, <3>2, <4>1 DEF Ended, Unread
    <3>3. CASE server # "dead"
      <4>1. state # "kConnecting"
        <5>1. ASSUME mail = <<"established", "destroy">> PROVE FALSE
          <6>1. 1 \in DOMAIN mail /\ mail[1] = "established"
            BY <5>1
          <6> QED BY <2>4, <6>1 DEF Alive, Shared
        <5> QED BY <2>0, <3>1, <3>3, <5>1 DEF Pristine
      <4> QED BY <2>0, <2>4, <3>1, <3>3, <4>1
              DEF Phases, OpenPhase, ClosingPhase, DestroyingPhase, ClosedPhase,
                  RemovedPhase, Unread, Mapped, Leaving
    <3> QED BY <3>2, <3>3
  <2>5. ASSUME Confined, baseMail > 0, server = "up" PROVE inMap
    <3>1. Phases /\ baseMail # 0 /\ server # "dead"
      BY <2>0, <2>5 DEF TypeOK
    <3> QED BY <2>0, <2>5, <3>1
            DEF Phases, Pristine, OpenPhase, ClosingPhase, DestroyingPhase, ClosedPhase,
                RemovedPhase, Mapped
  <2> QED BY <2>0, <2>1, <2>3, <2>4, <2>5
          DEF AssertionsHold, DestroyFindsNoEvents, DestroyedClean, RemovalFindsConnection
<1> QED BY <1>1, Invariance, PTL

===============================================================================
