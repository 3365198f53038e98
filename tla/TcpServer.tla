------------------------------ MODULE TcpServer ------------------------------
(***************************************************************************)
(* src/src/net/TcpServer.cc with Acceptor, EventLoopThreadPool, the        *)
(* EpollPoller of each loop and, of TcpConnection, what decides how long a *)
(* connection lives.  Several connections, one per client accepted, are    *)
(* spread over the IO loops; the descriptors they close are used again.    *)
(*                                                                         *)
(* Each loop polls, handles the events of its active channels one by one   *)
(* and runs the functors queued by then, as EventLoop says.  A connection  *)
(* object lives while the server's map or a functor holds it, functors     *)
(* that have run included, until doPendingFunctors drops its vector; its   *)
(* destructor closes the descriptor.  A failed assertion ends the process: *)
(* in the destructor of the server the step that would fail it is not      *)
(* enabled (Fails), elsewhere AssertionsHold says that none fails.         *)
(***************************************************************************)
EXTENDS Naturals, Sequences, FiniteSetsExt, SequencesExt

CONSTANTS
    Base,       \* the acceptor's loop
    IoLoops,    \* the sequence of the loops of the thread pool
    MaxFds,     \* bound on the limit of open descriptors
    MaxClients, \* bound on the clients that connect
    Setups      \* the programs looked at

Conns == 1..MaxClients      \* nextConnId_ counts them
Listener == 0
Loops == {Base} \union Range(IoLoops)

Poller == INSTANCE EpollPoller WITH Channels <- Conns \union {Listener}

ASSUME LoopsAssumption ==
    IoLoops \in Seq(Range(IoLoops)) /\ Base \notin Range(IoLoops) /\ IsInjective(IoLoops)
ASSUME BoundsAssumption == MaxFds \in Nat \ {0} /\ MaxClients \in Nat
(* threads: setThreadNum; calls: what the message callback may call;        *)
(* destroys: ~TcpServer may run, if there are no IO threads; fds: the limit *)
(* of open descriptors; clients: how many connect.                          *)
ASSUME SetupsAssumption ==
    Setups \subseteq [threads : 0..Len(IoLoops),
                      calls : SUBSET {"shutdown", "forceClose"},
                      destroys : BOOLEAN, fds : 3..MaxFds, clients : 1..MaxClients]

VARIABLES
    setup,
    phase,          \* "new", "started", "destroying", "destroyed"
    next,           \* next_ of the pool
    accepted,       \* nextConnId_ - 1
    connections,    \* connections_
    idleFd,         \* idleFd_
    conn,           \* state_, loop_ and descriptor of each connection
    pc, active,     \* per loop: what it does, and the active channels left
    polled,         \* all of the base loop's activeChannels_
    handling,       \* the connection in whose callback the server is destroyed
    poller,
    pending,        \* per loop: pendingFunctos_
    running, ran,   \* per loop: the vector being run, and how many have run
    arrived, waiting,   \* clients so far, and those in the listen queue
    peer            \* per connection: unread data, and has closed its side

serverVars == <<setup, phase, next, accepted, connections, idleFd>>
eventVars == <<polled, handling>>
loopVars == <<pc, active, eventVars, poller, pending, running, ran>>
clientVars == <<arrived, waiting, peer>>
vars == <<serverVars, conn, loopVars, clientVars>>

Functor(f, c) == [call |-> f, conn |-> c]
Exists(c) == conn[c].state # "none"
Open(c) == conn[c].state \in {"kConnected", "kDisconnecting"}

(* A shared_ptr to the connection is somewhere. *)
Alive(c) ==
    \/ c \in connections \/ c \in handling
    \/ \E l \in Loops : \E i \in DOMAIN pending[l] : pending[l][i].conn = c
    \/ \E l \in Loops : \E i \in DOMAIN running[l] : running[l][i].conn = c

OpenFds == {idleFd} \union {conn[c].fd : c \in {d \in Conns : Exists(d) /\ Alive(d)}}
FreeFds == 2..setup.fds \ OpenFds

TypeOK ==
    /\ setup \in Setups
    /\ phase \in {"new", "started", "destroying", "destroyed"}
    /\ next \in 0..Len(IoLoops)
    /\ accepted \in 0..MaxClients
    /\ connections \subseteq 1..accepted
    /\ conn \in [Conns -> [state : {"none", "kConnecting", "kConnected",
                                    "kDisconnecting", "kDisconnected"},
                           loop : Loops, fd : 0..MaxFds]]
    /\ pc \in [Loops -> {"poll", "events", "functors"}]
    /\ active \in [Loops -> Seq(Conns \union {Listener})]
    /\ polled \subseteq Conns \union {Listener}
    /\ handling \subseteq Conns
    /\ ran \in [Loops -> Nat]
    /\ peer \in [Conns -> [data : BOOLEAN, closed : BOOLEAN]]

ListenFd == 1
FdOf(c) == IF c = Listener THEN ListenFd ELSE conn[c].fd

(* The acceptor's socket is descriptor 1, idleFd_ is 2. *)
Init ==
    /\ setup \in Setups
    /\ phase = "new"
    /\ next = 0
    /\ accepted = 0
    /\ connections = {}
    /\ idleFd = 2
    /\ conn = [c \in Conns |-> [state |-> "none", loop |-> Base, fd |-> 0]]
    /\ pc = [l \in Loops |-> "poll"]
    /\ active = [l \in Loops |-> <<>>]
    /\ polled = {}
    /\ handling = {}
    /\ poller = [l \in Loops |-> Poller!NewPoller]
    /\ pending = [l \in Loops |-> <<>>]
    /\ running = [l \in Loops |-> <<>>]
    /\ ran = [l \in Loops |-> 0]
    /\ arrived = 0
    /\ waiting = 0
    /\ peer = [c \in Conns |-> [data |-> FALSE, closed |-> FALSE]]

-----------------------------------------------------------------------------
(* Parts of the handlers.                                                   *)

Queue(l, f, c) == pending' = [pending EXCEPT ![l] = Append(@, Functor(f, c))]

(* getNextLoop: round robin, or the base loop.                              *)
NextLoop == IF setup.threads = 0 THEN Base ELSE IoLoops[next + 1]
AdvanceNext ==
    next' = IF setup.threads = 0 \/ next + 1 >= setup.threads THEN 0 ELSE next + 1

(* Mutant: the connection leaves the map but not its poller. *)
ForgetConnection(c) ==
    /\ connections' = connections \ {c}
    /\ UNCHANGED pending

RemoveConnectionInLoop(c) ==
    /\ connections' = connections \ {c}
    /\ Queue(conn[c].loop, "connectDestroyed", c)

(* Mutant: closeCallback_ is not called. *)
CloseSilently(l, c) ==
    /\ conn' = [conn EXCEPT ![c].state = "kDisconnected"]
    /\ poller' = [poller EXCEPT ![l] = Poller!UpdateChannel(@, c, conn[c].fd, {})]
    /\ UNCHANGED <<connections, pending>>

(* TcpConnection::handleClose, with closeCallback_, TcpServer's             *)
(* removeConnection, which runs at once in the base loop.                   *)
HandleClose(l, c) ==
    /\ conn' = [conn EXCEPT ![c].state = "kDisconnected"]
    /\ poller' = [poller EXCEPT ![l] = Poller!UpdateChannel(@, c, conn[c].fd, {})]
    /\ IF l = Base THEN RemoveConnectionInLoop(c)
                   ELSE Queue(Base, "removeConnectionInLoop", c) /\ UNCHANGED connections

(* TcpConnection::connectEstablished, for a connection in kConnecting.      *)
Established(cn, l, c, fd) ==
    /\ conn' = [conn EXCEPT ![c] = [cn EXCEPT !.state = "kConnected"]]
    /\ poller' = [poller EXCEPT ![l] = Poller!UpdateChannel(@, c, fd, {"IN"})]

(* Mutant: the channel is disabled, not removed: its entry stays. *)
DestroyedKeepsChannel(l, c) ==
    /\ poller' = [poller EXCEPT ![l] = IF conn[c].state = "kConnected"
                     THEN Poller!UpdateChannel(@, c, conn[c].fd, {}) ELSE @]
    /\ conn' = [conn EXCEPT ![c].state = "kDisconnected"]

(* TcpConnection::connectDestroyed.                                         *)
Destroyed(l, c) ==
    LET fd == conn[c].fd
        p == IF conn[c].state = "kConnected"
               THEN Poller!UpdateChannel(poller[l], c, fd, {}) ELSE poller[l]
    IN  /\ poller' = [poller EXCEPT ![l] = Poller!RemoveChannel(p, c, fd)]
        /\ conn' = [conn EXCEPT ![c].state =
                       IF @ = "kConnected" THEN "kDisconnected" ELSE @]

-----------------------------------------------------------------------------
(* TcpServer::start, in the base loop's thread.  Calls after the first do   *)
(* nothing.                                                                 *)
Start ==
    /\ phase = "new"
    /\ phase' = "started"
    /\ poller' = [poller EXCEPT ![Base] =
                     Poller!UpdateChannel(@, Listener, ListenFd, {"IN"})]
    /\ UNCHANGED <<setup, next, accepted, connections, idleFd, conn, pc, active,
                   eventVars, pending, running, ran, clientVars>>

(* The clients.                                                             *)
ClientConnects ==
    /\ phase = "started"
    /\ arrived < setup.clients
    /\ arrived' = arrived + 1
    /\ waiting' = waiting + 1
    /\ UNCHANGED <<serverVars, conn, loopVars, peer>>

(* Looked at when the message callback does something.                      *)
PeerSends(c) ==
    /\ setup.calls # {}
    /\ Exists(c) /\ Alive(c) /\ ~peer[c].closed /\ ~peer[c].data
    /\ peer' = [peer EXCEPT ![c].data = TRUE]
    /\ UNCHANGED <<serverVars, conn, loopVars, arrived, waiting>>

PeerCloses(c) ==
    /\ Exists(c) /\ Alive(c) /\ ~peer[c].closed
    /\ peer' = [peer EXCEPT ![c].closed = TRUE]
    /\ UNCHANGED <<serverVars, conn, loopVars, arrived, waiting>>

-----------------------------------------------------------------------------
(* The loops.  What the kernel reports.                                     *)
Ready ==
    [c \in Conns \union {Listener} |->
        IF c = Listener THEN (IF waiting > 0 THEN {"IN"} ELSE {})
        ELSE IF Alive(c) /\ (peer[c].data \/ peer[c].closed) THEN {"IN"} ELSE {}]

(* poll returns the ready channels, in any order, or wakes for a functor.   *)
Poll(l) ==
    LET ready == Poller!ActiveChannels(poller[l], Ready) IN
    /\ pc[l] = "poll"
    /\ ready # {} \/ pending[l] # <<>>
    /\ \E s \in SetToSeqs(ready) : active' = [active EXCEPT ![l] = s]
    /\ polled' = IF l = Base THEN ready ELSE polled
    /\ pc' = [pc EXCEPT ![l] = "events"]
    /\ UNCHANGED <<serverVars, conn, handling, poller, pending, running, ran,
                   clientVars>>

(* l's thread is in ~TcpServer. *)
InDestructor(l) == l = Base /\ phase = "destroying"

(* The next active channel. *)
Handles(l, c) ==
    /\ pc[l] = "events"
    /\ ~InDestructor(l)
    /\ active[l] # <<>>
    /\ c = Head(active[l])
    /\ active' = [active EXCEPT ![l] = Tail(@)]
    /\ UNCHANGED <<setup, idleFd, pc, polled, running, ran, arrived>>

(* No callback of the user's runs that could destroy the server. *)
Undisturbed == UNCHANGED <<phase, handling>>

(* Mutant: no descriptor is kept in reserve: the client stays in the queue. *)
RefuseNobody ==
    /\ Handles(Base, Listener)
    /\ FreeFds = {}
    /\ Undisturbed
    /\ UNCHANGED <<next, accepted, connections, conn, poller, pending, waiting, peer>>

(* Acceptor::handleRead.  EMFILE: idleFd_ is given up for the client, who   *)
(* is closed at once.                                                       *)
Refuse ==
    /\ Handles(Base, Listener)
    /\ FreeFds = {}
    /\ waiting' = waiting - 1
    /\ Undisturbed
    /\ UNCHANGED <<next, accepted, connections, conn, poller, pending, peer>>

(* Otherwise TcpServer::newConnection.  connectEstablished runs at once     *)
(* when the connection's loop is the base loop.                             *)
Accept ==
    LET c == accepted + 1
        fd == Min(FreeFds)
        cn == [state |-> "kConnecting", loop |-> NextLoop, fd |-> fd]
    IN
    /\ Handles(Base, Listener)
    /\ FreeFds # {}
    /\ waiting' = waiting - 1
    /\ accepted' = c
    /\ AdvanceNext
    /\ connections' = connections \union {c}
    /\ IF NextLoop = Base
         THEN Established(cn, Base, c, fd) /\ UNCHANGED pending
         ELSE /\ conn' = [conn EXCEPT ![c] = cn]
              /\ Queue(NextLoop, "connectEstablished", c)
              /\ UNCHANGED poller
    /\ Undisturbed
    /\ UNCHANGED peer

(* The server may be destroyed. *)
CanDestroy == phase = "started" /\ setup.destroys /\ setup.threads = 0

(* TcpConnection::handleRead reads data: the message callback may shut the  *)
(* connection down or have it closed by a functor, and then destroy the     *)
(* server, while handleEvent's guard holds the connection.                  *)
HandleMessage(l, c) ==
    /\ Handles(l, c)
    /\ c # Listener
    /\ peer[c].data
    /\ peer' = [peer EXCEPT ![c].data = FALSE]
    /\ \/ UNCHANGED <<conn, pending>>
       \/ /\ conn[c].state = "kConnected" /\ "shutdown" \in setup.calls
          /\ conn' = [conn EXCEPT ![c].state = "kDisconnecting"]
          /\ UNCHANGED pending
       \/ /\ Open(c) /\ "forceClose" \in setup.calls
          /\ conn' = [conn EXCEPT ![c].state = "kDisconnecting"]
          /\ Queue(l, "forceCloseInLoop", c)
    /\ \/ Undisturbed
       \/ CanDestroy /\ phase' = "destroying" /\ handling' = {c}
    /\ UNCHANGED <<next, accepted, connections, poller, waiting>>

(* handleRead reads the end of the stream. *)
HandleEnd(l, c) ==
    /\ Handles(l, c)
    /\ c # Listener
    /\ ~peer[c].data
    /\ HandleClose(l, c)
    /\ Undisturbed
    /\ UNCHANGED <<next, accepted, waiting, peer>>

(* doPendingFunctors takes the functors. *)
TakeFunctors(l) ==
    /\ pc[l] = "events"
    /\ active[l] = <<>>
    /\ ~InDestructor(l)
    /\ polled' = IF l = Base THEN {} ELSE polled
    /\ running' = [running EXCEPT ![l] = pending[l]]
    /\ pending' = [pending EXCEPT ![l] = <<>>]
    /\ pc' = [pc EXCEPT ![l] = "functors"]
    /\ UNCHANGED <<serverVars, conn, active, handling, poller, ran, clientVars>>

(* The next functor. *)
Runs(l, f, c) ==
    /\ pc[l] = "functors"
    /\ ~InDestructor(l)
    /\ ran[l] < Len(running[l])
    /\ running[l][ran[l] + 1] = Functor(f, c)
    /\ ran' = [ran EXCEPT ![l] = @ + 1]
    /\ UNCHANGED <<setup, phase, next, accepted, idleFd, pc, active, eventVars, running,
                   clientVars>>

RunEstablished(l, c) ==
    /\ Runs(l, "connectEstablished", c)
    /\ Established(conn[c], l, c, conn[c].fd)
    /\ UNCHANGED <<connections, pending>>

RunRemove(c) ==
    /\ Runs(Base, "removeConnectionInLoop", c)
    /\ RemoveConnectionInLoop(c)
    /\ UNCHANGED <<conn, poller>>

RunDestroyed(l, c) ==
    /\ Runs(l, "connectDestroyed", c)
    /\ Destroyed(l, c)
    /\ UNCHANGED <<connections, pending>>

RunForceClose(l, c) ==
    /\ Runs(l, "forceCloseInLoop", c)
    /\ IF Open(c) THEN HandleClose(l, c)
                  ELSE UNCHANGED <<connections, conn, poller, pending>>

(* The vector and the references in it go. *)
DropFunctors(l) ==
    /\ pc[l] = "functors"
    /\ ran[l] = Len(running[l])
    /\ ~InDestructor(l)
    /\ running' = [running EXCEPT ![l] = <<>>]
    /\ ran' = [ran EXCEPT ![l] = 0]
    /\ pc' = [pc EXCEPT ![l] = "poll"]
    /\ UNCHANGED <<serverVars, conn, active, eventVars, poller, pending, clientVars>>

-----------------------------------------------------------------------------
(* ~TcpServer, in a functor or in the callback of a timer or of another     *)
(* channel: the connections are destroyed one after the other, then the     *)
(* acceptor.                                                                *)
Destroy ==
    /\ CanDestroy
    /\ pc[Base] \in {"events", "functors"}
    /\ phase' = "destroying"
    /\ UNCHANGED <<setup, next, accepted, connections, idleFd, conn, loopVars, clientVars>>

(* EventLoop::removeChannel asserts that while events are handled only the  *)
(* channel being handled, or one that is not active, is removed.            *)
CanRemoveChannel(c) == pc[Base] = "events" => c \in handling \/ c \notin polled

(* What a server that is destroyed may do to a connection.                  *)
CanDestroyConnection(c) ==
    /\ conn[c].state # "kDisconnecting"
    /\ CanRemoveChannel(c)

(* An assertion of the destructor's fails: EventLoop.cc:238, or Channel.cc: *)
(* 62 for a half-closed connection.                                         *)
Fails ==
    /\ phase = "destroying"
    /\ \/ \E c \in connections : ~CanDestroyConnection(c)
       \/ ~CanRemoveChannel(Listener)

DestroyConnection(c) ==
    /\ phase = "destroying"
    /\ c \in connections
    /\ CanDestroyConnection(c)
    /\ connections' = connections \ {c}
    /\ Destroyed(Base, c)
    /\ UNCHANGED <<setup, phase, next, accepted, idleFd, pc, active, eventVars,
                   pending, running, ran, clientVars>>

(* With the acceptor the destructor ends, and the callback it runs in.      *)
DestroyAcceptor ==
    /\ phase = "destroying"
    /\ connections = {}
    /\ CanRemoveChannel(Listener)
    /\ phase' = "destroyed"
    /\ poller' = [poller EXCEPT ![Base] = Poller!RemoveChannel(
                     Poller!UpdateChannel(@, Listener, ListenFd, {}), Listener, ListenFd)]
    /\ idleFd' = 0
    /\ waiting' = 0
    /\ handling' = {}
    /\ UNCHANGED <<setup, next, accepted, connections, conn, pc, active, polled,
                   pending, running, ran, arrived, peer>>

LoopStep(l) ==
    \/ Poll(l)
    \/ l = Base /\ (Refuse \/ Accept)
    \/ \E c \in Conns : HandleMessage(l, c) \/ HandleEnd(l, c)
    \/ TakeFunctors(l)
    \/ \E c \in Conns : \/ RunEstablished(l, c) \/ RunDestroyed(l, c)
                        \/ RunForceClose(l, c) \/ (l = Base /\ RunRemove(c))
    \/ DropFunctors(l)
    \/ l = Base /\ ((\E c \in Conns : DestroyConnection(c)) \/ DestroyAcceptor)

Clients == ClientConnects \/ \E c \in Conns : PeerSends(c) \/ PeerCloses(c)

Next == Start \/ Destroy \/ Clients \/ \E l \in Loops : LoopStep(l)

Spec == Init /\ [][Next]_vars

(* Every loop's thread keeps running. *)
FairSpec == Spec /\ \A l \in Loops : WF_vars(LoopStep(l))

-----------------------------------------------------------------------------
(* The functor or event l deals with next. *)
NextFunctor(l, f, c) ==
    /\ pc[l] = "functors" /\ ran[l] < Len(running[l])
    /\ running[l][ran[l] + 1] = Functor(f, c)
NextEvent(l, c) == pc[l] = "events" /\ active[l] # <<>> /\ Head(active[l]) = c

(* The assertions hold where they are met, in every order of the loops:     *)
(* TcpConnection.cc:315 and 405, TcpServer.cc:121, and the poller's         *)
(* (EpollPoller.cc:127-146, 169-178), whose map must not know a descriptor  *)
(* that is used again; those of the destructor's unless Fails.              *)
AssertionsHold ==
    \A l \in Loops : \A c \in Conns :
        LET fd == conn[c].fd
            p == poller[l]
        IN
        /\ NextFunctor(l, "connectEstablished", c) =>
              conn[c].state = "kConnecting" /\ Poller!CanUpdate(p, c, fd)
        /\ NextFunctor(l, "removeConnectionInLoop", c) => c \in connections
        /\ NextFunctor(l, "connectDestroyed", c) =>
              conn[c].state \in {"kConnected", "kDisconnected"} /\ Poller!HasChannel(p, c, fd)
              /\ (conn[c].state = "kDisconnected" => Poller!CanRemove(p, c, fd))
        /\ NextEvent(l, c) => Open(c) /\ Poller!CanUpdate(p, c, fd)
        /\ NextEvent(l, Listener) /\ c = accepted + 1 /\ FreeFds # {} =>
              Poller!CanUpdate(poller[NextLoop], c, Min(FreeFds))
        /\ phase = "destroying" /\ c \in connections =>
              Open(c) /\ conn[c].loop = Base /\ Poller!CanUpdate(poller[Base], c, fd)

(* A poller and the events a loop is dealing with only know connections     *)
(* that are alive, and the descriptors these still have: the pointers       *)
(* epoll_wait gives back (EpollPoller.cc:99-109) are not dangling.          *)
ChannelsAlive ==
    /\ \A l \in Loops : \A i \in DOMAIN active[l] :
          active[l][i] # Listener => Alive(active[l][i])
    /\ \A l \in Loops : \A fd \in DOMAIN poller[l].channels :
          LET c == poller[l].channels[fd] IN
          FdOf(c) = fd /\ (c # Listener => Alive(c) /\ conn[c].loop = l)

(* ~TcpConnection finds the connection closed and out of its poller         *)
(* (TcpConnection.cc:78, Channel.cc:40), whichever thread drops the last    *)
(* reference.                                                               *)
FreedIsClosed ==
    \A c \in Conns : Exists(c) /\ ~Alive(c) =>
        /\ conn[c].state = "kDisconnected"
        /\ poller[conn[c].loop].index[c] = "kNew"

(* No object dies while somebody still points to it.                        *)
LifetimeInv == TypeOK /\ ChannelsAlive /\ FreedIsClosed

(* A connection whose peer is gone is freed, and its descriptor with it.    *)
ClosedIsFreed ==
    \A c \in Conns : (Exists(c) /\ peer[c].closed) ~> (~Alive(c) \/ Fails)

(* Every client is accepted or refused, also when no descriptor is left     *)
(* (Acceptor.cc:80-86), and nobody who is served need leave for that.       *)
ClientsServed == (waiting > 0) ~> (waiting = 0 \/ Fails)

=============================================================================
