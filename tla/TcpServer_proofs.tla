--------------------------- MODULE TcpServer_proofs ---------------------------
(***************************************************************************)
(* TcpServer, for any number of IO loops, descriptors and clients and any  *)
(* setup: a connection lives as long as its channel, its descriptor and    *)
(* its functors need it, and no assertion fails but those of a destructor  *)
(* that meets active channels or a half-closed connection (Fails).         *)
(***************************************************************************)
EXTENDS TcpServer, FiniteSetTheorems, TLAPS

(* What a loop has still to run: the functors of its vector after the first *)
(* r, and those that wait.                                                  *)
InQueue(run, r, wait, f) ==
    \/ \E i \in DOMAIN run : r < i /\ run[i] = f
    \/ \E i \in DOMAIN wait : wait[i] = f

(* It is there once at most. *)
Single(run, r, wait, f) ==
    /\ \A i, j \in DOMAIN run : r < i /\ r < j /\ run[i] = f /\ run[j] = f => i = j
    /\ \A i, j \in DOMAIN wait : wait[i] = f /\ wait[j] = f => i = j
    /\ \A i \in DOMAIN run, j \in DOMAIN wait : r < i /\ run[i] = f => wait[j] # f

(* A functor of c is still to be run by l, and it is once at most.          *)
Queued(l, f, c) == InQueue(running[l], ran[l], pending[l], Functor(f, c))
Once(l, f, c) == Single(running[l], ran[l], pending[l], Functor(f, c))

(* The functors.                                                            *)
Calls == {"connectEstablished", "removeConnectionInLoop", "connectDestroyed", "forceCloseInLoop"}
Functors == [call : Calls, conn : Conns]
(* The channels, and maps that need not be total.                           *)
Channels == Conns \union {Listener}

Partial(S, T) == UNION {[D -> T] : D \in SUBSET S}
(* A poller: its map, its epoll set, and of each channel index_ and events_. *)
Watched == [channel : Channels, events : SUBSET {"IN"}]
Pollers == [channels : Partial(0..MaxFds, Channels),
            watched : Partial(0..MaxFds, Watched),
            index : [Channels -> {"kNew", "kAdded", "kDeleted"}],
            events : [Channels -> SUBSET {"IN"}]]

(* Types, and what holds of the counters.                                   *)
TypesInv ==
    /\ TypeOK
    /\ arrived \in Nat /\ waiting \in Nat
    /\ accepted + waiting <= arrived /\ arrived <= setup.clients
    /\ setup.threads # 0 => next < setup.threads
    /\ pending \in [Loops -> Seq(Functors)]
    /\ running \in [Loops -> Seq(Functors)]
    /\ poller \in [Loops -> Pollers]
    /\ \A c \in Conns : Exists(c) <=> c <= accepted
    /\ \A c \in Conns : Exists(c) => conn[c].fd \in 2..MaxFds
    /\ setup.threads = 0 => \A c \in Conns : conn[c].loop = Base

(* Where a loop is, and what it has still to deal with when the server is   *)
(* destroyed.                                                               *)
LoopInv ==
    /\ \A l \in Loops :
        /\ pc[l] # "events" => active[l] = <<>>
        /\ pc[l] # "functors" => running[l] = <<>> /\ ran[l] = 0
        /\ ran[l] <= Len(running[l])
    /\ phase = "destroying" => pc[Base] \in {"events", "functors"}
    /\ phase \in {"destroying", "destroyed"} => setup.destroys /\ setup.threads = 0
    /\ pc[Base] # "events" => polled = {}
    /\ \A i \in DOMAIN active[Base] : active[Base][i] \in polled \ handling
    /\ handling # {} => phase = "destroying"

(* A connection's functors are with its own loop, but for                   *)
(* removeConnectionInLoop, which is with the base loop.                     *)
FunctorsInv ==
    \A l \in Loops, c \in Conns :
        /\ \A f \in {"connectEstablished", "connectDestroyed", "forceCloseInLoop"} :
              Queued(l, f, c) => Exists(c) /\ conn[c].loop = l
        /\ Queued(l, "removeConnectionInLoop", c) => l = Base /\ Exists(c) /\ conn[c].loop # Base
        /\ \A f \in Calls \ {"forceCloseInLoop"} : Once(l, f, c)

(* How far a connection is. *)
StageOf(c) ==
    /\ conn[c].state = "kConnecting" =>
          conn[c].loop # Base /\ c \in connections
          /\ Queued(conn[c].loop, "connectEstablished", c)
    /\ Queued(conn[c].loop, "connectEstablished", c) => conn[c].state = "kConnecting"
    /\ Open(c) => c \in connections
    /\ Queued(Base, "removeConnectionInLoop", c) =>
          conn[c].state = "kDisconnected" /\ c \in connections
    /\ Queued(conn[c].loop, "connectDestroyed", c) =>
          conn[c].state = "kDisconnected" /\ c \notin connections
    /\ conn[c].loop = Base /\ c \in connections => Open(c)

StageInv == \A c \in Conns : StageOf(c)

(* A connection that is closed and whose connectDestroyed is still to come: *)
(* its channel is disabled and in the map.                                  *)
Closing(c) ==
    /\ conn[c].state = "kDisconnected"
    /\ c \in connections \/ Queued(conn[c].loop, "connectDestroyed", c)

(* The index_ of a connection's channel in the poller of l. *)
IndexOf(l, c) ==
    IF conn[c].loop # l THEN "kNew" ELSE
    IF Open(c) THEN "kAdded" ELSE
    IF Closing(c) THEN "kDeleted" ELSE "kNew"

(* The map of a poller, its epoll set and index_ agree, where F are the     *)
(* descriptors.                                                             *)
Wired(p, F) ==
    /\ \A c \in Channels : p.index[c] # "kNew" => Poller!HasChannel(p, c, F[c])
    /\ \A fd \in DOMAIN p.channels :
          F[p.channels[fd]] = fd /\ p.index[p.channels[fd]] # "kNew"
    /\ \A fd \in DOMAIN p.watched :
          F[p.watched[fd].channel] = fd /\ p.index[p.watched[fd].channel] = "kAdded"

(* The descriptor of each channel, and the index_ of the listening one.     *)
Fds == [c \in Channels |-> FdOf(c)]
ListenerIndex(l) == IF l = Base /\ phase \in {"started", "destroying"} THEN "kAdded" ELSE "kNew"

(* The poller of l knows each channel as it should.                         *)
PollerOf(l) ==
    /\ Wired(poller[l], Fds)
    /\ \A c \in Conns : poller[l].index[c] = IndexOf(l, c)
    /\ \A c \in Conns : conn[c].loop = l /\ Closing(c) => poller[l].events[c] = {}
    /\ poller[l].index[Listener] = ListenerIndex(l)

PollerInv == \A l \in Loops : PollerOf(l)

(* What an event of channel c that loop l has still to deal with says.      *)
Deals(l, c) ==
    IF c = Listener THEN l = Base /\ phase \in {"started", "destroying"} /\ waiting > 0
                    ELSE Open(c) /\ conn[c].loop = l

(* The events polled and not yet handled are still true of their channels,  *)
(* and no channel has two.                                                  *)
ActiveInv ==
    \A l \in Loops :
        /\ \A i \in DOMAIN active[l] : Deals(l, active[l][i])
        /\ IsInjective(active[l])

(* No two connections that live have a descriptor in common. *)
FdsInv ==
    \A c, d \in Conns :
        Exists(c) /\ Exists(d) /\ Alive(c) /\ Alive(d) /\ conn[c].fd = conn[d].fd => c = d

(* The inductive invariant.                                                 *)
ServerInv ==
    /\ TypesInv /\ LoopInv /\ FunctorsInv /\ StageInv /\ PollerInv /\ ActiveInv /\ FdsInv

-----------------------------------------------------------------------------
(* A map keeps its type when an entry is put in or taken out.               *)
LEMMA Partials ==
    ASSUME NEW S, NEW T, NEW f \in Partial(S, T)
    PROVE  /\ DOMAIN f \subseteq S /\ \A x \in DOMAIN f : f[x] \in T
           /\ \A x \in S, y \in T : Poller!Put(f, x, y) \in Partial(S, T)
           /\ \A x : Poller!Restrict(f, DOMAIN f \ {x}) \in Partial(S, T)
<1>1. PICK D \in SUBSET S : f \in [D -> T]
  BY DEF Partial
<1>2. ASSUME NEW x \in S, NEW y \in T PROVE Poller!Put(f, x, y) \in Partial(S, T)
  <2>1. Poller!Put(f, x, y) \in [D \union {x} -> T]
    BY <1>1 DEF Poller!Put
  <2> QED BY <1>1, <2>1 DEF Partial
<1>3. ASSUME NEW x PROVE Poller!Restrict(f, DOMAIN f \ {x}) \in Partial(S, T)
  <2>1. Poller!Restrict(f, DOMAIN f \ {x}) \in [D \ {x} -> T]
    BY <1>1 DEF Poller!Restrict
  <2>2. D \ {x} \in SUBSET S
    BY <1>1
  <2> QED BY <2>1, <2>2 DEF Partial
<1> QED BY <1>1, <1>2, <1>3

(* The parts of a poller.                                                   *)
LEMMA PollerFields ==
    ASSUME NEW p \in Pollers
    PROVE  /\ p.channels \in Partial(0..MaxFds, Channels)
           /\ p.watched \in Partial(0..MaxFds, Watched)
           /\ p.index \in [Channels -> {"kNew", "kAdded", "kDeleted"}]
           /\ p.events \in [Channels -> SUBSET {"IN"}]
           /\ \A fd \in DOMAIN p.channels : p.channels[fd] \in Channels
           /\ \A fd \in DOMAIN p.watched : p.watched[fd].channel \in Channels
<1>1. /\ p.channels \in Partial(0..MaxFds, Channels)
      /\ p.watched \in Partial(0..MaxFds, Watched)
      /\ p.index \in [Channels -> {"kNew", "kAdded", "kDeleted"}]
      /\ p.events \in [Channels -> SUBSET {"IN"}]
  BY DEF Pollers
<1>2. \A fd \in DOMAIN p.channels : p.channels[fd] \in Channels
  BY <1>1, Partials
<1>3. \A fd \in DOMAIN p.watched : p.watched[fd] \in Watched
  BY <1>1, Partials
<1> QED BY <1>1, <1>2, <1>3 DEF Watched

(* q is the poller p after an update of c: only c's index and events have   *)
(* changed.                                                                 *)
IsUpdate(p, F, c, index, events, q) ==
    /\ q \in Pollers /\ Wired(q, F)
    /\ q.index = [p.index EXCEPT ![c] = index]
    /\ q.events = [p.events EXCEPT ![c] = events]

(* updateChannel of a new channel adds it, if no other channel has its      *)
(* descriptor.                                                              *)
LEMMA AddChannel ==
    ASSUME NEW p \in Pollers, NEW F, Wired(p, F), NEW c \in Channels,
           p.index[c] = "kNew", F[c] \in 0..MaxFds, F[c] \notin DOMAIN p.channels,
           NEW q, q = Poller!UpdateChannel(p, c, F[c], {"IN"})
    PROVE  IsUpdate(p, F, c, "kAdded", {"IN"}, q)
<1> DEFINE fd == F[c]
           w == [channel |-> c, events |-> {"IN"}]
           ch == Poller!Put(p.channels, fd, c)
           wa == Poller!Put(p.watched, fd, w)
<1>1. q = [channels |-> ch, watched |-> wa, index |-> [p.index EXCEPT ![c] = "kAdded"],
           events |-> [p.events EXCEPT ![c] = {"IN"}]]
  BY DEF Poller!UpdateChannel
<1>2. q \in Pollers
  <2>1. ch \in Partial(0..MaxFds, Channels)
    <3>1. p.channels \in Partial(0..MaxFds, Channels)
      BY PollerFields
    <3> QED BY <3>1, Partials
  <2>2. wa \in Partial(0..MaxFds, Watched)
    <3>1. p.watched \in Partial(0..MaxFds, Watched)
      BY PollerFields
    <3>2. w \in Watched
      BY DEF Watched
    <3> HIDE DEF w
    <3> QED BY <3>1, <3>2, Partials
  <2>3. /\ [p.index EXCEPT ![c] = "kAdded"] \in [Channels -> {"kNew", "kAdded", "kDeleted"}]
        /\ [p.events EXCEPT ![c] = {"IN"}] \in [Channels -> SUBSET {"IN"}]
    BY PollerFields
  <2> HIDE DEF ch, wa
  <2> QED BY <1>1, <2>1, <2>2, <2>3 DEF Pollers
<1>3. /\ DOMAIN ch = DOMAIN p.channels \union {fd} /\ ch[fd] = c
      /\ \A x \in DOMAIN p.channels : x # fd => ch[x] = p.channels[x]
  BY DEF Poller!Put
<1>4. /\ DOMAIN wa = DOMAIN p.watched \union {fd} /\ wa[fd] = w
      /\ \A x \in DOMAIN p.watched : x # fd => wa[x] = p.watched[x]
  BY DEF Poller!Put
<1>5. w.channel = c
  OBVIOUS
<1> HIDE DEF ch, wa, w
<1>6. Wired(q, F)
  <2>1. q.channels = ch /\ q.watched = wa /\ q.index = [p.index EXCEPT ![c] = "kAdded"]
    BY <1>1
  <2>2. \A d \in Channels : q.index[d] # "kNew" => Poller!HasChannel(q, d, F[d])
    BY <1>3, <2>1, PollerFields DEF Wired, Poller!HasChannel
  <2>3. \A x \in DOMAIN q.channels : F[q.channels[x]] = x /\ q.index[q.channels[x]] # "kNew"
    BY <1>3, <2>1, PollerFields DEF Wired
  <2>4. \A x \in DOMAIN q.watched :
           F[q.watched[x].channel] = x /\ q.index[q.watched[x].channel] = "kAdded"
    BY <1>4, <1>5, <2>1, PollerFields DEF Wired
  <2> QED BY <2>2, <2>3, <2>4 DEF Wired
<1> QED BY <1>1, <1>2, <1>6 DEF IsUpdate

(* updateChannel of a channel without events takes it out of the epoll set  *)
(* and keeps it in the map.                                                 *)
LEMMA DisableChannel ==
    ASSUME NEW p \in Pollers, NEW F, Wired(p, F), NEW c \in Channels, p.index[c] = "kAdded",
           NEW q, q = Poller!UpdateChannel(p, c, F[c], {})
    PROVE  IsUpdate(p, F, c, "kDeleted", {}, q)
<1> DEFINE fd == F[c]
           wa == Poller!Restrict(p.watched, DOMAIN p.watched \ {fd})
<1>1. q = [channels |-> p.channels, watched |-> wa, index |-> [p.index EXCEPT ![c] = "kDeleted"],
           events |-> [p.events EXCEPT ![c] = {}]]
  BY DEF Poller!UpdateChannel
<1>2. q \in Pollers
  <2>1. wa \in Partial(0..MaxFds, Watched)
    <3>1. p.watched \in Partial(0..MaxFds, Watched)
      BY PollerFields
    <3> QED BY <3>1, Partials
  <2>2. /\ [p.index EXCEPT ![c] = "kDeleted"] \in [Channels -> {"kNew", "kAdded", "kDeleted"}]
        /\ [p.events EXCEPT ![c] = {}] \in [Channels -> SUBSET {"IN"}]
        /\ p.channels \in Partial(0..MaxFds, Channels)
    BY PollerFields
  <2> HIDE DEF wa
  <2> QED BY <1>1, <2>1, <2>2 DEF Pollers
<1>3. /\ DOMAIN wa = DOMAIN p.watched \ {fd}
      /\ \A x \in DOMAIN wa : wa[x] = p.watched[x]
  BY DEF Poller!Restrict
<1> HIDE DEF wa
<1>4. Wired(q, F)
  <2>1. q.channels = p.channels /\ q.watched = wa /\ q.index = [p.index EXCEPT ![c] = "kDeleted"]
    BY <1>1
  <2>2. \A d \in Channels : q.index[d] # "kNew" => Poller!HasChannel(q, d, F[d])
    BY <2>1, PollerFields DEF Wired, Poller!HasChannel
  <2>3. \A x \in DOMAIN q.channels : F[q.channels[x]] = x /\ q.index[q.channels[x]] # "kNew"
    BY <2>1, PollerFields DEF Wired
  <2>4. \A x \in DOMAIN q.watched :
           F[q.watched[x].channel] = x /\ q.index[q.watched[x].channel] = "kAdded"
    BY <1>3, <2>1, PollerFields DEF Wired
  <2> QED BY <2>2, <2>3, <2>4 DEF Wired
<1> QED BY <1>1, <1>2, <1>4 DEF IsUpdate

(* removeChannel forgets a channel, and only that.                          *)
LEMMA DropChannel ==
    ASSUME NEW p \in Pollers, NEW F, Wired(p, F), NEW c \in Channels, p.index[c] # "kNew"
    PROVE  LET q == Poller!RemoveChannel(p, c, F[c]) IN
           /\ q \in Pollers /\ Wired(q, F)
           /\ q.index = [p.index EXCEPT ![c] = "kNew"]
           /\ q.events = p.events
<1> DEFINE fd == F[c]
           ch == Poller!Restrict(p.channels, DOMAIN p.channels \ {fd})
           wa == Poller!Restrict(p.watched, DOMAIN p.watched \ {fd})
           q == Poller!RemoveChannel(p, c, fd)
<1>1. q = [p EXCEPT !.channels = ch, !.watched = wa, !.index = [p.index EXCEPT ![c] = "kNew"]]
  BY DEF Poller!RemoveChannel, Pollers
<1>2. /\ ch \in Partial(0..MaxFds, Channels) /\ wa \in Partial(0..MaxFds, Watched)
  <2>1. p.channels \in Partial(0..MaxFds, Channels) /\ p.watched \in Partial(0..MaxFds, Watched)
    BY PollerFields
  <2> QED BY <2>1, Partials
<1>3. /\ DOMAIN wa = DOMAIN p.watched \ {fd}
      /\ \A x \in DOMAIN wa : wa[x] = p.watched[x]
      /\ DOMAIN ch = DOMAIN p.channels \ {fd}
      /\ \A x \in DOMAIN ch : ch[x] = p.channels[x]
  BY DEF Poller!Restrict
<1> HIDE DEF wa, ch
<1>4. /\ q.channels = ch /\ q.watched = wa /\ q.index = [p.index EXCEPT ![c] = "kNew"]
      /\ q.events = p.events
  BY <1>1 DEF Pollers
<1>5. q \in Pollers
  <2>1. [p.index EXCEPT ![c] = "kNew"] \in [Channels -> {"kNew", "kAdded", "kDeleted"}]
    BY PollerFields
  <2> HIDE DEF q
  <2> QED BY <1>1, <1>2, <2>1 DEF Pollers
<1>6. Wired(q, F)
  <2> HIDE DEF q
  <2>1. \A d \in Channels : q.index[d] # "kNew" => Poller!HasChannel(q, d, F[d])
    <3> SUFFICES ASSUME NEW d \in Channels, q.index[d] # "kNew"
                 PROVE  Poller!HasChannel(q, d, F[d])
      OBVIOUS
    <3>1. d # c /\ p.index[d] # "kNew"
      BY <1>4, PollerFields
    <3>2. /\ F[d] \in DOMAIN p.channels /\ p.channels[F[d]] = d
          /\ p.channels[F[c]] = c
      BY <3>1 DEF Wired, Poller!HasChannel
    <3> QED BY <1>3, <1>4, <3>1, <3>2 DEF Poller!HasChannel
  <2>2. \A x \in DOMAIN q.channels : F[q.channels[x]] = x /\ q.index[q.channels[x]] # "kNew"
    BY <1>3, <1>4, PollerFields DEF Wired
  <2>3. \A x \in DOMAIN q.watched :
           F[q.watched[x].channel] = x /\ q.index[q.watched[x].channel] = "kAdded"
    BY <1>3, <1>4, PollerFields DEF Wired
  <2> QED BY <2>1, <2>2, <2>3 DEF Wired
<1> QED BY <1>4, <1>5, <1>6

(* A poller only minds the descriptors of the channels it has.              *)
LEMMA OtherDescriptors ==
    ASSUME NEW p \in Pollers, NEW F, Wired(p, F), NEW G,
           \A c \in Channels : p.index[c] # "kNew" => G[c] = F[c]
    PROVE  Wired(p, G)
BY PollerFields DEF Wired

-----------------------------------------------------------------------------
(* A functor queued waits after those that do.                              *)
LEMMA QueueAppends ==
    ASSUME NEW run \in Seq(Functors), NEW wait \in Seq(Functors), NEW r \in Nat, NEW g \in Functors
    PROVE  /\ Append(wait, g) \in Seq(Functors)
           /\ \A f : InQueue(run, r, Append(wait, g), f) <=> InQueue(run, r, wait, f) \/ f = g
           /\ \A f : Single(run, r, wait, f) /\ (f = g => ~InQueue(run, r, wait, f))
                       => Single(run, r, Append(wait, g), f)
<1> DEFINE w == Append(wait, g)
<1>1. /\ w \in Seq(Functors)
      /\ DOMAIN w = DOMAIN wait \union {Len(wait) + 1} /\ w[Len(wait) + 1] = g
      /\ \A i \in DOMAIN wait : w[i] = wait[i] /\ i # Len(wait) + 1
  OBVIOUS
<1> HIDE DEF w
<1>2. \A f : InQueue(run, r, w, f) <=> InQueue(run, r, wait, f) \/ f = g
  BY <1>1 DEF InQueue
<1>3. ASSUME NEW f, Single(run, r, wait, f), f = g => ~InQueue(run, r, wait, f)
      PROVE  Single(run, r, w, f)
  BY <1>1, <1>3 DEF Single, InQueue
<1> QED BY <1>1, <1>2, <1>3 DEF w

(* A functor run is no longer to be run, and the others are.                *)
LEMMA QueueRuns ==
    ASSUME NEW run \in Seq(Functors), NEW wait \in Seq(Functors), NEW r \in Nat, r < Len(run)
    PROVE  /\ \A f : InQueue(run, r, wait, f) <=> InQueue(run, r + 1, wait, f) \/ f = run[r + 1]
           /\ \A f : Single(run, r, wait, f) => Single(run, r + 1, wait, f)
           /\ Single(run, r, wait, run[r + 1]) => ~InQueue(run, r + 1, wait, run[r + 1])
<1>1. /\ r + 1 \in DOMAIN run
      /\ \A i \in DOMAIN run : r < i <=> r + 1 < i \/ i = r + 1
      /\ ~(r + 1 < r + 1) /\ r < r + 1
  OBVIOUS
<1>2. \A f : InQueue(run, r, wait, f) <=> InQueue(run, r + 1, wait, f) \/ f = run[r + 1]
  BY <1>1 DEF InQueue
<1>3. \A f : Single(run, r, wait, f) => Single(run, r + 1, wait, f)
  BY <1>1 DEF Single
<1>4. Single(run, r, wait, run[r + 1]) => ~InQueue(run, r + 1, wait, run[r + 1])
  BY <1>1 DEF Single, InQueue
<1> QED BY <1>2, <1>3, <1>4

(* The swap of doPendingFunctors loses no functor and doubles none.         *)
LEMMA QueueTaken ==
    ASSUME NEW wait \in Seq(Functors)
    PROVE  /\ \A f : InQueue(<<>>, 0, wait, f) <=> InQueue(wait, 0, <<>>, f)
           /\ \A f : Single(<<>>, 0, wait, f) => Single(wait, 0, <<>>, f)
<1>1. DOMAIN <<>> = {} /\ \A i \in DOMAIN wait : 0 < i
  OBVIOUS
<1> QED BY <1>1 DEF InQueue, Single

(* Nor does the end of a vector that has been run.                          *)
LEMMA QueueDropped ==
    ASSUME NEW run \in Seq(Functors), NEW wait \in Seq(Functors)
    PROVE  /\ \A f : InQueue(run, Len(run), wait, f) <=> InQueue(<<>>, 0, wait, f)
           /\ \A f : Single(run, Len(run), wait, f) => Single(<<>>, 0, wait, f)
<1>1. DOMAIN <<>> = {} /\ \A i \in DOMAIN run : ~(Len(run) < i)
  OBVIOUS
<1> QED BY <1>1 DEF InQueue, Single

-----------------------------------------------------------------------------
(* What a step does to the functors: those of done are run, those of added  *)
(* are queued, and each is there once at most.  forceCloseInLoop may be     *)
(* queued any number of times, but only in a step that has it in added.     *)
QueueEffect(done, added) ==
    \A l \in Loops, c \in Conns :
        /\ \A f \in Calls \ {"forceCloseInLoop"} :
              /\ Once(l, f, c)'
              /\ Queued(l, f, c)' <=>
                    \/ Queued(l, f, c) /\ <<l, f, c>> \notin done
                    \/ <<l, f, c>> \in added
        /\ Queued(l, "forceCloseInLoop", c)' =>
              Queued(l, "forceCloseInLoop", c) \/ <<l, "forceCloseInLoop", c>> \in added

(* Functors are apart when their calls or their connections are.            *)
LEMMA FunctorIs ==
    ASSUME NEW f \in Calls, NEW c \in Conns
    PROVE  /\ Functor(f, c) \in Functors /\ Functor(f, c).conn = c /\ Functor(f, c).call = f
           /\ \A g, d : Functor(g, d) = Functor(f, c) <=> g = f /\ d = c
BY DEF Functor, Functors

(* Without a change of the queues nothing is run or queued.                 *)
LEMMA NothingQueued ==
    ASSUME FunctorsInv, UNCHANGED <<pending, running, ran>>
    PROVE  QueueEffect({}, {})
BY DEF QueueEffect, FunctorsInv, Queued, Once

(* The types of the queues.                                                 *)
QueueTypes ==
    /\ pending \in [Loops -> Seq(Functors)]
    /\ running \in [Loops -> Seq(Functors)]
    /\ ran \in [Loops -> Nat]
    /\ \A l \in Loops : ran[l] <= Len(running[l])

(* Queueing a functor that is not queued,                                   *)
LEMMA AppendEffect ==
    ASSUME QueueTypes, FunctorsInv, NEW k \in Loops, NEW g \in Calls, NEW d \in Conns,
           Queue(k, g, d), UNCHANGED <<running, ran>>,
           g # "forceCloseInLoop" => ~Queued(k, g, d)
    PROVE  QueueTypes' /\ QueueEffect({}, {<<k, g, d>>})
<1> DEFINE G == Functor(g, d)
<1>1. G \in Functors
  BY FunctorIs
<1>2. ASSUME NEW l \in Loops
      PROVE  /\ pending'[l] \in Seq(Functors)
             /\ \A f : InQueue(running[l], ran[l], pending'[l], f) <=>
                   InQueue(running[l], ran[l], pending[l], f) \/ (l = k /\ f = G)
             /\ \A f : Single(running[l], ran[l], pending[l], f) /\
                     (f = G /\ l = k => ~InQueue(running[l], ran[l], pending[l], f))
                       => Single(running[l], ran[l], pending'[l], f)
  <2>1. running[l] \in Seq(Functors) /\ pending[l] \in Seq(Functors) /\ ran[l] \in Nat
    BY DEF QueueTypes
  <2>2. CASE l = k
    <3>1. pending'[l] = Append(pending[l], G)
      BY <2>2 DEF Queue, QueueTypes
    <3> HIDE DEF G
    <3> QED BY <1>1, <2>1, <2>2, <3>1, QueueAppends
  <2>3. CASE l # k
    <3>1. pending'[l] = pending[l]
      BY <2>3 DEF Queue, QueueTypes
    <3> QED BY <2>1, <2>3, <3>1
  <2> QED BY <2>2, <2>3
<1>3. QueueTypes'
  <2>1. pending' = [l \in Loops |-> pending'[l]]
    BY DEF Queue, QueueTypes
  <2> QED BY <1>2, <2>1 DEF QueueTypes
<1>4. ASSUME NEW l \in Loops, NEW c \in Conns, NEW f \in Calls
      PROVE  /\ Queued(l, f, c)' <=> Queued(l, f, c) \/ <<l, f, c>> \in {<<k, g, d>>}
             /\ f # "forceCloseInLoop" => Once(l, f, c)'
  <2>1. Functor(f, c) = G <=> f = g /\ c = d
    BY FunctorIs
  <2>2. <<l, f, c>> \in {<<k, g, d>>} <=> l = k /\ Functor(f, c) = G
    BY <2>1
  <2>3. f # "forceCloseInLoop" => Once(l, f, c)
    BY DEF FunctorsInv
  <2>4. l = k /\ Functor(f, c) = G /\ f # "forceCloseInLoop" => ~Queued(l, f, c)
    BY <2>1
  <2> HIDE DEF G
  <2> QED BY <1>2, <2>2, <2>3, <2>4 DEF Queued, Once
<1> QED BY <1>3, <1>4 DEF QueueEffect, Calls

(* running the next one,                                                    *)
LEMMA RunEffect ==
    ASSUME QueueTypes, FunctorsInv, NEW k \in Loops, NEW g \in Calls, NEW d \in Conns,
           Runs(k, g, d), UNCHANGED pending
    PROVE  /\ QueueTypes' /\ Queued(k, g, d)
           /\ QueueEffect({<<k, g, d>>}, {})
<1> DEFINE G == Functor(g, d)
<1>1. G \in Functors
  BY FunctorIs
<1>2. ASSUME NEW l \in Loops
      PROVE  /\ ran'[l] \in Nat /\ ran'[l] <= Len(running[l])
             /\ \A f : InQueue(running[l], ran[l], pending[l], f) <=>
                   InQueue(running[l], ran'[l], pending[l], f) \/ (l = k /\ f = G)
             /\ \A f : Single(running[l], ran[l], pending[l], f)
                       => Single(running[l], ran'[l], pending[l], f)
             /\ l = k /\ Single(running[l], ran[l], pending[l], G)
                       => ~InQueue(running[l], ran'[l], pending[l], G)
  <2>1. running[l] \in Seq(Functors) /\ pending[l] \in Seq(Functors) /\ ran[l] \in Nat
        /\ ran[l] <= Len(running[l])
    BY DEF QueueTypes
  <2>2. CASE l = k
    <3>1. ran'[l] = ran[l] + 1 /\ ran[l] < Len(running[l]) /\ running[l][ran[l] + 1] = G
      BY <2>2 DEF Runs, QueueTypes
    <3> HIDE DEF G
    <3>2. ran[l] + 1 \in Nat /\ ran[l] + 1 <= Len(running[l])
      BY <2>1, <3>1
    <3> QED BY <1>1, <2>1, <2>2, <3>1, <3>2, QueueRuns
  <2>3. CASE l # k
    <3>1. ran'[l] = ran[l]
      BY <2>3 DEF Runs, QueueTypes
    <3> QED BY <2>1, <2>3, <3>1
  <2> QED BY <2>2, <2>3
<1>3. running' = running
  BY DEF Runs
<1>4. QueueTypes'
  <2>1. ran' = [l \in Loops |-> ran'[l]]
    BY DEF Runs, QueueTypes
  <2> QED BY <1>2, <1>3, <2>1 DEF QueueTypes
<1>5. ASSUME NEW l \in Loops, NEW c \in Conns, NEW f \in Calls
      PROVE  /\ Queued(l, f, c) <=> Queued(l, f, c)' \/ <<l, f, c>> \in {<<k, g, d>>}
             /\ f # "forceCloseInLoop" => Once(l, f, c)'
             /\ f # "forceCloseInLoop" /\ <<l, f, c>> \in {<<k, g, d>>} => ~Queued(l, f, c)'
  <2>1. Functor(f, c) = G <=> f = g /\ c = d
    BY FunctorIs
  <2>2. <<l, f, c>> \in {<<k, g, d>>} <=> l = k /\ Functor(f, c) = G
    BY <2>1
  <2>3. f # "forceCloseInLoop" => Once(l, f, c)
    BY DEF FunctorsInv
  <2> HIDE DEF G
  <2> QED BY <1>2, <1>3, <2>2, <2>3 DEF Queued, Once
<1>6. Queued(k, g, d)
  BY <1>5
<1> QED BY <1>4, <1>5, <1>6 DEF QueueEffect, Calls

(* and running one that queues another.                                     *)
LEMMA RunAppendEffect ==
    ASSUME QueueTypes, FunctorsInv, NEW k \in Loops, NEW g \in Calls, NEW d \in Conns,
           Runs(k, g, d),
           NEW m \in Loops, NEW h \in Calls, NEW e \in Conns, Queue(m, h, e),
           h # "forceCloseInLoop", ~Queued(m, h, e)
    PROVE  /\ QueueTypes' /\ Queued(k, g, d)
           /\ QueueEffect({<<k, g, d>>}, {<<m, h, e>>})
<1> DEFINE G == Functor(g, d)
           H == Functor(h, e)
<1>1. G \in Functors /\ H \in Functors
  BY FunctorIs
<1>2. ASSUME NEW l \in Loops
      PROVE  /\ ran'[l] \in Nat /\ ran'[l] <= Len(running[l])
             /\ \A f : InQueue(running[l], ran[l], pending[l], f) <=>
                   InQueue(running[l], ran'[l], pending[l], f) \/ (l = k /\ f = G)
             /\ \A f : Single(running[l], ran[l], pending[l], f)
                       => Single(running[l], ran'[l], pending[l], f)
             /\ l = k /\ Single(running[l], ran[l], pending[l], G)
                       => ~InQueue(running[l], ran'[l], pending[l], G)
  <2>1. running[l] \in Seq(Functors) /\ pending[l] \in Seq(Functors) /\ ran[l] \in Nat
        /\ ran[l] <= Len(running[l])
    BY DEF QueueTypes
  <2>2. CASE l = k
    <3>1. ran'[l] = ran[l] + 1 /\ ran[l] < Len(running[l]) /\ running[l][ran[l] + 1] = G
      BY <2>2 DEF Runs, QueueTypes
    <3> HIDE DEF G
    <3>2. ran[l] + 1 \in Nat /\ ran[l] + 1 <= Len(running[l])
      BY <2>1, <3>1
    <3> QED BY <1>1, <2>1, <2>2, <3>1, <3>2, QueueRuns
  <2>3. CASE l # k
    <3>1. ran'[l] = ran[l]
      BY <2>3 DEF Runs, QueueTypes
    <3> QED BY <2>1, <2>3, <3>1
  <2> QED BY <2>2, <2>3
<1>3. ASSUME NEW l \in Loops
      PROVE  /\ pending'[l] \in Seq(Functors)
             /\ \A f : InQueue(running[l], ran'[l], pending'[l], f) <=>
                   InQueue(running[l], ran'[l], pending[l], f) \/ (l = m /\ f = H)
             /\ \A f : Single(running[l], ran'[l], pending[l], f) /\
                     (f = H /\ l = m => ~InQueue(running[l], ran'[l], pending[l], f))
                       => Single(running[l], ran'[l], pending'[l], f)
  <2>1. running[l] \in Seq(Functors) /\ pending[l] \in Seq(Functors) /\ ran'[l] \in Nat
    BY <1>2 DEF QueueTypes
  <2>2. CASE l = m
    <3>1. pending'[l] = Append(pending[l], H)
      BY <2>2 DEF Queue, QueueTypes
    <3> HIDE DEF G, H
    <3> QED BY <1>1, <2>1, <2>2, <3>1, QueueAppends
  <2>3. CASE l # m
    <3>1. pending'[l] = pending[l]
      BY <2>3 DEF Queue, QueueTypes
    <3> QED BY <2>1, <2>3, <3>1
  <2> QED BY <2>2, <2>3
<1>4. running' = running
  BY DEF Runs
<1>5. QueueTypes'
  <2>1. ran' = [l \in Loops |-> ran'[l]] /\ pending' = [l \in Loops |-> pending'[l]]
    BY DEF Runs, Queue, QueueTypes
  <2> QED BY <1>2, <1>3, <1>4, <2>1 DEF QueueTypes
<1>6. ASSUME NEW l \in Loops, NEW c \in Conns, NEW f \in Calls
      PROVE  /\ f # "forceCloseInLoop" => Once(l, f, c)'
             /\ f # "forceCloseInLoop" =>
                  (Queued(l, f, c)' <=>
                    \/ Queued(l, f, c) /\ <<l, f, c>> \notin {<<k, g, d>>}
                    \/ <<l, f, c>> \in {<<m, h, e>>})
             /\ Queued(l, f, c)' => Queued(l, f, c) \/ <<l, f, c>> \in {<<m, h, e>>}
             /\ <<l, f, c>> \in {<<k, g, d>>} => Queued(l, f, c)
  <2>1. Functor(f, c) = G <=> f = g /\ c = d
    BY FunctorIs
  <2>2. Functor(f, c) = H <=> f = h /\ c = e
    BY FunctorIs
  <2>3. /\ <<l, f, c>> \in {<<k, g, d>>} <=> l = k /\ Functor(f, c) = G
        /\ <<l, f, c>> \in {<<m, h, e>>} <=> l = m /\ Functor(f, c) = H
    BY <2>1, <2>2
  <2>4. f # "forceCloseInLoop" => Once(l, f, c)
    BY DEF FunctorsInv
  <2>5. l = m /\ Functor(f, c) = H => ~Queued(l, f, c)
    BY <2>2
  <2> HIDE DEF G, H
  <2> QED BY <1>2, <1>3, <1>4, <2>3, <2>4, <2>5 DEF Queued, Once
<1>7. Queued(k, g, d)
  BY <1>6
<1> QED BY <1>5, <1>6, <1>7 DEF QueueEffect, Calls

(* doPendingFunctors runs and queues nothing when it takes the functors,    *)
LEMMA TakeEffect ==
    ASSUME QueueTypes, FunctorsInv, NEW k \in Loops, TakeFunctors(k), LoopInv
    PROVE  QueueTypes' /\ QueueEffect({}, {})
<1>1. ASSUME NEW l \in Loops
      PROVE  /\ pending'[l] \in Seq(Functors) /\ running'[l] \in Seq(Functors)
             /\ ran[l] <= Len(running'[l])
             /\ \A f : InQueue(running'[l], ran[l], pending'[l], f) <=>
                   InQueue(running[l], ran[l], pending[l], f)
             /\ \A f : Single(running[l], ran[l], pending[l], f)
                       => Single(running'[l], ran[l], pending'[l], f)
  <2>1. running[l] \in Seq(Functors) /\ pending[l] \in Seq(Functors) /\ ran[l] \in Nat
        /\ ran[l] <= Len(running[l])
    BY DEF QueueTypes
  <2>2. CASE l = k
    <3>1. running[l] = <<>> /\ ran[l] = 0
      BY <2>2 DEF TakeFunctors, LoopInv
    <3>2. running'[l] = pending[l] /\ pending'[l] = <<>>
      BY <2>2 DEF TakeFunctors, QueueTypes
    <3> QED BY <2>1, <3>1, <3>2, QueueTaken
  <2>3. CASE l # k
    <3>1. running'[l] = running[l] /\ pending'[l] = pending[l]
      BY <2>3 DEF TakeFunctors, QueueTypes
    <3> QED BY <2>1, <3>1
  <2> QED BY <2>2, <2>3
<1>2. ran' = ran
  BY DEF TakeFunctors
<1>3. QueueTypes'
  <2>1. running' = [l \in Loops |-> running'[l]] /\ pending' = [l \in Loops |-> pending'[l]]
    BY DEF TakeFunctors, QueueTypes
  <2> QED BY <1>1, <1>2, <2>1 DEF QueueTypes
<1>4. ASSUME NEW l \in Loops, NEW c \in Conns, NEW f \in Calls
      PROVE  /\ Queued(l, f, c)' <=> Queued(l, f, c)
             /\ f # "forceCloseInLoop" => Once(l, f, c)'
  <2>1. f # "forceCloseInLoop" => Once(l, f, c)
    BY DEF FunctorsInv
  <2> QED BY <1>1, <1>2, <2>1 DEF Queued, Once
<1> QED BY <1>3, <1>4 DEF QueueEffect, Calls

(* or when it has run the last.                                             *)
LEMMA DropEffect ==
    ASSUME QueueTypes, FunctorsInv, NEW k \in Loops, DropFunctors(k)
    PROVE  QueueTypes' /\ QueueEffect({}, {})
<1>1. ASSUME NEW l \in Loops
      PROVE  /\ running'[l] \in Seq(Functors)
             /\ ran'[l] \in Nat /\ ran'[l] <= Len(running'[l])
             /\ \A f : InQueue(running'[l], ran'[l], pending[l], f) <=>
                   InQueue(running[l], ran[l], pending[l], f)
             /\ \A f : Single(running[l], ran[l], pending[l], f)
                       => Single(running'[l], ran'[l], pending[l], f)
  <2>1. running[l] \in Seq(Functors) /\ pending[l] \in Seq(Functors) /\ ran[l] \in Nat
        /\ ran[l] <= Len(running[l])
    BY DEF QueueTypes
  <2>2. CASE l = k
    <3>1. ran[l] = Len(running[l])
      BY <2>2 DEF DropFunctors
    <3>2. running'[l] = <<>> /\ ran'[l] = 0
      BY <2>2 DEF DropFunctors, QueueTypes
    <3> QED BY <2>1, <3>1, <3>2, QueueDropped
  <2>3. CASE l # k
    <3>1. running'[l] = running[l] /\ ran'[l] = ran[l]
      BY <2>3 DEF DropFunctors, QueueTypes
    <3> QED BY <2>1, <3>1
  <2> QED BY <2>2, <2>3
<1>2. pending' = pending
  BY DEF DropFunctors
<1>3. QueueTypes'
  <2>1. running' = [l \in Loops |-> running'[l]] /\ ran' = [l \in Loops |-> ran'[l]]
    BY DEF DropFunctors, QueueTypes
  <2> QED BY <1>1, <1>2, <2>1 DEF QueueTypes
<1>4. ASSUME NEW l \in Loops, NEW c \in Conns, NEW f \in Calls
      PROVE  /\ Queued(l, f, c)' <=> Queued(l, f, c)
             /\ f # "forceCloseInLoop" => Once(l, f, c)'
  <2>1. f # "forceCloseInLoop" => Once(l, f, c)
    BY DEF FunctorsInv
  <2> QED BY <1>1, <1>2, <2>1 DEF Queued, Once
<1> QED BY <1>3, <1>4 DEF QueueEffect, Calls

(* Functors stay where they belong, and those that are added are put there. *)
LEMMA FunctorsStep ==
    ASSUME FunctorsInv, NEW done, NEW added, QueueEffect(done, added),
           \A c \in Conns : Exists(c) => Exists(c)' /\ conn'[c].loop = conn[c].loop,
           \A l \in Loops, f \in Calls, c \in Conns : <<l, f, c>> \in added =>
              /\ Exists(c)'
              /\ IF f = "removeConnectionInLoop" THEN l = Base /\ conn'[c].loop # Base
                                                 ELSE conn'[c].loop = l
    PROVE  FunctorsInv'
<1> SUFFICES ASSUME NEW l \in Loops, NEW c \in Conns
             PROVE  /\ \A f \in {"connectEstablished", "connectDestroyed", "forceCloseInLoop"} :
                          Queued(l, f, c)' => Exists(c)' /\ conn'[c].loop = l
                    /\ Queued(l, "removeConnectionInLoop", c)' =>
                          l = Base /\ Exists(c)' /\ conn'[c].loop # Base
                    /\ \A f \in Calls \ {"forceCloseInLoop"} : Once(l, f, c)'
  BY DEF FunctorsInv
<1>1. \A f \in Calls : Queued(l, f, c)' => Queued(l, f, c) \/ <<l, f, c>> \in added
  BY DEF QueueEffect
<1>2. \A f \in {"connectEstablished", "connectDestroyed", "forceCloseInLoop"} :
          Queued(l, f, c) => Exists(c) /\ conn[c].loop = l
  BY DEF FunctorsInv
<1>3. Queued(l, "removeConnectionInLoop", c) => l = Base /\ Exists(c) /\ conn[c].loop # Base
  BY DEF FunctorsInv
<1>4. \A f \in Calls \ {"forceCloseInLoop"} : Once(l, f, c)'
  BY DEF QueueEffect
<1> HIDE DEF Calls
<1>5. "removeConnectionInLoop" \in Calls /\ {"connectEstablished", "connectDestroyed", "forceCloseInLoop"} \subseteq Calls
  BY DEF Calls
<1> QED BY <1>1, <1>2, <1>3, <1>4, <1>5

(* The connections that are not touched.                                    *)
Untouched(c) ==
    /\ conn'[c] = conn[c]
    /\ c \in connections' <=> c \in connections

(* No functor of c is run or queued.                                        *)
Unqueued(done, added, c) ==
    \A l \in Loops, f \in Calls \ {"forceCloseInLoop"} :
        <<l, f, c>> \notin done \union added

(* A step that leaves a connection and its functors alone leaves it where it *)
(* is:                                                                      *)
LEMMA SameStage ==
    ASSUME StageInv, TypesInv, NEW done, NEW added, QueueEffect(done, added), NEW c \in Conns,
           Untouched(c), Unqueued(done, added, c)
    PROVE  /\ \A f \in Calls \ {"forceCloseInLoop"}, l \in Loops : Queued(l, f, c)' <=> Queued(l, f, c)
           /\ Closing(c)' <=> Closing(c)
           /\ \A l \in Loops : IndexOf(l, c)' = IndexOf(l, c)
<1>1. \A f \in Calls \ {"forceCloseInLoop"}, l \in Loops : Queued(l, f, c)' <=> Queued(l, f, c)
  BY DEF QueueEffect, Unqueued
<1>2. conn[c].loop \in Loops /\ conn'[c].loop = conn[c].loop
  BY DEF TypesInv, TypeOK, Untouched
<1>3. Closing(c)' <=> Closing(c)
  BY <1>1, <1>2 DEF Closing, Untouched, Calls
<1> QED BY <1>1, <1>3 DEF IndexOf, Untouched, Open

(* at its stage,                                                            *)
LEMMA StageKept ==
    ASSUME StageInv, TypesInv, setup' = setup, NEW done, NEW added, QueueEffect(done, added),
           NEW c \in Conns, Untouched(c), Unqueued(done, added, c)
    PROVE  StageOf(c)'
<1>1. conn[c].loop \in Loops /\ Base \in Loops
  BY DEF TypesInv, TypeOK, Loops
<1>2. StageOf(c)
  BY DEF StageInv, StageOf
<1>3. \A f \in Calls \ {"forceCloseInLoop"}, l \in Loops : Queued(l, f, c)' <=> Queued(l, f, c)
  BY SameStage
<1> QED BY <1>1, <1>2, <1>3 DEF StageOf, Untouched, Open, Calls

(* What the poller of l should know of c has not changed.                   *)
SameAt(l, c) ==
    /\ IndexOf(l, c)' = IndexOf(l, c)
    /\ conn'[c].loop = l /\ Closing(c)' => conn[c].loop = l /\ Closing(c)
    /\ IndexOf(l, c) # "kNew" => conn'[c].fd = conn[c].fd

(* Nor of any channel.                                                      *)
KeepsIndex(l) ==
    /\ \A c \in Conns : SameAt(l, c)
    /\ ListenerIndex(l)' = ListenerIndex(l)

(* The descriptors of the channels, before and after a step.                *)
LEMMA FdsAre ==
    /\ Fds[Listener] = ListenFd /\ Fds'[Listener] = ListenFd
    /\ \A c \in Conns : Fds[c] = conn[c].fd /\ Fds'[c] = conn'[c].fd
<1>1. Listener \notin Conns
  BY DEF Listener, Conns
<1> QED BY <1>1 DEF Fds, FdOf, Channels

(* A poller that a step leaves alone stays right when what it should know   *)
(* does.                                                                    *)
LEMMA PollerKept ==
    ASSUME TypesInv, NEW l \in Loops, PollerOf(l), KeepsIndex(l), poller'[l] = poller[l]
    PROVE  PollerOf(l)'
<1>1. poller[l] \in Pollers
  BY DEF TypesInv
<1>2. \A c \in Conns : poller[l].index[c] # "kNew" => Fds'[c] = Fds[c]
  BY FdsAre DEF PollerOf, KeepsIndex, SameAt
<1>3. Wired(poller[l], Fds)
  BY DEF PollerOf
<1>4. \A c \in Channels : poller[l].index[c] # "kNew" => Fds'[c] = Fds[c]
  BY <1>2, FdsAre DEF Channels
<1> HIDE DEF Fds
<1>5. Wired(poller[l], Fds')
  BY <1>1, <1>3, <1>4, OtherDescriptors
<1> QED BY <1>5 DEF PollerOf, KeepsIndex, SameAt

(* and what its pollers should know of it.                                  *)
LEMMA KeepsAt ==
    ASSUME StageInv, TypesInv, NEW done, NEW added, QueueEffect(done, added), NEW c \in Conns,
           Untouched(c), Unqueued(done, added, c), NEW l \in Loops
    PROVE  SameAt(l, c)
<1>1. (Closing(c)' <=> Closing(c)) /\ IndexOf(l, c)' = IndexOf(l, c)
  BY SameStage
<1> QED BY <1>1 DEF Untouched, SameAt

(* The listening channel is not a connection's.                             *)
LEMMA ConnectionsApart == Listener \notin Conns /\ Listener \in Channels /\ Conns \subseteq Channels
BY DEF Listener, Conns, Channels

(* A step that touches one connection, and the poller of one loop.          *)
OnlyTouches(c, done, added) ==
    \A d \in Conns \ {c} : Untouched(d) /\ Unqueued(done, added, d)

(* q is right about connection c after the step.                            *)
Shows(q, l, c) ==
    /\ Wired(q, Fds')
    /\ q.index[c] = IndexOf(l, c)'
    /\ conn'[c].loop = l /\ Closing(c)' => q.events[c] = {}

(* A step that updates the poller of one loop for one connection keeps all  *)
(* the pollers right.                                                       *)
LEMMA PollerOne ==
    ASSUME TypesInv, StageInv, PollerInv, NEW done, NEW added, QueueEffect(done, added),
           NEW c \in Conns, OnlyTouches(c, done, added), phase' = phase,
           NEW l \in Loops, NEW q \in Pollers, poller' = [poller EXCEPT ![l] = q],
           \A k \in Loops \ {l} : SameAt(k, c),
           \A d \in Channels \ {c} : /\ q.index[d] = poller[l].index[d]
                                    /\ q.events[d] = poller[l].events[d],
           Shows(q, l, c)
    PROVE  PollerInv' /\ poller' \in [Loops -> Pollers]
<1>1. /\ poller \in [Loops -> Pollers] /\ poller'[l] = q
      /\ \A k \in Loops : k # l => poller'[k] = poller[k]
  BY DEF TypesInv
<1>2. \A k \in Loops : ListenerIndex(k)' = ListenerIndex(k)
  BY DEF ListenerIndex
<1>3. \A k \in Loops, d \in Conns : d # c => SameAt(k, d)
  BY KeepsAt DEF OnlyTouches
<1>4. ASSUME NEW k \in Loops, k # l PROVE PollerOf(k)'
  <2>1. KeepsIndex(k)
    BY <1>2, <1>3, <1>4 DEF KeepsIndex
  <2> QED BY <1>1, <1>4, <2>1, PollerKept DEF PollerInv
<1>5. PollerOf(l)'
  <2>1. /\ \A d \in Conns : poller[l].index[d] = IndexOf(l, d) /\ d \in Channels
        /\ \A d \in Conns : conn[d].loop = l /\ Closing(d) => poller[l].events[d] = {}
        /\ poller[l].index[Listener] = ListenerIndex(l)
    BY ConnectionsApart DEF PollerInv, PollerOf
  <2>2. \A d \in Conns : q.index[d] = IndexOf(l, d)'
    BY <1>3, <2>1 DEF SameAt, Shows
  <2>3. \A d \in Conns : conn'[d].loop = l /\ Closing(d)' => q.events[d] = {}
    BY <1>3, <2>1 DEF SameAt, Shows
  <2>4. q.index[Listener] = ListenerIndex(l)'
    BY <1>2, <2>1, ConnectionsApart
  <2> QED BY <1>1, <2>2, <2>3, <2>4 DEF PollerOf, Shows
<1> QED BY <1>1, <1>4, <1>5 DEF PollerInv

(* So does one that changes what no poller knows.                           *)
LEMMA PollersKept ==
    ASSUME TypesInv, StageInv, PollerInv, NEW done, NEW added, QueueEffect(done, added),
           NEW c \in Conns, OnlyTouches(c, done, added), poller' = poller,
           phase \in {"started", "destroying"} <=> phase' \in {"started", "destroying"},
           \A k \in Loops : SameAt(k, c)
    PROVE  PollerInv'
<1>1. ASSUME NEW k \in Loops PROVE KeepsIndex(k)
  <2>1. \A d \in Conns : d # c => SameAt(k, d)
    BY KeepsAt DEF OnlyTouches
  <2>2. ListenerIndex(k)' = ListenerIndex(k)
    BY DEF ListenerIndex
  <2> QED BY <2>1, <2>2 DEF KeepsIndex
<1> QED BY <1>1, PollerKept DEF PollerInv

(* A step that touches one connection has only its stage to answer for.     *)
LEMMA StagesKept ==
    ASSUME StageInv, TypesInv, setup' = setup, NEW done, NEW added, QueueEffect(done, added),
           NEW c \in Conns, OnlyTouches(c, done, added), StageOf(c)'
    PROVE  StageInv'
<1>1. \A d \in Conns : d # c => StageOf(d)'
  BY StageKept DEF OnlyTouches
<1> QED BY <1>1 DEF StageInv

(* A connection that closes: TcpConnection::handleClose.                    *)
LEMMA CloseKeeps ==
    ASSUME ServerInv, NEW l \in Loops, NEW c \in Conns, HandleClose(l, c), Open(c), conn[c].loop = l,
           NEW done, \A d \in Conns : Unqueued(done, {}, d),
           QueueEffect(done, IF l = Base THEN {<<Base, "connectDestroyed", c>>}
                                         ELSE {<<Base, "removeConnectionInLoop", c>>}),
           UNCHANGED <<setup, phase>>
    PROVE  FunctorsInv' /\ StageInv' /\ PollerInv' /\ poller' \in [Loops -> Pollers]
<1> DEFINE added == IF l = Base THEN {<<Base, "connectDestroyed", c>>}
                                ELSE {<<Base, "removeConnectionInLoop", c>>}
<1>0. /\ TypesInv /\ FunctorsInv /\ StageInv /\ PollerInv /\ Base \in Loops
      /\ conn \in [Conns -> [state : {"none", "kConnecting", "kConnected",
                                    "kDisconnecting", "kDisconnected"},
                           loop : Loops, fd : 0..MaxFds]]
  BY DEF ServerInv, TypesInv, TypeOK, Loops
<1>1. conn' = [conn EXCEPT ![c].state = "kDisconnected"]
  BY DEF HandleClose
<1>2. /\ conn'[c].state = "kDisconnected" /\ conn'[c].loop = l /\ conn'[c].fd = conn[c].fd
      /\ \A d \in Conns : d # c => conn'[d] = conn[d]
  BY <1>0, <1>1
<1>3. connections' = IF l = Base THEN connections \ {c} ELSE connections
  BY <1>0 DEF HandleClose, RemoveConnectionInLoop
<1>4. \A d \in Conns : d # c => Untouched(d) /\ Unqueued(done, added, d)
  BY <1>2, <1>3 DEF Untouched, Unqueued
<1>5. FunctorsInv'
  <2>1. \A d \in Conns : Exists(d) => Exists(d)' /\ conn'[d].loop = conn[d].loop
    BY <1>2 DEF Exists
  <2>2. Exists(c)' /\ conn'[c].loop = l
    BY <1>2 DEF Exists
  <2> QED BY <1>0, <2>1, <2>2, FunctorsStep
<1>6. StageOf(c) /\ c \in connections
  BY <1>0 DEF StageInv, StageOf
<1>7. /\ ~Queued(l, "connectEstablished", c) /\ ~Queued(Base, "removeConnectionInLoop", c)
      /\ ~Queued(l, "connectDestroyed", c)
  BY <1>6 DEF StageOf, Open
<1>8. /\ Queued(l, "connectEstablished", c)' <=> FALSE
      /\ Queued(Base, "removeConnectionInLoop", c)' <=> l # Base
      /\ Queued(l, "connectDestroyed", c)' <=> l = Base
  <2>1. \A k \in Loops, f \in Calls \ {"forceCloseInLoop"} : <<k, f, c>> \notin done
    BY DEF Unqueued
  <2>2. \A k \in Loops, f \in Calls \ {"forceCloseInLoop"} :
           Queued(k, f, c)' <=> Queued(k, f, c) \/ <<k, f, c>> \in added
    BY <2>1 DEF QueueEffect
  <2>3. \A k \in Loops, f \in Calls : <<k, f, c>> \in added <=>
           k = Base /\ f = IF l = Base THEN "connectDestroyed" ELSE "removeConnectionInLoop"
    OBVIOUS
  <2> HIDE DEF added
  <2>4. {"connectEstablished", "removeConnectionInLoop", "connectDestroyed"}
           \subseteq Calls \ {"forceCloseInLoop"}
    BY DEF Calls
  <2> QED BY <1>0, <1>7, <2>2, <2>3, <2>4
<1>9. StageInv'
  <2>1. \A d \in Conns : d # c => StageOf(d)'
    BY <1>0, <1>4, StageKept
  <2>2. StageOf(c)'
    BY <1>2, <1>3, <1>6, <1>8 DEF StageOf, Open
  <2> QED BY <2>1, <2>2 DEF StageInv
<1>10. Closing(c)'
  BY <1>2, <1>3, <1>6, <1>8 DEF Closing
<1>11. /\ IndexOf(l, c) = "kAdded" /\ IndexOf(l, c)' = "kDeleted"
       /\ \A k \in Loops : k # l => IndexOf(k, c)' = "kNew" /\ IndexOf(k, c) = "kNew"
  BY <1>2, <1>10 DEF IndexOf, Open
<1>12. PollerInv' /\ poller' \in [Loops -> Pollers]
  <2> DEFINE q == Poller!UpdateChannel(poller[l], c, conn[c].fd, {})
  <2>1. poller' = [poller EXCEPT ![l] = q] /\ poller[l] \in Pollers /\ poller \in [Loops -> Pollers]
    BY <1>0 DEF HandleClose, TypesInv
  <2>2. c \in Channels /\ Fds[c] = conn[c].fd /\ Wired(poller[l], Fds) /\ poller[l].index[c] = "kAdded"
    BY <1>0, <1>11, FdsAre DEF PollerInv, PollerOf, Channels
  <2>3. /\ q \in Pollers /\ Wired(q, Fds)
        /\ q.index = [poller[l].index EXCEPT ![c] = "kDeleted"]
        /\ q.events = [poller[l].events EXCEPT ![c] = {}]
    <3> HIDE DEF Fds
    <3>1. q = Poller!UpdateChannel(poller[l], c, Fds[c], {})
      BY <2>2
    <3>2. /\ poller[l] \in Pollers /\ Wired(poller[l], Fds)
          /\ c \in Channels /\ poller[l].index[c] = "kAdded"
      BY <2>1, <2>2
    <3> HIDE DEF q, added
    <3>3. IsUpdate(poller[l], Fds, c, "kDeleted", {}, q)
      BY <3>1, <3>2, DisableChannel
    <3> QED BY <3>3 DEF IsUpdate
  <2> HIDE DEF q
  <2>4. OnlyTouches(c, done, added) /\ QueueEffect(done, added) /\ phase' = phase
    BY <1>4 DEF OnlyTouches
  <2>5. \A k \in Loops \ {l} : SameAt(k, c)
    BY <1>2, <1>11 DEF SameAt
  <2>6. Wired(q, Fds')
    <3>1. \A d \in Channels : Fds'[d] = Fds[d]
      <4>1. \A d \in Conns : conn'[d].fd = conn[d].fd
        BY <1>2
      <4> QED BY <4>1, FdsAre DEF Channels
    <3> HIDE DEF Fds
    <3> QED BY <2>3, <3>1, OtherDescriptors
  <2>7. /\ \A d \in Channels \ {c} : /\ q.index[d] = poller[l].index[d]
                                     /\ q.events[d] = poller[l].events[d]
        /\ q.index[c] = "kDeleted" /\ q.events[c] = {}
    BY <2>1, <2>2, <2>3, PollerFields
  <2>8. /\ q \in Pollers /\ poller' = [poller EXCEPT ![l] = q]
        /\ Shows(q, l, c)
    BY <1>11, <2>1, <2>3, <2>6, <2>7 DEF Shows
  <2> HIDE DEF added, Fds
  <2> QED BY <1>0, <2>4, <2>5, <2>7, <2>8, PollerOne
<1> QED BY <1>5, <1>9, <1>12

-----------------------------------------------------------------------------
(* A queued functor keeps its connection alive,                             *)
LEMMA QueuedAlive ==
    ASSUME NEW l \in Loops, NEW f \in Calls, NEW c \in Conns, Queued(l, f, c)
    PROVE  Alive(c)
BY FunctorIs DEF Queued, InQueue, Alive

(* and so does whatever keeps its channel in a poller.                      *)
LEMMA KnownAlive ==
    ASSUME TypesInv, StageInv, NEW l \in Loops, NEW c \in Conns, IndexOf(l, c) # "kNew"
    PROVE  Alive(c) /\ Exists(c)
<1>1. Open(c) \/ Closing(c)
  BY DEF IndexOf
<1>2. CASE c \in connections
  BY <1>1, <1>2 DEF Alive, Open, Closing, Exists
<1>3. CASE c \notin connections
  <2>1. Closing(c) /\ Queued(conn[c].loop, "connectDestroyed", c)
    BY <1>1, <1>3 DEF StageInv, StageOf, Closing
  <2>2. conn[c].loop \in Loops /\ "connectDestroyed" \in Calls
    BY DEF TypesInv, TypeOK, Calls
  <2> QED BY <2>1, <2>2, QueuedAlive DEF Closing, Exists
<1> QED BY <1>2, <1>3

(* A poller has no entry for a descriptor nobody else has. *)
LEMMA NoEntry ==
    ASSUME TypesInv, StageInv, NEW l \in Loops, PollerOf(l), NEW fd \in 2..MaxFds,
           \A d \in Conns : Exists(d) /\ Alive(d) /\ conn[d].fd = fd => IndexOf(l, d) = "kNew"
    PROVE  fd \notin DOMAIN poller[l].channels
<1> SUFFICES ASSUME fd \in DOMAIN poller[l].channels PROVE FALSE
  OBVIOUS
<1> DEFINE d == poller[l].channels[fd]
<1>1. poller[l] \in Pollers
  BY DEF TypesInv
<1>2. d \in Channels /\ Fds[d] = fd /\ poller[l].index[d] # "kNew"
  BY <1>1, PollerFields DEF PollerOf, Wired
<1>3. d # Listener
  <2>1. fd # ListenFd
    BY DEF ListenFd
  <2> QED BY <1>2, <2>1, FdsAre
<1>4. d \in Conns /\ conn[d].fd = fd /\ IndexOf(l, d) # "kNew"
  BY <1>2, <1>3, FdsAre DEF Channels, PollerOf
<1> HIDE DEF d
<1>5. Alive(d) /\ Exists(d)
  BY <1>4, KnownAlive
<1> QED BY <1>4, <1>5

(* Nothing comes back to life: not when the queues stay,                    *)
LEMMA AliveSame ==
    ASSUME NEW c, c \in connections' => c \in connections, UNCHANGED <<pending, running>>, Alive(c)',
           c \in handling' => c \in handling \union connections
    PROVE  Alive(c)
BY DEF Alive

(* when a functor of a living connection is queued,                         *)
LEMMA AliveAppend ==
    ASSUME QueueTypes, running' = running,
           NEW k \in Loops, NEW g \in Calls, NEW d \in Conns, Queue(k, g, d),
           NEW c \in Conns, c \in connections' => c \in connections, c = d => Alive(c), Alive(c)',
           c \in handling' => c \in handling \union connections
    PROVE  Alive(c)
<1>1. CASE \/ c \in connections' \/ c \in handling'
           \/ \E l \in Loops : \E i \in DOMAIN running'[l] : running'[l][i].conn = c
  BY <1>1 DEF Alive
<1>2. ASSUME NEW l \in Loops, NEW i \in DOMAIN pending'[l], pending'[l][i].conn = c
      PROVE  Alive(c)
  <2>1. CASE l # k
    <3>1. pending'[l] = pending[l]
      BY <2>1 DEF Queue, QueueTypes
    <3> QED BY <1>2, <3>1 DEF Alive
  <2>2. CASE l = k
    <3>1. pending'[l] = Append(pending[l], Functor(g, d)) /\ pending[l] \in Seq(Functors)
      BY <2>2 DEF Queue, QueueTypes
    <3>2. CASE i \in DOMAIN pending[l]
      <4>1. pending'[l][i] = pending[l][i]
        BY <3>1, <3>2
      <4> QED BY <1>2, <3>2, <4>1 DEF Alive
    <3>3. CASE i \notin DOMAIN pending[l]
      <4>1. pending'[l][i] = Functor(g, d)
        BY <1>2, <3>1, <3>3
      <4> QED BY <1>2, <4>1, FunctorIs
    <3> QED BY <3>2, <3>3
  <2> QED BY <2>1, <2>2
<1> QED BY <1>1, <1>2 DEF Alive

(* when the functors are taken,                                             *)
LEMMA AliveTaken ==
    ASSUME QueueTypes, NEW k \in Loops, TakeFunctors(k), NEW c, Alive(c)'
    PROVE  Alive(c)
<1>1. ASSUME NEW l \in Loops
      PROVE  /\ pending'[l] = pending[l] \/ DOMAIN pending'[l] = {}
             /\ running'[l] = running[l] \/ running'[l] = pending[l]
  BY DEF TakeFunctors, QueueTypes
<1>2. connections' = connections /\ handling' = handling
  BY DEF TakeFunctors, serverVars
<1> QED BY <1>1, <1>2 DEF Alive

(* or when the last has been run.                                           *)
LEMMA AliveDropped ==
    ASSUME QueueTypes, NEW k \in Loops, DropFunctors(k), NEW c, Alive(c)'
    PROVE  Alive(c)
<1>1. ASSUME NEW l \in Loops
      PROVE  running'[l] = running[l] \/ DOMAIN running'[l] = {}
  BY DEF DropFunctors, QueueTypes
<1>2. connections' = connections /\ pending' = pending /\ handling' = handling
  BY DEF DropFunctors, serverVars, eventVars
<1> QED BY <1>1, <1>2 DEF Alive

(* Descriptors stay apart when no connection comes back to life or changes  *)
(* its own.                                                                 *)
LEMMA FdsKept ==
    ASSUME FdsInv, \A c \in Conns : Exists(c)' /\ Alive(c)' =>
                       Exists(c) /\ Alive(c) /\ conn'[c].fd = conn[c].fd
    PROVE  FdsInv'
BY DEF FdsInv

(* A step that changes nothing of connections, functors and pollers.        *)
LEMMA SameKeeps ==
    ASSUME ServerInv, QueueEffect({}, {}), UNCHANGED <<setup, conn, connections, poller>>,
           phase \in {"started", "destroying"} <=> phase' \in {"started", "destroying"},
           \A c \in Conns : Alive(c)' => Alive(c)
    PROVE  FunctorsInv' /\ StageInv' /\ PollerInv' /\ FdsInv'
<1>0. TypesInv /\ FunctorsInv /\ StageInv /\ PollerInv /\ FdsInv
  BY DEF ServerInv
<1>1. \A c \in Conns : Untouched(c) /\ Unqueued({}, {}, c) /\ (Exists(c)' <=> Exists(c))
  BY DEF Untouched, Unqueued, Exists
<1>2. FunctorsInv'
  BY <1>0, <1>1, FunctorsStep DEF Untouched
<1>3. StageInv'
  BY <1>0, <1>1, StageKept DEF StageInv
<1>4. ASSUME NEW l \in Loops PROVE PollerOf(l)'
  <2>1. \A c \in Conns : SameAt(l, c)
    BY <1>0, <1>1, KeepsAt
  <2>2. ListenerIndex(l)' = ListenerIndex(l)
    BY DEF ListenerIndex
  <2> QED BY <1>0, <2>1, <2>2, PollerKept DEF KeepsIndex, PollerInv
<1>5. FdsInv'
  BY <1>0, <1>1, FdsKept DEF Untouched
<1> QED BY <1>2, <1>3, <1>4, <1>5 DEF PollerInv

(* The queues have their types.                                             *)
LEMMA QueueTypesHold == TypesInv /\ LoopInv => QueueTypes
BY DEF TypesInv, LoopInv, QueueTypes, TypeOK

(* The parts of a setup.                                                    *)
LEMMA SetupIs ==
    ASSUME TypesInv
    PROVE  /\ setup.threads \in 0..Len(IoLoops) /\ setup.fds \in 3..MaxFds
           /\ setup.clients \in Nat /\ setup.clients <= MaxClients /\ MaxClients \in Nat
           /\ MaxFds \in Nat
<1>1. setup \in Setups
  BY DEF TypesInv, TypeOK
<1> QED BY <1>1, SetupsAssumption, BoundsAssumption

(* The clients, and the start of the destruction.                           *)
LEMMA QuietStep ==
    ASSUME ServerInv, Clients \/ Destroy
    PROVE  ServerInv'
<1>0. TypesInv /\ LoopInv /\ FunctorsInv /\ ActiveInv
  BY DEF ServerInv
<1>1. UNCHANGED <<setup, next, accepted, connections, idleFd, conn, loopVars>>
  BY DEF Clients, ClientConnects, PeerSends, PeerCloses, Destroy, CanDestroy, serverVars
<1>2. FunctorsInv' /\ StageInv' /\ PollerInv' /\ FdsInv'
  <2>1. QueueEffect({}, {})
    BY <1>0, <1>1, NothingQueued DEF loopVars
  <2>2. phase \in {"started", "destroying"} <=> phase' \in {"started", "destroying"}
    BY DEF Clients, ClientConnects, PeerSends, PeerCloses, Destroy, CanDestroy, serverVars
  <2>3. \A c \in Conns : Alive(c)' => Alive(c)
    BY <1>1, AliveSame DEF loopVars, eventVars
  <2> QED BY <1>1, <2>1, <2>2, <2>3, SameKeeps DEF loopVars
<1>3. \/ ClientConnects /\ arrived' = arrived + 1 /\ waiting' = waiting + 1 /\ peer' = peer /\ phase' = phase
      \/ UNCHANGED <<arrived, waiting, phase>> /\ peer' \in [Conns -> [data : BOOLEAN, closed : BOOLEAN]]
      \/ Destroy /\ UNCHANGED <<arrived, waiting, peer>>
  <2>0. peer \in [Conns -> [data : BOOLEAN, closed : BOOLEAN]]
    BY <1>0 DEF TypesInv, TypeOK
  <2>1. CASE ClientConnects
    BY <2>1 DEF ClientConnects, serverVars
  <2>2. ASSUME NEW c \in Conns, PeerSends(c) \/ PeerCloses(c)
        PROVE  UNCHANGED <<arrived, waiting, phase>> /\ peer' \in [Conns -> [data : BOOLEAN, closed : BOOLEAN]]
    BY <2>0, <2>2 DEF PeerSends, PeerCloses, serverVars
  <2>3. CASE Destroy
    BY <2>3 DEF Destroy, clientVars
  <2> QED BY <2>1, <2>2, <2>3 DEF Clients
<1>4. TypesInv'
  <2>1. TypeOK'
    <3>1. phase' \in {"new", "started", "destroying", "destroyed"}
          /\ peer' \in [Conns -> [data : BOOLEAN, closed : BOOLEAN]]
      BY <1>0, <1>3 DEF TypesInv, TypeOK, Destroy
    <3> QED BY <1>0, <1>1, <3>1 DEF TypesInv, TypeOK, loopVars, eventVars
  <2>2. arrived' \in Nat /\ waiting' \in Nat /\ accepted' + waiting' <= arrived' /\ arrived' <= setup.clients
    <3>1. /\ accepted \in Nat /\ arrived \in Nat /\ waiting \in Nat /\ setup.clients \in Nat
          /\ accepted + waiting <= arrived /\ arrived <= setup.clients
      BY <1>0, SetupIs DEF TypesInv, TypeOK
    <3>2. ClientConnects => arrived < setup.clients
      BY DEF ClientConnects
    <3> QED BY <1>1, <1>3, <3>1, <3>2
  <2> QED BY <1>0, <1>1, <2>1, <2>2 DEF TypesInv, loopVars, Exists
<1>5. LoopInv'
  BY <1>0, <1>1, <1>3 DEF LoopInv, loopVars, eventVars, Destroy, CanDestroy
<1>6. ActiveInv'
  <2>0. active' = active /\ conn' = conn
    BY <1>1 DEF loopVars
  <2>1. ASSUME NEW l \in Loops, NEW i \in DOMAIN active[l]
        PROVE  Deals(l, active[l][i])'
    <3>1. Deals(l, active[l][i])
      BY <1>0 DEF ActiveInv
    <3>2. waiting > 0 => waiting' > 0
      BY <1>0, <1>3 DEF TypesInv
    <3>3. Destroy => phase = "started" /\ phase' = "destroying"
      BY DEF Destroy, CanDestroy
    <3> QED BY <1>3, <2>0, <3>1, <3>2, <3>3 DEF Deals, Open
  <2> QED BY <1>0, <2>0, <2>1 DEF ActiveInv
<1> QED BY <1>2, <1>4, <1>5, <1>6 DEF ServerInv

(* A step that updates a poller for the listening channel only keeps it     *)
(* right for the connections.                                               *)
LEMMA ListenerStep ==
    ASSUME TypesInv, NEW l \in Loops, PollerOf(l),
           \A c \in Conns : Untouched(c), UNCHANGED <<pending, running, ran>>,
           NEW q \in Pollers, Wired(q, Fds), poller'[l] = q,
           \A c \in Conns : q.index[c] = poller[l].index[c] /\ q.events[c] = poller[l].events[c],
           q.index[Listener] = ListenerIndex(l)'
    PROVE  PollerOf(l)'
<1>1. Fds' = Fds
  BY DEF Fds, FdOf, Channels, Untouched
<1>2. \A c \in Conns : /\ Closing(c)' <=> Closing(c)
                       /\ IndexOf(l, c)' = IndexOf(l, c)
  BY DEF Closing, IndexOf, Open, Queued, Untouched
<1>3. \A c \in Conns : conn'[c].loop = l /\ Closing(c)' => q.events[c] = {}
  BY <1>2 DEF PollerOf, Untouched
<1>4. \A c \in Conns : q.index[c] = IndexOf(l, c)'
  BY <1>2 DEF PollerOf
<1> QED BY <1>1, <1>3, <1>4 DEF PollerOf

(* TcpServer::start.                                                        *)
LEMMA StartStep == ASSUME ServerInv, Start PROVE ServerInv'
<1>0. TypesInv /\ LoopInv /\ FunctorsInv /\ StageInv /\ PollerInv /\ ActiveInv /\ FdsInv
  BY DEF ServerInv
<1>1. /\ phase = "new" /\ phase' = "started" /\ Base \in Loops
      /\ UNCHANGED <<setup, next, accepted, connections, idleFd, conn, pc, active,
                   polled, handling, pending, running, ran, arrived, waiting, peer>>
  BY DEF Start, eventVars, clientVars, Loops
<1>2. QueueEffect({}, {}) /\ \A c \in Conns : Untouched(c) /\ Unqueued({}, {}, c)
  BY <1>0, <1>1, NothingQueued DEF Untouched, Unqueued
<1>3. FunctorsInv'
  BY <1>0, <1>1, <1>2, FunctorsStep DEF Exists
<1>4. StageInv'
  BY <1>0, <1>1, <1>2, StageKept DEF StageInv
<1>5. FdsInv'
  <2>1. \A c \in Conns : Alive(c)' => Alive(c)
    BY <1>1, AliveSame
  <2> QED BY <1>0, <1>1, <2>1, FdsKept DEF Exists
<1>6. PollerInv' /\ poller' \in [Loops -> Pollers]
  <2> DEFINE q == Poller!UpdateChannel(poller[Base], Listener, ListenFd, {"IN"})
  <2>1. poller' = [poller EXCEPT ![Base] = q] /\ poller[Base] \in Pollers /\ poller \in [Loops -> Pollers]
    BY <1>0, <1>1 DEF Start, TypesInv
  <2>2. /\ Listener \in Channels /\ Fds[Listener] = ListenFd /\ Wired(poller[Base], Fds)
        /\ poller[Base].index[Listener] = "kNew"
    BY <1>0, <1>1, FdsAre, ConnectionsApart DEF PollerInv, PollerOf, ListenerIndex
  <2>3. ListenFd \in 0..MaxFds /\ ListenFd \notin DOMAIN poller[Base].channels
    <3>1. ASSUME ListenFd \in DOMAIN poller[Base].channels PROVE FALSE
      <4> DEFINE d == poller[Base].channels[ListenFd]
      <4>1. d \in Channels /\ Fds[d] = ListenFd /\ poller[Base].index[d] # "kNew"
        BY <2>1, <2>2, <3>1, PollerFields DEF Wired
      <4>2. d \in Conns /\ conn[d].fd = ListenFd /\ IndexOf(Base, d) # "kNew"
        BY <1>0, <1>1, <2>2, <4>1, FdsAre DEF Channels, PollerInv, PollerOf
      <4> HIDE DEF d
      <4>3. conn[d].fd \in 2..MaxFds
        BY <1>0, <1>1, <4>2, KnownAlive DEF TypesInv
      <4> QED BY <4>2, <4>3 DEF ListenFd
    <3>2. MaxFds \in Nat \ {0}
      BY BoundsAssumption
    <3> QED BY <3>1, <3>2 DEF ListenFd
  <2>4. /\ q \in Pollers /\ Wired(q, Fds)
        /\ q.index = [poller[Base].index EXCEPT ![Listener] = "kAdded"]
        /\ q.events = [poller[Base].events EXCEPT ![Listener] = {"IN"}]
    <3> HIDE DEF Fds
    <3>1. q = Poller!UpdateChannel(poller[Base], Listener, Fds[Listener], {"IN"})
      BY <2>2
    <3>2. poller[Base] \in Pollers /\ Wired(poller[Base], Fds) /\ Fds[Listener] \in 0..MaxFds
          /\ Fds[Listener] \notin DOMAIN poller[Base].channels
      BY <2>1, <2>2, <2>3
    <3> HIDE DEF q
    <3>3. IsUpdate(poller[Base], Fds, Listener, "kAdded", {"IN"}, q)
      BY <2>2, <3>1, <3>2, AddChannel
    <3> QED BY <3>3 DEF IsUpdate
  <2> HIDE DEF q
  <2>5. poller' \in [Loops -> Pollers] /\ poller'[Base] = q
    BY <1>1, <2>1, <2>4
  <2>6. PollerOf(Base)'
    <3>1. \A c \in Conns : q.index[c] = poller[Base].index[c] /\ q.events[c] = poller[Base].events[c]
      BY <2>1, <2>4, ConnectionsApart, PollerFields
    <3>2. q.index[Listener] = ListenerIndex(Base)'
      BY <1>1, <2>1, <2>2, <2>4, PollerFields DEF ListenerIndex
    <3>3. PollerOf(Base)
      BY <1>0, <1>1 DEF PollerInv
    <3> HIDE DEF Fds
    <3> QED BY <1>0, <1>1, <1>2, <2>4, <2>5, <3>1, <3>2, <3>3, ListenerStep
  <2>7. ASSUME NEW k \in Loops, k # Base PROVE PollerOf(k)'
    <3>1. poller'[k] = poller[k]
      BY <2>1, <2>7
    <3>2. \A c \in Conns : SameAt(k, c)
      BY <1>0, <1>2, KeepsAt
    <3>3. ListenerIndex(k)' = ListenerIndex(k)
      BY <2>7 DEF ListenerIndex
    <3> QED BY <1>0, <3>1, <3>2, <3>3, PollerKept DEF KeepsIndex, PollerInv
  <2> QED BY <2>5, <2>6, <2>7 DEF PollerInv
<1>7. TypesInv'
  BY <1>0, <1>1, <1>6 DEF TypesInv, TypeOK, Exists
<1>8. LoopInv'
  BY <1>0, <1>1 DEF LoopInv
<1>9. ActiveInv'
  BY <1>0, <1>1 DEF ActiveInv, Deals, Open
<1> QED BY <1>3, <1>4, <1>5, <1>6, <1>7, <1>8, <1>9 DEF ServerInv

-----------------------------------------------------------------------------
(* The loops.                                                               *)
LEMMA SeqsOf ==
    ASSUME NEW S, IsFiniteSet(S), NEW s \in SetToSeqs(S)
    PROVE  s \in Seq(S) /\ IsInjective(s)
<1>1. Cardinality(S) \in Nat
  BY FS_CardinalityType
<1>2. s \in [1..Cardinality(S) -> S] /\ \A i, j \in 1..Cardinality(S) : i # j => s[i] # s[j]
  BY DEF SetToSeqs
<1> QED BY <1>1, <1>2 DEF IsInjective

(* poll: the events are those of channels that are watched, and each is     *)
(* there once.                                                              *)
LEMMA PollStep == ASSUME ServerInv, NEW l \in Loops, Poll(l) PROVE ServerInv'
<1>0. TypesInv /\ LoopInv /\ FunctorsInv /\ StageInv /\ PollerInv /\ ActiveInv
  BY DEF ServerInv
<1> DEFINE ready == Poller!ActiveChannels(poller[l], Ready)
<1>1. /\ pc[l] = "poll" /\ pc' = [pc EXCEPT ![l] = "events"]
      /\ polled' = IF l = Base THEN ready ELSE polled
      /\ UNCHANGED <<setup, phase, next, accepted, connections, idleFd, conn, poller, handling,
                     pending, running, ran, arrived, waiting, peer>>
      /\ \E s \in SetToSeqs(ready) : active' = [active EXCEPT ![l] = s]
  BY DEF Poll, serverVars, clientVars
<1>2. FunctorsInv' /\ StageInv' /\ PollerInv' /\ FdsInv'
  <2>1. QueueEffect({}, {})
    BY <1>0, <1>1, NothingQueued
  <2>2. \A c \in Conns : Alive(c)' => Alive(c)
    BY <1>1, AliveSame
  <2> QED BY <1>1, <2>1, <2>2, SameKeeps
<1>3. ASSUME NEW c \in ready
      PROVE  Deals(l, c) /\ c \in Channels
  <2>1. PICK fd \in DOMAIN poller[l].watched :
           /\ c = poller[l].watched[fd].channel
           /\ Ready[c] \intersect poller[l].watched[fd].events # {}
    BY DEF Poller!ActiveChannels
  <2>2. c \in Channels /\ poller[l].index[c] = "kAdded"
    BY <1>0, <2>1, PollerFields DEF PollerInv, PollerOf, Wired, TypesInv
  <2>3. CASE c = Listener
    <3>1. ListenerIndex(l) = "kAdded"
      BY <1>0, <2>2, <2>3 DEF PollerInv, PollerOf
    <3>2. l = Base /\ phase \in {"started", "destroying"}
      BY <3>1 DEF ListenerIndex
    <3>4. Ready[c] = IF waiting > 0 THEN {"IN"} ELSE {}
      BY <2>3, ConnectionsApart DEF Ready
    <3> QED BY <2>1, <2>2, <2>3, <3>2, <3>4 DEF Deals
  <2>4. CASE c # Listener
    <3>1. c \in Conns /\ IndexOf(l, c) = "kAdded"
      BY <1>0, <2>2, <2>4 DEF PollerInv, PollerOf, Channels
    <3> QED BY <2>2, <2>4, <3>1 DEF IndexOf, Deals
  <2> QED BY <2>3, <2>4
<1>4. ready \subseteq Channels /\ IsFiniteSet(ready)
  <2>1. ready \subseteq Channels
    BY <1>3 DEF Channels
  <2>2. IsFiniteSet(Conns)
    <3>1. 1 \in Int /\ MaxClients \in Int
      BY BoundsAssumption
    <3> QED BY <3>1, FS_Interval DEF Conns
  <2>3. IsFiniteSet(Channels)
    BY <2>2, FS_AddElement DEF Channels
  <2> HIDE DEF ready
  <2> QED BY <2>1, <2>3, FS_Subset
<1>5. PICK s \in SetToSeqs(ready) : active' = [active EXCEPT ![l] = s]
  BY <1>1
<1> HIDE DEF ready
<1>6. s \in Seq(ready) /\ IsInjective(s)
  BY <1>4, SeqsOf
<1>7. \A i \in DOMAIN s : s[i] \in ready
  BY <1>6
<1>8. active \in [Loops -> Seq(Channels)] /\ s \in Seq(Channels)
  <2>1. active \in [Loops -> Seq(Channels)]
    BY <1>0 DEF TypesInv, TypeOK, Channels
  <2> QED BY <1>4, <1>6, <2>1
<1>9. active' \in [Loops -> Seq(Channels)]
  BY <1>5, <1>8
<1>10. TypesInv'
  <2>1. polled' \subseteq Conns \union {Listener}
    BY <1>0, <1>1, <1>4 DEF TypesInv, TypeOK, Channels
  <2> QED BY <1>0, <1>1, <1>9, <2>1 DEF TypesInv, TypeOK, Exists, Channels
<1>11. LoopInv'
  <2>1. /\ active'[l] = s /\ pc'[l] = "events" /\ Base \in Loops
        /\ \A k \in Loops : k # l => active'[k] = active[k] /\ pc'[k] = pc[k]
    BY <1>0, <1>1, <1>5, <1>8 DEF TypesInv, TypeOK, Loops
  <2>2. l = Base => phase # "destroying" /\ handling = {}
    BY <1>0, <1>1 DEF LoopInv
  <2>3. \A i \in DOMAIN active'[Base] : active'[Base][i] \in polled' \ handling'
    BY <1>0, <1>1, <1>7, <2>1, <2>2 DEF LoopInv
  <2> QED BY <1>0, <1>1, <2>1, <2>2, <2>3 DEF LoopInv
<1>12. ActiveInv'
  <2>1. ASSUME NEW k \in Loops, NEW i \in DOMAIN active'[k]
        PROVE  Deals(k, active[k][i])'
    <3>1. CASE k = l
      <4>1. active'[k] = s
        BY <1>5, <1>8, <3>1
      <4>2. Deals(k, s[i])
        BY <1>3, <1>7, <2>1, <3>1, <4>1
      <4> QED BY <1>1, <4>1, <4>2 DEF Deals, Open
    <3>2. CASE k # l
      <4>1. active'[k] = active[k]
        BY <1>5, <1>8, <3>2
      <4>2. Deals(k, active[k][i])
        BY <1>0, <2>1, <4>1 DEF ActiveInv
      <4> QED BY <1>1, <4>1, <4>2 DEF Deals, Open
    <3> QED BY <3>1, <3>2
  <2>2. \A k \in Loops : IsInjective(active'[k])
    BY <1>0, <1>5, <1>6, <1>8 DEF ActiveInv
  <2> QED BY <2>1, <2>2 DEF ActiveInv
<1> QED BY <1>2, <1>10, <1>11, <1>12 DEF ServerInv

(* The vector of functors is taken, whole,                                  *)
LEMMA TakeStep == ASSUME ServerInv, NEW l \in Loops, TakeFunctors(l) PROVE ServerInv'
<1>0. TypesInv /\ LoopInv /\ FunctorsInv /\ StageInv /\ PollerInv /\ ActiveInv /\ QueueTypes
  BY QueueTypesHold DEF ServerInv
<1>1. /\ pc[l] = "events" /\ active[l] = <<>> /\ pc' = [pc EXCEPT ![l] = "functors"]
      /\ polled' = (IF l = Base THEN {} ELSE polled) /\ ~(l = Base /\ phase = "destroying")
      /\ UNCHANGED <<setup, phase, next, accepted, connections, idleFd, conn, poller, handling,
                     active, ran, arrived, waiting, peer>>
  BY DEF TakeFunctors, InDestructor, serverVars, clientVars
<1>2. QueueEffect({}, {}) /\ QueueTypes'
  BY <1>0, TakeEffect
<1>3. FunctorsInv' /\ StageInv' /\ PollerInv' /\ FdsInv'
  <2>1. \A c \in Conns : Alive(c)' => Alive(c)
    BY <1>0, AliveTaken
  <2> QED BY <1>1, <1>2, <2>1, SameKeeps
<1>4. TypesInv'
  BY <1>0, <1>1, <1>2 DEF TypesInv, TypeOK, Exists, QueueTypes
<1>5. LoopInv'
  <2>1. \A k \in Loops : k # l => running'[k] = running[k] /\ pc'[k] = pc[k]
    BY <1>0 DEF TakeFunctors, QueueTypes, TypesInv, TypeOK
  <2>2. pc'[l] = "functors" /\ \A k \in Loops : ran'[k] <= Len(running'[k])
    BY <1>0, <1>1, <1>2 DEF QueueTypes, TypesInv, TypeOK
  <2>3. Base \in Loops /\ (l = Base => pc'[Base] = "functors" /\ active[Base] = <<>>)
    BY <1>1, <2>2 DEF Loops
  <2> QED BY <1>0, <1>1, <2>1, <2>2, <2>3 DEF LoopInv
<1>6. ActiveInv'
  BY <1>0, <1>1 DEF ActiveInv, Deals, Open
<1> QED BY <1>3, <1>4, <1>5, <1>6 DEF ServerInv

(* and dropped when the last has been run.                                  *)
LEMMA DropStep == ASSUME ServerInv, NEW l \in Loops, DropFunctors(l) PROVE ServerInv'
<1>0. TypesInv /\ LoopInv /\ FunctorsInv /\ StageInv /\ PollerInv /\ ActiveInv /\ QueueTypes
  BY QueueTypesHold DEF ServerInv
<1>1. /\ pc[l] = "functors" /\ pc' = [pc EXCEPT ![l] = "poll"]
      /\ ~(l = Base /\ phase = "destroying")
      /\ UNCHANGED <<setup, phase, next, accepted, connections, idleFd, conn, poller, polled, handling,
                     active, pending, arrived, waiting, peer>>
  BY DEF DropFunctors, InDestructor, serverVars, eventVars, clientVars
<1>2. QueueEffect({}, {}) /\ QueueTypes'
  BY <1>0, DropEffect
<1>3. FunctorsInv' /\ StageInv' /\ PollerInv' /\ FdsInv'
  <2>1. \A c \in Conns : Alive(c)' => Alive(c)
    BY <1>0, AliveDropped
  <2> QED BY <1>1, <1>2, <2>1, SameKeeps
<1>4. TypesInv'
  BY <1>0, <1>1, <1>2 DEF TypesInv, TypeOK, Exists, QueueTypes
<1>5. LoopInv'
  <2>1. \A k \in Loops : k # l => running'[k] = running[k] /\ pc'[k] = pc[k] /\ ran'[k] = ran[k]
    BY <1>0 DEF DropFunctors, QueueTypes, TypesInv, TypeOK
  <2>2. pc'[l] = "poll" /\ running'[l] = <<>> /\ ran'[l] = 0
    BY <1>0, <1>1 DEF DropFunctors, QueueTypes, TypesInv, TypeOK
  <2>3. \A k \in Loops : ran'[k] <= Len(running'[k])
    BY <1>2 DEF QueueTypes
  <2>4. /\ phase' = "destroying" => pc'[Base] \in {"events", "functors"}
        /\ pc'[Base] # "events" => polled' = {}
    BY <1>0, <1>1, <2>1 DEF LoopInv, Loops
  <2> QED BY <1>0, <1>1, <2>1, <2>2, <2>3, <2>4 DEF LoopInv
<1>6. ActiveInv'
  BY <1>0, <1>1 DEF ActiveInv, Deals, Open
<1> QED BY <1>3, <1>4, <1>5, <1>6 DEF ServerInv

(* The next event of a loop: Handles.                                       *)
LEMMA HandlesKeeps ==
    ASSUME TypesInv, LoopInv, ActiveInv, NEW l \in Loops, NEW c \in Channels, Handles(l, c),
           Undisturbed \/ (l = Base /\ CanDestroy /\ phase' = "destroying" /\ handling' = {c})
    PROVE  /\ LoopInv' /\ Deals(l, c) /\ pc[l] = "events"
           /\ UNCHANGED <<setup, idleFd, pc, polled, running, ran, arrived>>
           /\ active' \in [Loops -> Seq(Channels)]
           /\ \A k \in Loops : IsInjective(active'[k])
           /\ \A k \in Loops : \A i \in DOMAIN active'[k] :
                 /\ active'[k][i] \in Channels
                 /\ Deals(k, active'[k][i])
                 /\ active'[k][i] # c
<1>1. /\ pc[l] = "events" /\ active[l] # <<>> /\ c = Head(active[l])
      /\ active' = [active EXCEPT ![l] = Tail(active[l])]
      /\ UNCHANGED <<setup, idleFd, pc, polled, running, ran, arrived>>
  BY DEF Handles
<1>2. active \in [Loops -> Seq(Channels)] /\ active[l] \in Seq(Channels)
  BY DEF TypesInv, TypeOK, Channels
<1>3. /\ active'[l] = Tail(active[l]) /\ active'[l] \in Seq(Channels)
      /\ \A k \in Loops : k # l => active'[k] = active[k]
      /\ active' \in [Loops -> Seq(Channels)]
  BY <1>1, <1>2
<1>4. /\ 1 \in DOMAIN active[l] /\ active[l][1] = c
      /\ \A i \in DOMAIN active'[l] : i + 1 \in DOMAIN active[l] /\ i + 1 # 1
                                        /\ active'[l][i] = active[l][i + 1]
      /\ \A i, j \in DOMAIN active'[l] : i + 1 = j + 1 => i = j
  BY <1>1, <1>2, <1>3
<1>5. /\ \A i \in DOMAIN active[l] : Deals(l, active[l][i])
      /\ \A i, j \in DOMAIN active[l] : active[l][i] = active[l][j] => i = j
  BY DEF ActiveInv, IsInjective
<1>6. Deals(l, c)
  BY <1>4, <1>5
<1>7. \A k \in Loops : IsInjective(active'[k])
  <2>1. IsInjective(active'[l])
    BY <1>4, <1>5 DEF IsInjective
  <2> QED BY <1>3, <2>1 DEF ActiveInv
<1>8. ASSUME NEW k \in Loops, NEW i \in DOMAIN active'[k]
      PROVE  active'[k][i] \in Channels /\ Deals(k, active'[k][i]) /\ active'[k][i] # c
  <2>1. active'[k][i] \in Channels
    BY <1>3, <1>8
  <2>2. CASE k = l
    BY <1>4, <1>5, <1>8, <2>1, <2>2
  <2>3. CASE k # l
    <3>1. active'[k] = active[k] /\ Deals(k, active'[k][i])
      BY <1>3, <1>8, <2>3 DEF ActiveInv
    <3>2. active'[k][i] # c
      BY <1>6, <2>3, <3>1 DEF Deals
    <3> QED BY <2>1, <3>1, <3>2
  <2> QED BY <2>2, <2>3
<1>9. LoopInv'
  <2>1. \A k \in Loops : pc[k] # "events" => k # l
    BY <1>1
  <2>2. \A k \in Loops : k # l => active'[k] = active[k]
    BY <1>3
  <2>3. Base \in Loops /\ (l = Base => phase # "destroying")
    BY DEF Loops, Handles, InDestructor
  <2>4. \A i \in DOMAIN active'[Base] : active'[Base][i] \in polled
    BY <1>1, <1>4, <2>2, <2>3 DEF LoopInv
  <2>5. \A i \in DOMAIN active'[Base] : active'[Base][i] \notin handling'
    <3>1. CASE Undisturbed
      BY <1>4, <2>2, <2>3, <3>1 DEF LoopInv, Undisturbed
    <3>2. CASE handling' = {c}
      BY <1>8, <2>3, <3>2
    <3> QED BY <3>1, <3>2
  <2>6. CASE Undisturbed
    BY <1>1, <1>3, <2>1, <2>2, <2>4, <2>5, <2>6 DEF LoopInv, Undisturbed
  <2>7. CASE l = Base /\ CanDestroy /\ phase' = "destroying" /\ handling' = {c}
    BY <1>1, <1>3, <2>1, <2>2, <2>4, <2>5, <2>7 DEF LoopInv, CanDestroy
  <2> QED BY <2>6, <2>7
<1> QED BY <1>1, <1>3, <1>6, <1>7, <1>8, <1>9

(* The events that are left still say the truth.                            *)
LEMMA ActiveKept ==
    ASSUME \A k \in Loops : IsInjective(active'[k]),
           \A k \in Loops : \A i \in DOMAIN active'[k] :
                 Deals(k, active'[k][i]) /\ active'[k][i] \in Channels,
           phase \in {"started", "destroying"} => phase' \in {"started", "destroying"},
           \A k \in Loops : \A i \in DOMAIN active'[k] :
               IF active'[k][i] = Listener THEN waiting > 0 => waiting' > 0
                                           ELSE conn'[active'[k][i]] = conn[active'[k][i]]
    PROVE  ActiveInv'
<1>1. ASSUME NEW k \in Loops, NEW i \in DOMAIN active'[k] PROVE Deals(k, active[k][i])'
  <2>1. Deals(k, active'[k][i])
    BY <1>1
  <2> QED BY <1>1, <2>1 DEF Deals, Open
<1> QED BY <1>1 DEF ActiveInv

(* Acceptor::handleRead without a descriptor left.                          *)
LEMMA RefuseStep == ASSUME ServerInv, Refuse PROVE ServerInv'
<1>0. TypesInv /\ LoopInv /\ FunctorsInv /\ ActiveInv /\ Base \in Loops
  BY DEF ServerInv, Loops
<1>1. /\ Handles(Base, Listener) /\ waiting' = waiting - 1
      /\ UNCHANGED <<phase, handling, next, accepted, connections, conn, poller, pending, peer>>
      /\ Undisturbed
  BY DEF Refuse, Undisturbed
<1>2. /\ LoopInv' /\ Deals(Base, Listener)
      /\ UNCHANGED <<setup, phase, idleFd, pc, polled, handling, running, ran, arrived>>
      /\ active' \in [Loops -> Seq(Channels)]
      /\ \A k \in Loops : IsInjective(active'[k])
      /\ \A k \in Loops : \A i \in DOMAIN active'[k] :
            active'[k][i] \in Channels /\ Deals(k, active'[k][i]) /\ active'[k][i] # Listener
  BY <1>0, <1>1, HandlesKeeps, ConnectionsApart
<1>3. FunctorsInv' /\ StageInv' /\ PollerInv' /\ FdsInv'
  <2>1. QueueEffect({}, {})
    BY <1>0, <1>1, <1>2, NothingQueued
  <2>2. \A c \in Conns : Alive(c)' => Alive(c)
    BY <1>1, <1>2, AliveSame
  <2> QED BY <1>1, <1>2, <2>1, <2>2, SameKeeps
<1>4. TypesInv'
  <2>1. waiting' \in Nat /\ accepted + waiting' <= arrived
    <3>1. waiting \in Nat /\ waiting > 0 /\ accepted + waiting <= arrived
          /\ accepted \in Nat /\ arrived \in Nat
      BY <1>0, <1>2, SetupIs DEF TypesInv, TypeOK, Deals
    <3> QED BY <1>1, <3>1
  <2> QED BY <1>0, <1>1, <1>2, <2>1 DEF TypesInv, TypeOK, Exists, Channels
<1>5. ActiveInv'
  BY <1>1, <1>2, ActiveKept
<1> QED BY <1>2, <1>3, <1>4, <1>5 DEF ServerInv

(* TcpConnection::handleRead with data.                                     *)
LEMMA MessageStep == ASSUME ServerInv, NEW l \in Loops, NEW c \in Conns, HandleMessage(l, c) PROVE ServerInv'
<1>0. /\ TypesInv /\ LoopInv /\ FunctorsInv /\ StageInv /\ PollerInv /\ ActiveInv /\ FdsInv
      /\ QueueTypes /\ c \in Channels /\ c # Listener
  BY QueueTypesHold, ConnectionsApart DEF ServerInv
<1>1. /\ Handles(l, c)
      /\ UNCHANGED <<next, accepted, connections, poller, waiting>>
      /\ peer' = [peer EXCEPT ![c].data = FALSE]
      /\ \/ Undisturbed
         \/ l = Base /\ CanDestroy /\ phase' = "destroying" /\ handling' = {c}
  <2>1. Handles(l, c) /\ (Undisturbed \/ (CanDestroy /\ phase' = "destroying" /\ handling' = {c}))
    BY DEF HandleMessage
  <2>2. CanDestroy => l = Base
    <3>1. c = Head(active[l]) /\ active[l] # <<>> /\ active[l] \in Seq(Channels)
      BY <1>0, <2>1 DEF Handles, TypesInv, TypeOK, Channels
    <3>2. 1 \in DOMAIN active[l] /\ active[l][1] = c
      BY <3>1
    <3>3. Deals(l, c)
      BY <1>0, <3>2 DEF ActiveInv
    <3> QED BY <1>0, <3>3 DEF Deals, TypesInv, CanDestroy
  <2> QED BY <2>1, <2>2 DEF HandleMessage
<1>2. /\ LoopInv' /\ Deals(l, c)
      /\ UNCHANGED <<setup, idleFd, pc, polled, running, ran, arrived>>
      /\ phase \in {"started", "destroying"} <=> phase' \in {"started", "destroying"}
      /\ phase' \in {phase, "destroying"} /\ handling' \subseteq handling \union {c}
      /\ active' \in [Loops -> Seq(Channels)]
      /\ \A k \in Loops : IsInjective(active'[k])
      /\ \A k \in Loops : \A i \in DOMAIN active'[k] :
            active'[k][i] \in Channels /\ Deals(k, active'[k][i]) /\ active'[k][i] # c
  <2>1. /\ phase \in {"started", "destroying"} <=> phase' \in {"started", "destroying"}
        /\ phase' \in {phase, "destroying"} /\ handling' \subseteq handling \union {c}
    BY <1>1 DEF Undisturbed, CanDestroy
  <2> QED BY <1>0, <1>1, <2>1, HandlesKeeps
<1>3. Open(c) /\ conn[c].loop = l /\ c \in connections
  BY <1>0, <1>2 DEF Deals, StageInv, StageOf
<1>4. \/ conn' = conn
      \/ conn' = [conn EXCEPT ![c].state = "kDisconnecting"]
  BY DEF HandleMessage
<1>5. pending' = pending \/ Queue(l, "forceCloseInLoop", c)
  BY DEF HandleMessage
<1>6. PICK added \in {{}, {<<l, "forceCloseInLoop", c>>}} : QueueTypes' /\ QueueEffect({}, added)
  <2>1. CASE pending' = pending
    <3>1. QueueEffect({}, {})
      BY <1>0, <1>2, <2>1, NothingQueued
    <3>2. QueueTypes'
      BY <1>0, <1>2, <2>1 DEF QueueTypes
    <3> QED BY <3>1, <3>2
  <2>2. CASE Queue(l, "forceCloseInLoop", c)
    <3>1. "forceCloseInLoop" \in Calls
      BY DEF Calls
    <3>2. QueueTypes' /\ QueueEffect({}, {<<l, "forceCloseInLoop", c>>})
      BY <1>0, <1>2, <2>2, <3>1, AppendEffect
    <3> QED BY <3>2
  <2> QED BY <1>5, <2>1, <2>2
<1>7. /\ conn \in [Conns -> [state : {"none", "kConnecting", "kConnected",
                                    "kDisconnecting", "kDisconnected"},
                           loop : Loops, fd : 0..MaxFds]]
      /\ conn' \in [Conns -> [state : {"none", "kConnecting", "kConnected",
                                    "kDisconnecting", "kDisconnected"},
                           loop : Loops, fd : 0..MaxFds]]
      /\ \A d \in Conns \ {c} : conn'[d] = conn[d]
      /\ conn'[c].loop = l /\ conn'[c].fd = conn[c].fd
      /\ conn'[c].state \in {"kConnected", "kDisconnecting"}
  <2>1. conn \in [Conns -> [state : {"none", "kConnecting", "kConnected",
                                    "kDisconnecting", "kDisconnected"},
                           loop : Loops, fd : 0..MaxFds]]
    BY <1>0 DEF TypesInv, TypeOK
  <2> QED BY <1>3, <1>4, <2>1 DEF Open
<1>8. OnlyTouches(c, {}, added) /\ Unqueued({}, added, c)
  BY <1>1, <1>6, <1>7 DEF OnlyTouches, Untouched, Unqueued
<1>9. FunctorsInv'
  <2>1. \A d \in Conns : Exists(d) => Exists(d)' /\ conn'[d].loop = conn[d].loop
    BY <1>3, <1>7 DEF Exists
  <2>2. Exists(c)'
    BY <1>7 DEF Exists
  <2> QED BY <1>0, <1>6, <1>7, <2>1, <2>2, FunctorsStep
<1>10. \A f \in Calls \ {"forceCloseInLoop"}, k \in Loops : Queued(k, f, c)' <=> Queued(k, f, c)
  BY <1>6, <1>8 DEF QueueEffect, Unqueued
<1>11. StageInv'
  <2>1. StageOf(c) /\ Base \in Loops
    BY <1>0 DEF StageInv, Loops
  <2>2. StageOf(c)'
    BY <1>1, <1>2, <1>3, <1>7, <1>10, <2>1 DEF StageOf, Open, Calls
  <2> QED BY <1>0, <1>2, <1>6, <1>8, <2>2, StagesKept
<1>12. PollerInv'
  <2>1. \A k \in Loops : SameAt(k, c)
    BY <1>3, <1>7 DEF SameAt, IndexOf, Closing, Open
  <2> QED BY <1>0, <1>1, <1>2, <1>6, <1>8, <2>1, PollersKept
<1>13. FdsInv'
  <2>1. Alive(c)
    BY <1>0, <1>3, KnownAlive DEF IndexOf
  <2>2. \A d \in Conns : Alive(d)' => Alive(d)
    <3> SUFFICES ASSUME NEW d \in Conns, Alive(d)' PROVE Alive(d)
      OBVIOUS
    <3>1. /\ d \in connections' => d \in connections
          /\ d \in handling' => d \in handling \union connections
      BY <1>1, <1>2, <1>3
    <3>2. CASE pending' = pending
      BY <1>2, <3>1, <3>2, AliveSame
    <3>3. CASE Queue(l, "forceCloseInLoop", c)
      <4>1. "forceCloseInLoop" \in Calls /\ running' = running
        BY <1>2 DEF Calls
      <4> QED BY <1>0, <2>1, <3>1, <3>3, <4>1, AliveAppend
    <3> QED BY <1>5, <3>2, <3>3
  <2>3. \A d \in Conns : (Exists(d)' => Exists(d)) /\ conn'[d].fd = conn[d].fd
    BY <1>3, <1>7 DEF Exists, Open
  <2> QED BY <1>0, <2>2, <2>3, FdsKept
<1>14. TypesInv'
  <2>1. peer' \in [Conns -> [data : BOOLEAN, closed : BOOLEAN]]
    BY <1>0, <1>1 DEF TypesInv, TypeOK
  <2>2. \A d \in Conns : (Exists(d)' <=> Exists(d)) /\ conn'[d].fd = conn[d].fd
                           /\ conn'[d].loop = conn[d].loop
    BY <1>3, <1>7 DEF Exists, Open
  <2>3. TypeOK'
    <3>1. phase' \in {"new", "started", "destroying", "destroyed"} /\ handling' \subseteq Conns
      BY <1>0, <1>2 DEF TypesInv, TypeOK
    <3> QED BY <1>0, <1>1, <1>2, <1>7, <2>1, <3>1 DEF TypesInv, TypeOK, Channels
  <2> QED BY <1>0, <1>1, <1>2, <1>6, <2>2, <2>3 DEF TypesInv, QueueTypes
<1>15. ActiveInv'
  <2>1. \A k \in Loops : \A i \in DOMAIN active'[k] :
           active'[k][i] # Listener => conn'[active'[k][i]] = conn[active'[k][i]]
    BY <1>2, <1>7 DEF Channels
  <2> QED BY <1>1, <1>2, <2>1, ActiveKept
<1> QED BY <1>2, <1>9, <1>11, <1>12, <1>13, <1>14, <1>15 DEF ServerInv

(* What a closing connection leaves as it is.                               *)
CloseCall(l) == IF l = Base THEN "connectDestroyed" ELSE "removeConnectionInLoop"

(* What handleClose changes.                                                *)
LEMMA CloseTypes ==
    ASSUME ServerInv, NEW l \in Loops, NEW c \in Conns, HandleClose(l, c), Open(c), conn[c].loop = l
    PROVE  /\ Queue(Base, CloseCall(l), c) /\ connections' \subseteq connections
           /\ CloseCall(l) \in Calls \ {"forceCloseInLoop"}
           /\ ~Queued(Base, CloseCall(l), c) /\ Alive(c)
           /\ conn' \in [Conns -> [state : {"none", "kConnecting", "kConnected",
                                    "kDisconnecting", "kDisconnected"},
                           loop : Loops, fd : 0..MaxFds]]
           /\ \A d \in Conns : /\ Exists(d)' <=> Exists(d)
                               /\ conn'[d].fd = conn[d].fd /\ conn'[d].loop = conn[d].loop
           /\ \A d \in Conns \ {c} : conn'[d] = conn[d]
<1>0. TypesInv /\ StageInv /\ StageOf(c)
  BY DEF ServerInv, StageInv
<1>1. Queue(Base, CloseCall(l), c) /\ connections' \subseteq connections
  BY DEF HandleClose, RemoveConnectionInLoop, CloseCall
<1>2. CloseCall(l) \in Calls \ {"forceCloseInLoop"}
  BY DEF CloseCall, Calls
<1>3. ~Queued(Base, CloseCall(l), c)
  BY <1>0 DEF StageOf, CloseCall, Open
<1>4. Alive(c)
  BY <1>0, KnownAlive DEF IndexOf
<1>5. /\ conn' = [conn EXCEPT ![c].state = "kDisconnected"]
      /\ conn \in [Conns -> [state : {"none", "kConnecting", "kConnected",
                                    "kDisconnecting", "kDisconnected"},
                           loop : Loops, fd : 0..MaxFds]]
  BY <1>0 DEF HandleClose, TypesInv, TypeOK
<1>6. /\ conn' \in [Conns -> [state : {"none", "kConnecting", "kConnected",
                                    "kDisconnecting", "kDisconnected"},
                           loop : Loops, fd : 0..MaxFds]]
      /\ \A d \in Conns \ {c} : conn'[d] = conn[d]
      /\ conn'[c].state = "kDisconnected" /\ conn'[c].fd = conn[c].fd /\ conn'[c].loop = conn[c].loop
  BY <1>5
<1>7. \A d \in Conns : /\ Exists(d)' <=> Exists(d)
                      /\ conn'[d].fd = conn[d].fd /\ conn'[d].loop = conn[d].loop
  BY <1>6 DEF Exists, Open
<1> QED BY <1>1, <1>2, <1>3, <1>4, <1>6, <1>7

(* TcpConnection::handleRead at the end of the stream.                      *)
LEMMA EndStep == ASSUME ServerInv, NEW l \in Loops, NEW c \in Conns, HandleEnd(l, c) PROVE ServerInv'
<1>0. /\ TypesInv /\ LoopInv /\ FunctorsInv /\ ActiveInv /\ FdsInv
      /\ QueueTypes /\ c \in Channels /\ c # Listener /\ Base \in Loops
  BY QueueTypesHold, ConnectionsApart DEF ServerInv, Loops
<1>1. /\ Handles(l, c) /\ HandleClose(l, c) /\ UNCHANGED <<next, accepted, waiting, peer>>
      /\ Undisturbed /\ UNCHANGED <<phase, handling>>
  BY DEF HandleEnd, Undisturbed
<1>2. /\ LoopInv' /\ Deals(l, c)
      /\ UNCHANGED <<setup, phase, idleFd, pc, polled, handling, running, ran, arrived>>
      /\ active' \in [Loops -> Seq(Channels)]
      /\ \A k \in Loops : IsInjective(active'[k])
      /\ \A k \in Loops : \A i \in DOMAIN active'[k] :
            active'[k][i] \in Channels /\ Deals(k, active'[k][i]) /\ active'[k][i] # c
  BY <1>0, <1>1, HandlesKeeps
<1>3. Open(c) /\ conn[c].loop = l
  BY <1>0, <1>2 DEF Deals
<1>4. /\ Queue(Base, CloseCall(l), c) /\ connections' \subseteq connections
      /\ CloseCall(l) \in Calls \ {"forceCloseInLoop"}
      /\ ~Queued(Base, CloseCall(l), c) /\ Alive(c)
      /\ conn' \in [Conns -> [state : {"none", "kConnecting", "kConnected",
                                    "kDisconnecting", "kDisconnected"},
                           loop : Loops, fd : 0..MaxFds]]
      /\ \A d \in Conns : /\ Exists(d)' <=> Exists(d)
                          /\ conn'[d].fd = conn[d].fd /\ conn'[d].loop = conn[d].loop
      /\ \A d \in Conns \ {c} : conn'[d] = conn[d]
  BY <1>1, <1>3, CloseTypes
<1>5. QueueTypes' /\ QueueEffect({}, {<<Base, CloseCall(l), c>>})
  BY <1>0, <1>2, <1>4, AppendEffect
<1>6. FunctorsInv' /\ StageInv' /\ PollerInv' /\ poller' \in [Loops -> Pollers]
  <2>1. {<<Base, CloseCall(l), c>>} = IF l = Base THEN {<<Base, "connectDestroyed", c>>}
                                                ELSE {<<Base, "removeConnectionInLoop", c>>}
    BY DEF CloseCall
  <2>2. \A d \in Conns : Unqueued({}, {}, d)
    BY DEF Unqueued
  <2> QED BY <1>1, <1>2, <1>3, <1>5, <2>1, <2>2, CloseKeeps
<1>7. FdsInv'
  <2>1. \A d \in Conns : Alive(d)' => Alive(d)
    BY <1>0, <1>2, <1>4, AliveAppend
  <2> QED BY <1>0, <1>4, <2>1, FdsKept
<1>8. TypesInv'
  <2>1. TypeOK'
    BY <1>0, <1>1, <1>2, <1>4 DEF TypesInv, TypeOK, Channels
  <2> QED BY <1>0, <1>1, <1>2, <1>4, <1>5, <1>6, <2>1 DEF TypesInv, QueueTypes
<1>9. ActiveInv'
  <2>1. \A k \in Loops : \A i \in DOMAIN active'[k] :
           active'[k][i] # Listener => conn'[active'[k][i]] = conn[active'[k][i]]
    BY <1>2, <1>4 DEF Channels
  <2> QED BY <1>1, <1>2, <2>1, ActiveKept
<1> QED BY <1>2, <1>6, <1>7, <1>8, <1>9 DEF ServerInv

(* The next functor of a loop: Runs.                                        *)
LEMMA RunsQueued ==
    ASSUME QueueTypes, NEW l \in Loops, NEW f \in Calls, NEW c \in Conns, Runs(l, f, c)
    PROVE  Queued(l, f, c)
<1>1. /\ running[l] \in Seq(Functors) /\ ran[l] \in Nat /\ ran[l] < Len(running[l])
      /\ running[l][ran[l] + 1] = Functor(f, c)
  BY DEF Runs, QueueTypes
<1>2. ran[l] + 1 \in DOMAIN running[l] /\ ran[l] < ran[l] + 1
  BY <1>1
<1> QED BY <1>1, <1>2 DEF Queued, InQueue

(* What running a functor leaves alone.                                     *)
LEMMA RunsKeeps ==
    ASSUME TypesInv, LoopInv, ActiveInv, NEW l \in Loops, NEW f \in Calls, NEW c \in Conns,
           Runs(l, f, c), QueueTypes'
    PROVE  /\ LoopInv'
           /\ UNCHANGED <<setup, phase, next, accepted, idleFd, pc, active, polled, handling, running,
                          arrived, waiting, peer>>
           /\ active \in [Loops -> Seq(Channels)]
           /\ \A k \in Loops : IsInjective(active[k])
           /\ \A k \in Loops : \A i \in DOMAIN active[k] :
                 active[k][i] \in Channels /\ Deals(k, active[k][i]) /\ k # l
<1>1. /\ pc[l] = "functors" /\ ran' = [ran EXCEPT ![l] = @ + 1]
      /\ UNCHANGED <<setup, phase, next, accepted, idleFd, pc, active, polled, handling, running,
                     arrived, waiting, peer>>
  BY DEF Runs, eventVars, clientVars
<1>2. \A k \in Loops : k # l => ran'[k] = ran[k]
  BY <1>1 DEF TypesInv, TypeOK
<1>3. LoopInv'
  BY <1>1, <1>2 DEF LoopInv, QueueTypes
<1>4. active[l] = <<>> /\ active \in [Loops -> Seq(Channels)]
  BY <1>1 DEF LoopInv, TypesInv, TypeOK, Channels
<1> QED BY <1>1, <1>3, <1>4 DEF ActiveInv

(* TcpConnection::forceCloseInLoop.                                         *)
LEMMA ForceCloseStep == ASSUME ServerInv, NEW l \in Loops, NEW c \in Conns, RunForceClose(l, c) PROVE ServerInv'
<1>0. /\ TypesInv /\ LoopInv /\ FunctorsInv /\ ActiveInv /\ FdsInv
      /\ QueueTypes /\ Base \in Loops /\ "forceCloseInLoop" \in Calls
  BY QueueTypesHold DEF ServerInv, Loops, Calls
<1> DEFINE done == {<<l, "forceCloseInLoop", c>>}
<1>1. Runs(l, "forceCloseInLoop", c)
  BY DEF RunForceClose
<1>2. \A d \in Conns : Unqueued(done, {}, d)
  BY DEF Unqueued
<1>3. CASE ~Open(c)
  <2>1. UNCHANGED <<connections, conn, poller, pending>>
    BY <1>3 DEF RunForceClose
  <2>2. QueueTypes' /\ QueueEffect(done, {})
    BY <1>0, <1>1, <2>1, RunEffect
  <2>3. QueueEffect({}, {})
    BY <2>2 DEF QueueEffect
  <2>4. /\ LoopInv'
        /\ UNCHANGED <<setup, phase, next, accepted, idleFd, pc, active, polled, handling, running,
                       arrived, waiting, peer>>
        /\ active \in [Loops -> Seq(Channels)]
    BY <1>0, <1>1, <2>2, RunsKeeps
  <2>5. FunctorsInv' /\ StageInv' /\ PollerInv' /\ FdsInv'
    <3>1. \A d \in Conns : Alive(d)' => Alive(d)
      BY <2>1, <2>4, AliveSame
    <3> QED BY <2>1, <2>3, <2>4, <3>1, SameKeeps
  <2>6. TypesInv'
    BY <1>0, <2>1, <2>2, <2>4 DEF TypesInv, TypeOK, Exists, QueueTypes
  <2>7. ActiveInv'
    BY <1>0, <2>1, <2>4 DEF ActiveInv, Deals, Open
  <2> QED BY <2>4, <2>5, <2>6, <2>7 DEF ServerInv
<1>4. CASE Open(c)
  <2>1. HandleClose(l, c)
    BY <1>4 DEF RunForceClose
  <2>2. Queued(l, "forceCloseInLoop", c)
    BY <1>0, <1>1, RunsQueued
  <2>3. conn[c].loop = l
    BY <1>0, <2>2 DEF FunctorsInv
  <2>4. /\ Queue(Base, CloseCall(l), c) /\ connections' \subseteq connections
        /\ CloseCall(l) \in Calls \ {"forceCloseInLoop"}
        /\ ~Queued(Base, CloseCall(l), c) /\ Alive(c)
        /\ conn' \in [Conns -> [state : {"none", "kConnecting", "kConnected",
                                      "kDisconnecting", "kDisconnected"},
                             loop : Loops, fd : 0..MaxFds]]
        /\ \A d \in Conns : /\ Exists(d)' <=> Exists(d)
                            /\ conn'[d].fd = conn[d].fd /\ conn'[d].loop = conn[d].loop
        /\ \A d \in Conns \ {c} : conn'[d] = conn[d]
    BY <1>4, <2>1, <2>3, CloseTypes
  <2>5. QueueTypes' /\ QueueEffect(done, {<<Base, CloseCall(l), c>>})
    BY <1>0, <1>1, <2>4, RunAppendEffect
  <2>6. /\ LoopInv'
        /\ UNCHANGED <<setup, phase, next, accepted, idleFd, pc, active, polled, handling, running,
                       arrived, waiting, peer>>
        /\ active \in [Loops -> Seq(Channels)]
        /\ \A k \in Loops : IsInjective(active[k])
        /\ \A k \in Loops : \A i \in DOMAIN active[k] :
              active[k][i] \in Channels /\ Deals(k, active[k][i]) /\ k # l
    BY <1>0, <1>1, <2>5, RunsKeeps
  <2>7. FunctorsInv' /\ StageInv' /\ PollerInv' /\ poller' \in [Loops -> Pollers]
    <3>1. {<<Base, CloseCall(l), c>>} = IF l = Base THEN {<<Base, "connectDestroyed", c>>}
                                                  ELSE {<<Base, "removeConnectionInLoop", c>>}
      BY DEF CloseCall
    <3> HIDE DEF done
    <3> QED BY <1>2, <1>4, <2>1, <2>3, <2>5, <2>6, <3>1, CloseKeeps
  <2>8. FdsInv'
    <3>1. \A d \in Conns : Alive(d)' => Alive(d)
      BY <1>0, <2>4, <2>6, AliveAppend
    <3> QED BY <1>0, <2>4, <3>1, FdsKept
  <2>9. TypesInv'
    <3>1. TypeOK'
      BY <1>0, <2>4, <2>5, <2>6 DEF TypesInv, TypeOK, QueueTypes
    <3> QED BY <1>0, <2>4, <2>5, <2>6, <2>7, <3>1 DEF TypesInv, QueueTypes
  <2>10. ActiveInv'
    <3>1. \A k \in Loops : \A i \in DOMAIN active[k] :
             active[k][i] # Listener => conn'[active[k][i]] = conn[active[k][i]]
      BY <2>3, <2>4, <2>6 DEF Channels, Deals
    <3> QED BY <2>6, <3>1, ActiveKept
  <2> QED BY <2>6, <2>7, <2>8, <2>9, <2>10 DEF ServerInv
<1> QED BY <1>3, <1>4

(* TcpConnection::connectEstablished in the connection's own loop.          *)
LEMMA EstablishedStep == ASSUME ServerInv, NEW l \in Loops, NEW c \in Conns, RunEstablished(l, c) PROVE ServerInv'
<1>0. /\ TypesInv /\ LoopInv /\ FunctorsInv /\ StageInv /\ PollerInv /\ ActiveInv /\ FdsInv
      /\ QueueTypes /\ Base \in Loops /\ "connectEstablished" \in Calls /\ PollerOf(l)
  BY QueueTypesHold DEF ServerInv, Loops, Calls, PollerInv
<1> DEFINE done == {<<l, "connectEstablished", c>>}
           q == Poller!UpdateChannel(poller[l], c, conn[c].fd, {"IN"})
<1>1. /\ Runs(l, "connectEstablished", c) /\ UNCHANGED <<connections, pending>>
      /\ conn' = [conn EXCEPT ![c] = [conn[c] EXCEPT !.state = "kConnected"]]
      /\ poller' = [poller EXCEPT ![l] = q]
  BY DEF RunEstablished, Established
<1>2. QueueTypes' /\ Queued(l, "connectEstablished", c) /\ QueueEffect(done, {})
  BY <1>0, <1>1, RunEffect
<1>3. /\ LoopInv'
      /\ UNCHANGED <<setup, phase, next, accepted, idleFd, pc, active, polled, handling, running,
                     arrived, waiting, peer>>
      /\ active \in [Loops -> Seq(Channels)]
      /\ \A k \in Loops : IsInjective(active[k])
      /\ \A k \in Loops : \A i \in DOMAIN active[k] :
            active[k][i] \in Channels /\ Deals(k, active[k][i]) /\ k # l
  BY <1>0, <1>1, <1>2, RunsKeeps
<1>4. Exists(c) /\ conn[c].loop = l
  BY <1>0, <1>2 DEF FunctorsInv
<1>5. StageOf(c) /\ conn[c].state = "kConnecting" /\ c \in connections /\ l # Base
  BY <1>0, <1>2, <1>4 DEF StageInv, StageOf
<1>6. /\ conn' \in [Conns -> [state : {"none", "kConnecting", "kConnected",
                                    "kDisconnecting", "kDisconnected"},
                           loop : Loops, fd : 0..MaxFds]]
      /\ \A d \in Conns \ {c} : conn'[d] = conn[d]
      /\ conn'[c].state = "kConnected" /\ conn'[c].loop = l /\ conn'[c].fd = conn[c].fd
  BY <1>0, <1>1, <1>4 DEF TypesInv, TypeOK
<1>7. \A d \in Conns : /\ Exists(d)' <=> Exists(d)
                      /\ conn'[d].fd = conn[d].fd /\ conn'[d].loop = conn[d].loop
  BY <1>4, <1>6 DEF Exists
<1>8. OnlyTouches(c, done, {})
  BY <1>1, <1>6 DEF OnlyTouches, Untouched, Unqueued
<1>9. FunctorsInv'
  BY <1>0, <1>2, <1>7, FunctorsStep
<1>10. /\ ~Queued(l, "connectEstablished", c)'
       /\ ~Queued(Base, "removeConnectionInLoop", c)'
       /\ ~Queued(l, "connectDestroyed", c)'
  <2>1. ~Queued(Base, "removeConnectionInLoop", c) /\ ~Queued(l, "connectDestroyed", c)
    BY <1>4, <1>5 DEF StageOf
  <2>2. {"connectEstablished", "removeConnectionInLoop", "connectDestroyed"}
           \subseteq Calls \ {"forceCloseInLoop"}
    BY DEF Calls
  <2> QED BY <1>0, <1>2, <2>1, <2>2 DEF QueueEffect
<1>11. StageInv'
  <2>1. StageOf(c)'
    BY <1>1, <1>5, <1>6, <1>10 DEF StageOf, Open
  <2> QED BY <1>0, <1>2, <1>3, <1>8, <2>1, StagesKept
<1>12. Alive(c) /\ \A k \in Loops : IndexOf(k, c) = "kNew"
  BY <1>5 DEF Alive, IndexOf, Open, Closing
<1>13. PollerInv' /\ poller' \in [Loops -> Pollers]
  <2>1. /\ poller[l] \in Pollers /\ Wired(poller[l], Fds) /\ poller[l].index[c] = "kNew"
        /\ c \in Channels /\ Fds[c] = conn[c].fd /\ conn[c].fd \in 2..MaxFds
    BY <1>0, <1>4, <1>12, FdsAre, ConnectionsApart DEF TypesInv, PollerOf
  <2>2. conn[c].fd \notin DOMAIN poller[l].channels
    <3>1. \A d \in Conns : Exists(d) /\ Alive(d) /\ conn[d].fd = conn[c].fd => d = c
      BY <1>0, <1>4, <1>12 DEF FdsInv
    <3> QED BY <1>0, <1>12, <2>1, <3>1, NoEntry
  <2>3. /\ q \in Pollers /\ Wired(q, Fds)
        /\ q.index = [poller[l].index EXCEPT ![c] = "kAdded"]
        /\ q.events = [poller[l].events EXCEPT ![c] = {"IN"}]
    <3>1. q = Poller!UpdateChannel(poller[l], c, Fds[c], {"IN"}) /\ Fds[c] \in 0..MaxFds
      BY <2>1
    <3> HIDE DEF q, Fds
    <3>2. IsUpdate(poller[l], Fds, c, "kAdded", {"IN"}, q)
      BY <2>1, <2>2, <3>1, AddChannel
    <3> QED BY <3>2 DEF IsUpdate
  <2> HIDE DEF q
  <2>4. Wired(q, Fds')
    <3>1. \A d \in Channels : Fds'[d] = Fds[d]
      BY <1>7, FdsAre DEF Channels
    <3> HIDE DEF Fds
    <3> QED BY <2>3, <3>1, OtherDescriptors
  <2>5. \A k \in Loops \ {l} : SameAt(k, c)
    BY <1>6, <1>12 DEF SameAt, IndexOf
  <2>6. /\ \A d \in Channels \ {c} : /\ q.index[d] = poller[l].index[d]
                                     /\ q.events[d] = poller[l].events[d]
        /\ q.index[c] = "kAdded"
    BY <2>1, <2>3, PollerFields
  <2>7. Shows(q, l, c)
    <3>1. IndexOf(l, c)' = "kAdded" /\ ~Closing(c)'
      BY <1>6 DEF IndexOf, Open, Closing
    <3> QED BY <2>4, <2>6, <3>1 DEF Shows
  <2> HIDE DEF done
  <2> QED BY <1>0, <1>1, <1>2, <1>3, <1>8, <2>3, <2>5, <2>6, <2>7, PollerOne
<1>14. FdsInv'
  <2>1. \A d \in Conns : Alive(d)' => Alive(d)
    BY <1>1, <1>3, AliveSame
  <2> QED BY <1>0, <1>7, <2>1, FdsKept
<1>15. TypesInv'
  <2>1. TypeOK'
    BY <1>0, <1>1, <1>2, <1>3, <1>6 DEF TypesInv, TypeOK, QueueTypes
  <2> QED BY <1>0, <1>2, <1>3, <1>7, <1>13, <2>1 DEF TypesInv, QueueTypes
<1>16. ActiveInv'
  <2>1. \A k \in Loops : \A i \in DOMAIN active[k] :
           active[k][i] # Listener => conn'[active[k][i]] = conn[active[k][i]]
    BY <1>3, <1>4, <1>6 DEF Channels, Deals
  <2> QED BY <1>3, <2>1, ActiveKept
<1> QED BY <1>3, <1>9, <1>11, <1>13, <1>14, <1>15, <1>16 DEF ServerInv

(* TcpServer::removeConnectionInLoop of a connection of another loop.       *)
LEMMA RemoveStep == ASSUME ServerInv, NEW c \in Conns, RunRemove(c) PROVE ServerInv'
<1>0. /\ TypesInv /\ LoopInv /\ FunctorsInv /\ StageInv /\ PollerInv /\ ActiveInv /\ FdsInv
      /\ QueueTypes /\ Base \in Loops
      /\ {"removeConnectionInLoop", "connectDestroyed"} \subseteq Calls
  BY QueueTypesHold DEF ServerInv, Loops, Calls
<1>l. PICK l \in Loops : l = conn[c].loop
  BY <1>0 DEF TypesInv, TypeOK
<1> DEFINE done == {<<Base, "removeConnectionInLoop", c>>}
           added == {<<l, "connectDestroyed", c>>}
<1>1. /\ Runs(Base, "removeConnectionInLoop", c) /\ UNCHANGED <<conn, poller>>
      /\ connections' = connections \ {c} /\ Queue(l, "connectDestroyed", c)
  BY <1>l DEF RunRemove, RemoveConnectionInLoop
<1>2. Queued(Base, "removeConnectionInLoop", c)
  BY <1>0, <1>1, RunsQueued
<1>3. /\ conn[c].loop = l /\ Exists(c) /\ l # Base
      /\ conn[c].state = "kDisconnected" /\ c \in connections
  BY <1>0, <1>2, <1>l DEF FunctorsInv, StageInv, StageOf
<1>4. /\ ~Queued(l, "connectDestroyed", c) /\ ~Queued(l, "connectEstablished", c)
      /\ StageOf(c) /\ Alive(c)
  BY <1>0, <1>3 DEF StageInv, StageOf, Alive
<1>5. QueueTypes' /\ QueueEffect(done, added)
  BY <1>0, <1>1, <1>3, <1>4, RunAppendEffect
<1>6. /\ LoopInv'
      /\ UNCHANGED <<setup, phase, next, accepted, idleFd, pc, active, polled, handling, running,
                     arrived, waiting, peer>>
      /\ active \in [Loops -> Seq(Channels)]
  BY <1>0, <1>1, <1>5, RunsKeeps
<1>7. OnlyTouches(c, done, added)
  BY <1>1 DEF OnlyTouches, Untouched, Unqueued
<1>8. FunctorsInv'
  <2>1. \A d \in Conns : Exists(d) => Exists(d)' /\ conn'[d].loop = conn[d].loop
    BY <1>1 DEF Exists
  <2>2. Exists(c)' /\ conn'[c].loop = l
    BY <1>1, <1>3, <2>1
  <2> QED BY <1>0, <1>5, <2>1, <2>2, FunctorsStep
<1>9. /\ ~Queued(l, "connectEstablished", c)'
      /\ ~Queued(Base, "removeConnectionInLoop", c)'
      /\ Queued(l, "connectDestroyed", c)'
  <2>1. {"connectEstablished", "removeConnectionInLoop", "connectDestroyed"}
           \subseteq Calls \ {"forceCloseInLoop"}
    BY DEF Calls
  <2> QED BY <1>0, <1>3, <1>4, <1>5, <2>1 DEF QueueEffect
<1>10. conn'[c] = conn[c] /\ conn'[c].loop = l /\ c \notin connections'
  BY <1>1, <1>3
<1>11. StageInv'
  <2>1. StageOf(c)'
    BY <1>3, <1>4, <1>6, <1>9, <1>10 DEF StageOf, Open
  <2> HIDE DEF done, added
  <2> QED BY <1>0, <1>5, <1>6, <1>7, <2>1, StagesKept
<1>12. PollerInv'
  <2>1. Closing(c) /\ Closing(c)' /\ (Open(c)' <=> Open(c))
    BY <1>3, <1>4, <1>9, <1>10 DEF Closing, Open
  <2>2. \A k \in Loops : SameAt(k, c)
    BY <1>10, <2>1 DEF SameAt, IndexOf
  <2> HIDE DEF done, added
  <2> QED BY <1>0, <1>1, <1>5, <1>6, <1>7, <2>2, PollersKept
<1>13. FdsInv'
  <2>1. \A d \in Conns : Alive(d)' => Alive(d)
    BY <1>0, <1>1, <1>3, <1>4, <1>6, AliveAppend
  <2> QED BY <1>0, <1>1, <2>1, FdsKept DEF Exists
<1>14. TypesInv'
  <2>1. TypeOK'
    BY <1>0, <1>1, <1>5, <1>6 DEF TypesInv, TypeOK, QueueTypes
  <2> QED BY <1>0, <1>1, <1>5, <1>6, <2>1 DEF TypesInv, QueueTypes, Exists
<1>15. ActiveInv'
  BY <1>0, <1>1, <1>6 DEF ActiveInv, Deals, Open
<1> QED BY <1>6, <1>8, <1>11, <1>12, <1>13, <1>14, <1>15 DEF ServerInv

(* TcpConnection::connectDestroyed after a close.                           *)
LEMMA DestroyedStep == ASSUME ServerInv, NEW l \in Loops, NEW c \in Conns, RunDestroyed(l, c) PROVE ServerInv'
<1>0. /\ TypesInv /\ LoopInv /\ FunctorsInv /\ StageInv /\ PollerInv /\ ActiveInv /\ FdsInv
      /\ QueueTypes /\ Base \in Loops /\ "connectDestroyed" \in Calls
  BY QueueTypesHold DEF ServerInv, Loops, Calls
<1> DEFINE done == {<<l, "connectDestroyed", c>>}
           q == Poller!RemoveChannel(poller[l], c, conn[c].fd)
<1>1. /\ Runs(l, "connectDestroyed", c) /\ Destroyed(l, c) /\ UNCHANGED <<connections, pending>>
  BY DEF RunDestroyed
<1>2. QueueTypes' /\ Queued(l, "connectDestroyed", c) /\ QueueEffect(done, {})
  BY <1>0, <1>1, RunEffect
<1>3. /\ conn[c].loop = l /\ Exists(c) /\ conn[c].state = "kDisconnected" /\ c \notin connections
      /\ StageOf(c) /\ Closing(c)
  BY <1>0, <1>2 DEF FunctorsInv, StageInv, StageOf, Closing
<1>4. conn' = conn /\ poller' = [poller EXCEPT ![l] = q]
  <2>1. conn \in [Conns -> [state : {"none", "kConnecting", "kConnected",
                                    "kDisconnecting", "kDisconnected"},
                           loop : Loops, fd : 0..MaxFds]]
    BY <1>0 DEF TypesInv, TypeOK
  <2>2. conn' = [conn EXCEPT ![c].state = "kDisconnected"]
    BY <1>1, <1>3, <2>1 DEF Destroyed
  <2>3. [conn[c] EXCEPT !.state = "kDisconnected"] = conn[c]
    BY <1>3, <2>1
  <2>4. conn' = conn
    BY <2>1, <2>2, <2>3
  <2> QED BY <1>1, <1>3, <2>4 DEF Destroyed
<1>5. /\ LoopInv'
      /\ UNCHANGED <<setup, phase, next, accepted, idleFd, pc, active, polled, handling, running,
                     arrived, waiting, peer>>
      /\ active \in [Loops -> Seq(Channels)]
  BY <1>0, <1>1, <1>2, RunsKeeps
<1>6. OnlyTouches(c, done, {})
  BY <1>1, <1>4 DEF OnlyTouches, Untouched, Unqueued
<1>7. FunctorsInv'
  <2>1. \A d \in Conns : Exists(d) => Exists(d)' /\ conn'[d].loop = conn[d].loop
    BY <1>4 DEF Exists
  <2> QED BY <1>0, <1>2, <2>1, FunctorsStep
<1>8. /\ ~Queued(l, "connectEstablished", c)'
      /\ ~Queued(l, "connectDestroyed", c)'
      /\ Queued(Base, "removeConnectionInLoop", c)' <=> Queued(Base, "removeConnectionInLoop", c)
  <2>1. ~Queued(l, "connectEstablished", c)
    BY <1>3 DEF StageOf
  <2>2. {"connectEstablished", "removeConnectionInLoop", "connectDestroyed"}
           \subseteq Calls \ {"forceCloseInLoop"}
    BY DEF Calls
  <2> QED BY <1>0, <1>2, <2>1, <2>2 DEF QueueEffect
<1>9. StageInv'
  <2>1. StageOf(c)'
    BY <1>1, <1>3, <1>4, <1>8 DEF StageOf, Open
  <2> HIDE DEF done
  <2> QED BY <1>0, <1>2, <1>5, <1>6, <2>1, StagesKept
<1>10. PollerInv' /\ poller' \in [Loops -> Pollers]
  <2>1. /\ poller[l] \in Pollers /\ Wired(poller[l], Fds) /\ poller[l].index[c] # "kNew"
        /\ c \in Channels /\ Fds[c] = conn[c].fd /\ poller[l].events[c] = {}
    <3>1. IndexOf(l, c) = "kDeleted"
      BY <1>3 DEF IndexOf, Open
    <3>2. poller[l] \in Pollers /\ Wired(poller[l], Fds) /\ PollerOf(l)
      BY <1>0 DEF TypesInv, PollerInv, PollerOf
    <3> QED BY <1>3, <3>1, <3>2, FdsAre, ConnectionsApart DEF PollerOf
  <2>2. /\ q \in Pollers /\ Wired(q, Fds)
        /\ q.index = [poller[l].index EXCEPT ![c] = "kNew"]
        /\ q.events = poller[l].events
    <3>1. q = Poller!RemoveChannel(poller[l], c, Fds[c])
      BY <2>1
    <3> HIDE DEF q, Fds
    <3> QED BY <2>1, <3>1, DropChannel
  <2> HIDE DEF q
  <2>3. Wired(q, Fds')
    <3>1. Fds' = Fds
      BY <1>4 DEF Fds, FdOf
    <3> QED BY <2>2, <3>1
  <2>4. \A k \in Loops \ {l} : SameAt(k, c)
    BY <1>3, <1>4 DEF SameAt, IndexOf
  <2>5. /\ \A d \in Channels \ {c} : /\ q.index[d] = poller[l].index[d]
                                     /\ q.events[d] = poller[l].events[d]
        /\ q.index[c] = "kNew"
    BY <2>1, <2>2, PollerFields
  <2>6. Shows(q, l, c)
    <3>1. IndexOf(l, c)' = "kNew" /\ ~Closing(c)'
      BY <1>1, <1>3, <1>4, <1>8 DEF IndexOf, Open, Closing
    <3> QED BY <2>3, <2>5, <3>1 DEF Shows
  <2> HIDE DEF done
  <2> QED BY <1>0, <1>2, <1>4, <1>5, <1>6, <2>2, <2>4, <2>5, <2>6, PollerOne
<1>11. FdsInv'
  <2>1. \A d \in Conns : Alive(d)' => Alive(d)
    BY <1>1, <1>5, AliveSame
  <2> QED BY <1>0, <1>4, <2>1, FdsKept DEF Exists
<1>12. TypesInv'
  <2>1. TypeOK'
    BY <1>0, <1>1, <1>2, <1>4, <1>5 DEF TypesInv, TypeOK, QueueTypes
  <2> QED BY <1>0, <1>2, <1>4, <1>5, <1>10, <2>1 DEF TypesInv, QueueTypes, Exists
<1>13. ActiveInv'
  BY <1>0, <1>4, <1>5 DEF ActiveInv, Deals, Open
<1> QED BY <1>5, <1>7, <1>9, <1>10, <1>11, <1>12, <1>13 DEF ServerInv

-----------------------------------------------------------------------------
(* ~TcpServer: a connection of the map is destroyed, open or not.           *)
LEMMA DestroyConnectionStep == ASSUME ServerInv, NEW c \in Conns, DestroyConnection(c) PROVE ServerInv'
<1>0. /\ TypesInv /\ LoopInv /\ FunctorsInv /\ StageInv /\ PollerInv /\ ActiveInv /\ FdsInv
      /\ QueueTypes /\ Base \in Loops
      /\ {"connectEstablished", "removeConnectionInLoop", "connectDestroyed"}
             \subseteq Calls \ {"forceCloseInLoop"}
  BY QueueTypesHold DEF ServerInv, Loops, Calls
<1>1. /\ phase = "destroying" /\ c \in connections /\ connections' = connections \ {c}
      /\ Destroyed(Base, c)
      /\ UNCHANGED <<setup, phase, next, accepted, idleFd, pc, active, polled, handling, pending,
                     running, ran, arrived, waiting, peer>>
      /\ conn[c].state # "kDisconnecting" /\ CanRemoveChannel(c)
  BY DEF DestroyConnection, CanDestroyConnection, eventVars, clientVars
<1>2. /\ setup.threads = 0 /\ conn[c].loop = Base
      /\ \A i \in DOMAIN active[Base] : active[Base][i] # c
  <2>1. setup.threads = 0 /\ conn[c].loop = Base
    BY <1>0, <1>1 DEF LoopInv, TypesInv
  <2>2. c \notin polled \ handling \/ active[Base] = <<>>
    BY <1>0, <1>1 DEF LoopInv, CanRemoveChannel
  <2>3. \A i \in DOMAIN active[Base] : active[Base][i] \in polled \ handling
    BY <1>0 DEF LoopInv
  <2>4. DOMAIN <<>> = {}
    OBVIOUS
  <2> QED BY <2>1, <2>2, <2>3, <2>4
<1>3. Exists(c)
  <2>1. c \in 1..accepted /\ accepted \in Nat
    BY <1>0, <1>1, SetupIs DEF TypesInv, TypeOK
  <2> QED BY <1>0, <2>1 DEF TypesInv
<1>4. /\ StageOf(c) /\ conn[c].state \in {"kConnected", "kDisconnected"}
      /\ Closing(c) <=> conn[c].state = "kDisconnected"
      /\ conn \in [Conns -> [state : {"none", "kConnecting", "kConnected",
                                    "kDisconnecting", "kDisconnected"},
                           loop : Loops, fd : 0..MaxFds]]
  BY <1>0, <1>1, <1>2, <1>3 DEF StageInv, StageOf, Exists, TypesInv, TypeOK, Closing
<1>5. QueueEffect({}, {})
  BY <1>0, <1>1, NothingQueued
<1>6. /\ conn' \in [Conns -> [state : {"none", "kConnecting", "kConnected",
                                    "kDisconnecting", "kDisconnected"},
                           loop : Loops, fd : 0..MaxFds]]
      /\ \A d \in Conns \ {c} : conn'[d] = conn[d]
      /\ conn'[c].state = "kDisconnected" /\ conn'[c].loop = Base /\ conn'[c].fd = conn[c].fd
  BY <1>1, <1>2, <1>4 DEF Destroyed
<1>7. \A d \in Conns : /\ Exists(d)' <=> Exists(d)
                      /\ conn'[d].fd = conn[d].fd /\ conn'[d].loop = conn[d].loop
  BY <1>2, <1>3, <1>6 DEF Exists
<1>8. OnlyTouches(c, {}, {})
  BY <1>1, <1>6 DEF OnlyTouches, Untouched, Unqueued
<1>9. FunctorsInv'
  BY <1>0, <1>5, <1>7, FunctorsStep
<1>10. /\ ~Queued(Base, "connectEstablished", c)'
       /\ ~Queued(Base, "removeConnectionInLoop", c)'
       /\ ~Queued(Base, "connectDestroyed", c)'
  <2>1. /\ ~Queued(Base, "removeConnectionInLoop", c) /\ ~Queued(Base, "connectDestroyed", c)
        /\ ~Queued(Base, "connectEstablished", c)
    BY <1>0, <1>1, <1>2, <1>4 DEF StageOf, FunctorsInv
  <2> QED BY <1>0, <1>5, <2>1 DEF QueueEffect
<1>11. StageInv'
  <2>1. StageOf(c)'
    BY <1>1, <1>6, <1>10 DEF StageOf, Open
  <2> QED BY <1>0, <1>1, <1>5, <1>8, <2>1, StagesKept
<1>12. PollerInv' /\ poller' \in [Loops -> Pollers]
  <2> DEFINE p == IF conn[c].state = "kConnected"
                    THEN Poller!UpdateChannel(poller[Base], c, conn[c].fd, {}) ELSE poller[Base]
             q == Poller!RemoveChannel(p, c, conn[c].fd)
  <2>1. poller' = [poller EXCEPT ![Base] = q]
    BY <1>1 DEF Destroyed
  <2>2. /\ poller[Base] \in Pollers /\ Wired(poller[Base], Fds)
        /\ c \in Channels /\ Fds[c] = conn[c].fd
        /\ conn[c].state = "kConnected" => poller[Base].index[c] = "kAdded"
        /\ conn[c].state = "kDisconnected" =>
              poller[Base].index[c] = "kDeleted" /\ poller[Base].events[c] = {}
    BY <1>0, <1>2, <1>4, FdsAre, ConnectionsApart
    DEF TypesInv, PollerInv, PollerOf, IndexOf, Open
  <2>3. /\ p \in Pollers /\ Wired(p, Fds) /\ p.index[c] = "kDeleted" /\ p.events[c] = {}
        /\ \A d \in Channels \ {c} : /\ p.index[d] = poller[Base].index[d]
                                     /\ p.events[d] = poller[Base].events[d]
    <3>1. CASE conn[c].state = "kConnected"
      <4>1. p = Poller!UpdateChannel(poller[Base], c, Fds[c], {})
        BY <2>2, <3>1
      <4> HIDE DEF p, Fds
      <4>2. /\ p \in Pollers /\ Wired(p, Fds)
            /\ p.index = [poller[Base].index EXCEPT ![c] = "kDeleted"]
            /\ p.events = [poller[Base].events EXCEPT ![c] = {}]
        <5>1. poller[Base] \in Pollers /\ Wired(poller[Base], Fds) /\ c \in Channels
              /\ poller[Base].index[c] = "kAdded"
          BY <2>2, <3>1
        <5>2. IsUpdate(poller[Base], Fds, c, "kDeleted", {}, p)
          BY <4>1, <5>1, DisableChannel
        <5> QED BY <5>2 DEF IsUpdate
      <4>3. /\ poller[Base].index \in [Channels -> {"kNew", "kAdded", "kDeleted"}]
            /\ poller[Base].events \in [Channels -> SUBSET {"IN"}]
        BY <2>2, PollerFields
      <4> QED BY <2>2, <4>2, <4>3
    <3>2. CASE conn[c].state = "kDisconnected"
      BY <2>2, <3>2
    <3> QED BY <1>4, <3>1, <3>2
  <2> HIDE DEF p
  <2>4. /\ q \in Pollers /\ Wired(q, Fds) /\ q.index[c] = "kNew" /\ q.events[c] = {}
        /\ \A d \in Channels \ {c} : /\ q.index[d] = poller[Base].index[d]
                                     /\ q.events[d] = poller[Base].events[d]
    <3>1. q = Poller!RemoveChannel(p, c, Fds[c])
      BY <2>2
    <3> HIDE DEF q, Fds
    <3>2. q \in Pollers /\ Wired(q, Fds) /\ q.index = [p.index EXCEPT ![c] = "kNew"]
          /\ q.events = p.events
      BY <2>2, <2>3, <3>1, DropChannel
    <3> QED BY <2>2, <2>3, <3>2, PollerFields
  <2> HIDE DEF q
  <2>5. Wired(q, Fds')
    <3>1. \A d \in Channels : Fds'[d] = Fds[d]
      BY <1>7, FdsAre DEF Channels
    <3> HIDE DEF Fds
    <3> QED BY <2>4, <3>1, OtherDescriptors
  <2>6. \A k \in Loops \ {Base} : SameAt(k, c)
    BY <1>2, <1>6 DEF SameAt, IndexOf
  <2>7. Shows(q, Base, c)
    <3>1. IndexOf(Base, c)' = "kNew" /\ ~Closing(c)'
      BY <1>1, <1>6, <1>10 DEF IndexOf, Open, Closing
    <3> QED BY <2>4, <2>5, <3>1 DEF Shows
  <2> QED BY <1>0, <1>1, <1>5, <1>8, <2>1, <2>4, <2>6, <2>7, PollerOne
<1>13. FdsInv'
  <2>1. \A d \in Conns : Alive(d)' => Alive(d)
    BY <1>1, AliveSame
  <2> QED BY <1>0, <1>7, <2>1, FdsKept
<1>14. TypesInv'
  <2>1. TypeOK'
    BY <1>0, <1>1, <1>6 DEF TypesInv, TypeOK
  <2> QED BY <1>0, <1>1, <1>7, <1>12, <2>1 DEF TypesInv
<1>15. LoopInv'
  BY <1>0, <1>1 DEF LoopInv
<1>16. ActiveInv'
  <2>1. \A k \in Loops : \A i \in DOMAIN active[k] :
           Deals(k, active[k][i]) /\ active[k][i] \in Channels /\ (active[k][i] = c => k # Base)
    BY <1>0, <1>2 DEF ActiveInv, TypesInv, TypeOK, Channels
  <2>2. \A k \in Loops : \A i \in DOMAIN active[k] :
           active[k][i] # Listener => conn'[active[k][i]] = conn[active[k][i]]
    BY <1>2, <1>6, <2>1 DEF Channels, Deals
  <2> QED BY <1>0, <1>1, <2>1, <2>2, ActiveKept DEF ActiveInv
<1> QED BY <1>9, <1>11, <1>12, <1>13, <1>14, <1>15, <1>16 DEF ServerInv

(* ~TcpServer: the acceptor.                                                *)
LEMMA DestroyAcceptorStep == ASSUME ServerInv, DestroyAcceptor PROVE ServerInv'
<1>0. /\ TypesInv /\ LoopInv /\ FunctorsInv /\ StageInv /\ PollerInv /\ ActiveInv /\ FdsInv
      /\ Base \in Loops
  BY DEF ServerInv, Loops
<1>1. /\ phase = "destroying" /\ phase' = "destroyed" /\ waiting' = 0
      /\ handling' = {} /\ CanRemoveChannel(Listener)
      /\ UNCHANGED <<setup, next, accepted, connections, conn, pc, active, polled, pending,
                     running, ran, arrived, peer>>
  BY DEF DestroyAcceptor
<1>2. QueueEffect({}, {}) /\ \A c \in Conns : Untouched(c) /\ Unqueued({}, {}, c)
  BY <1>0, <1>1, NothingQueued DEF Untouched, Unqueued
<1>3. FunctorsInv'
  BY <1>0, <1>1, <1>2, FunctorsStep DEF Exists
<1>4. StageInv'
  BY <1>0, <1>1, <1>2, StageKept DEF StageInv
<1>5. FdsInv'
  <2>1. \A c \in Conns : Alive(c)' => Alive(c)
    BY <1>1, AliveSame
  <2> QED BY <1>0, <1>1, <2>1, FdsKept DEF Exists
<1>6. PollerInv' /\ poller' \in [Loops -> Pollers]
  <2> DEFINE p == Poller!UpdateChannel(poller[Base], Listener, ListenFd, {})
             q == Poller!RemoveChannel(p, Listener, ListenFd)
  <2>1. poller' = [poller EXCEPT ![Base] = q] /\ poller[Base] \in Pollers /\ poller \in [Loops -> Pollers]
    BY <1>0, <1>1 DEF DestroyAcceptor, TypesInv
  <2>2. /\ Listener \in Channels /\ Fds[Listener] = ListenFd /\ Wired(poller[Base], Fds)
        /\ poller[Base].index[Listener] = "kAdded"
    BY <1>0, <1>1, FdsAre, ConnectionsApart DEF PollerInv, PollerOf, ListenerIndex
  <2>3. /\ p \in Pollers /\ Wired(p, Fds)
        /\ p.index = [poller[Base].index EXCEPT ![Listener] = "kDeleted"]
        /\ p.events = [poller[Base].events EXCEPT ![Listener] = {}]
    <3>1. p = Poller!UpdateChannel(poller[Base], Listener, Fds[Listener], {})
      BY <2>2
    <3>2. poller[Base] \in Pollers
      BY <2>1
    <3> HIDE DEF p, Fds
    <3>3. IsUpdate(poller[Base], Fds, Listener, "kDeleted", {}, p)
      BY <2>2, <3>1, <3>2, DisableChannel
    <3> QED BY <3>3 DEF IsUpdate
  <2>4. p.index[Listener] = "kDeleted"
    BY <2>1, <2>2, <2>3, PollerFields
  <2> HIDE DEF p
  <2>5. /\ q \in Pollers /\ Wired(q, Fds)
        /\ q.index = [p.index EXCEPT ![Listener] = "kNew"]
        /\ q.events = p.events
    <3>1. q = Poller!RemoveChannel(p, Listener, Fds[Listener])
      BY <2>2
    <3> HIDE DEF q, Fds
    <3> QED BY <2>2, <2>3, <2>4, <3>1, DropChannel
  <2> HIDE DEF q
  <2>6. poller' \in [Loops -> Pollers] /\ poller'[Base] = q
    BY <1>0, <2>1, <2>5
  <2>7. PollerOf(Base)'
    <3>1. \A c \in Conns : q.index[c] = poller[Base].index[c] /\ q.events[c] = poller[Base].events[c]
      BY <2>1, <2>3, <2>5, ConnectionsApart, PollerFields
    <3>2. q.index[Listener] = ListenerIndex(Base)'
      BY <1>1, <2>2, <2>3, <2>5, PollerFields DEF ListenerIndex
    <3>3. PollerOf(Base)
      BY <1>0 DEF PollerInv
    <3> HIDE DEF Fds
    <3> QED BY <1>0, <1>1, <1>2, <2>5, <2>6, <3>1, <3>2, <3>3, ListenerStep
  <2>8. ASSUME NEW k \in Loops, k # Base PROVE PollerOf(k)'
    <3>1. poller'[k] = poller[k]
      BY <2>1, <2>8
    <3>2. \A c \in Conns : SameAt(k, c)
      BY <1>0, <1>2, KeepsAt
    <3>3. ListenerIndex(k)' = ListenerIndex(k)
      BY <2>8 DEF ListenerIndex
    <3> QED BY <1>0, <3>1, <3>2, <3>3, PollerKept DEF KeepsIndex, PollerInv
  <2> QED BY <2>6, <2>7, <2>8 DEF PollerInv
<1>7. TypesInv'
  <2>1. accepted + waiting' <= arrived /\ waiting' \in Nat
    <3>1. accepted \in Nat /\ waiting \in Nat /\ arrived \in Nat /\ accepted + waiting <= arrived
      BY <1>0, SetupIs DEF TypesInv, TypeOK
    <3> QED BY <1>1, <3>1
  <2> QED BY <1>0, <1>1, <1>6, <2>1 DEF TypesInv, TypeOK, Exists
<1>8. LoopInv'
  BY <1>0, <1>1 DEF LoopInv
<1>9. ActiveInv'
  <2>1. \A i \in DOMAIN active[Base] : active[Base][i] # Listener
    <3>1. Listener \notin handling
      BY <1>0, ConnectionsApart DEF TypesInv, TypeOK
    <3>2. CASE pc[Base] = "events"
      BY <1>0, <1>1, <3>1, <3>2 DEF LoopInv, CanRemoveChannel
    <3>3. CASE pc[Base] # "events"
      BY <1>0, <3>3 DEF LoopInv
    <3> QED BY <3>2, <3>3
  <2>2. ASSUME NEW k \in Loops, NEW i \in DOMAIN active[k] PROVE Deals(k, active[k][i])'
    <3>1. Deals(k, active[k][i])
      BY <1>0 DEF ActiveInv
    <3>2. active[k][i] # Listener
      BY <2>1, <3>1 DEF Deals
    <3> QED BY <1>1, <3>1, <3>2 DEF Deals, Open
  <2> QED BY <1>0, <1>1, <2>2 DEF ActiveInv
<1> QED BY <1>3, <1>4, <1>5, <1>6, <1>7, <1>8, <1>9 DEF ServerInv

-----------------------------------------------------------------------------
(* A set of numbers that is not empty has a least one: the intervals from 0 *)
(* are well-founded by inclusion below any member. *)
LEMMA LeastNatural ==
    ASSUME NEW S \in SUBSET Nat, S # {}
    PROVE  \E m \in S : \A n \in S : m <= n
<1>1. PICK x \in S : TRUE
  OBVIOUS
<1> DEFINE below == {0..n : n \in {k \in S : k <= x}}
<1>2. IsFiniteSet(0..x)
  BY FS_Interval
<1>3. 0..x \in below
  BY <1>1
<1>4. below \subseteq FiniteSubsetsOf(0..x)
  <2>1. \A n \in {k \in S : k <= x} : 0..n \subseteq 0..x
    OBVIOUS
  <2>2. \A n \in {k \in S : k <= x} : IsFiniteSet(0..n)
    BY FS_Interval
  <2> QED BY <2>1, <2>2 DEF FiniteSubsetsOf
<1>5. PICK b \in below : \A c \in below : <<c, b>> \notin StrictSubsetOrdering(0..x)
  <2> HIDE DEF below
  <2>1. IsWellFoundedOn(StrictSubsetOrdering(0..x), FiniteSubsetsOf(0..x))
    BY FS_StrictSubsetOrderingWellFounded
  <2> QED BY <1>3, <1>4, <2>1, WFMin
<1>6. PICK m \in {k \in S : k <= x} : b = 0..m
  BY <1>5
<1>7. ASSUME NEW n \in S PROVE m <= n
  <2> SUFFICES ASSUME n < m PROVE FALSE
    OBVIOUS
  <2>1. 0..n \in below
    BY <1>6
  <2>2. <<0..n, b>> \in StrictSubsetOrdering(0..x)
    <3>1. 0..n \subseteq 0..x /\ b \subseteq 0..x
      BY <1>6
    <3>2. m \in b /\ m \notin 0..n /\ 0..n \subseteq b
      BY <1>6
    <3> QED BY <3>1, <3>2 DEF StrictSubsetOrdering
  <2> QED BY <1>5, <2>1, <2>2
<1> QED BY <1>6, <1>7

(* The lowest free descriptor is one of them.                               *)
LEMMA FreeIs ==
    ASSUME TypesInv, FreeFds # {}
    PROVE  Min(FreeFds) \in FreeFds /\ FreeFds \subseteq 2..MaxFds
<1>1. setup.fds \in 3..MaxFds /\ MaxFds \in Nat
  BY SetupIs
<1>2. FreeFds \subseteq 2..MaxFds /\ FreeFds \in SUBSET Nat
  BY <1>1 DEF FreeFds
<1>3. PICK m \in FreeFds : \A n \in FreeFds : m <= n
  BY <1>2, LeastNatural
<1> QED BY <1>2, <1>3 DEF Min

(* What Acceptor::handleRead finds: a connection that was not there, its    *)
(* loop, and a descriptor nobody has.                                       *)
LEMMA AcceptFinds ==
    ASSUME ServerInv, FreeFds # {}, Deals(Base, Listener)
    PROVE  /\ accepted + 1 \in Conns /\ accepted \in Nat /\ NextLoop \in Loops
           /\ setup.threads = 0 => NextLoop = Base
           /\ conn[accepted + 1].state = "none" /\ accepted + 1 \notin connections
           /\ \A l \in Loops, f \in Calls : ~Queued(l, f, accepted + 1)
           /\ \A l \in Loops : IndexOf(l, accepted + 1) = "kNew"
           /\ Min(FreeFds) \in 2..MaxFds
           /\ \A d \in Conns : Exists(d) /\ Alive(d) => conn[d].fd # Min(FreeFds)
<1>0. TypesInv /\ FunctorsInv /\ StageInv
  BY DEF ServerInv
<1>1. /\ accepted \in Nat /\ waiting \in Nat /\ arrived \in Nat /\ waiting > 0
      /\ accepted + waiting <= arrived /\ arrived <= setup.clients
      /\ setup.clients \in Nat /\ setup.clients <= MaxClients /\ MaxClients \in Nat
  <2>1. waiting > 0
    BY DEF Deals
  <2>2. accepted \in Nat
    <3>1. accepted \in 0..MaxClients
      BY <1>0 DEF TypesInv, TypeOK
    <3> QED BY <3>1, BoundsAssumption
  <2>3. /\ waiting \in Nat /\ arrived \in Nat
        /\ accepted + waiting <= arrived /\ arrived <= setup.clients
    BY <1>0 DEF TypesInv
  <2> QED BY <1>0, <2>1, <2>2, <2>3, SetupIs
<1>2. accepted + 1 \in Conns /\ ~(accepted + 1 <= accepted)
  BY <1>1 DEF Conns
<1>3. ~Exists(accepted + 1)
  BY <1>0, <1>2 DEF TypesInv
<1>4. conn[accepted + 1].state = "none" /\ accepted + 1 \notin connections
  BY <1>0, <1>1, <1>3 DEF Exists, TypesInv, TypeOK
<1>5. \A l \in Loops, f \in Calls : ~Queued(l, f, accepted + 1)
  BY <1>0, <1>2, <1>3 DEF FunctorsInv, Calls
<1>6. \A l \in Loops : IndexOf(l, accepted + 1) = "kNew"
  BY <1>4 DEF IndexOf, Open, Closing
<1>7. NextLoop \in Loops
  <2>1. CASE setup.threads = 0
    BY <2>1 DEF NextLoop, Loops
  <2>2. CASE setup.threads # 0
    <3>1. /\ next \in 0..Len(IoLoops) /\ setup.threads \in 0..Len(IoLoops) /\ next < setup.threads
          /\ IoLoops \in Seq(Range(IoLoops))
      BY <1>0, <2>2, SetupIs, LoopsAssumption DEF TypesInv, TypeOK
    <3>2. next + 1 \in DOMAIN IoLoops
      BY <3>1
    <3>3. IoLoops[next + 1] \in Range(IoLoops)
      BY <3>1, <3>2
    <3> QED BY <2>2, <3>3 DEF NextLoop, Loops
  <2> QED BY <2>1, <2>2
<1>8. Min(FreeFds) \in FreeFds /\ FreeFds \subseteq 2..MaxFds
  BY <1>0, FreeIs
<1>9. \A d \in Conns : Exists(d) /\ Alive(d) => conn[d].fd \in OpenFds
  BY DEF OpenFds
<1>10. FreeFds \intersect OpenFds = {}
  BY DEF FreeFds
<1> QED BY <1>1, <1>2, <1>4, <1>5, <1>6, <1>7, <1>8, <1>9, <1>10 DEF NextLoop

(* A channel is added for a descriptor the poller's map does not have.      *)
LEMMA AddNew ==
    ASSUME NEW p \in Pollers, NEW F, Wired(p, F), NEW G, NEW c \in Channels, NEW fd \in 0..MaxFds,
           p.index[c] = "kNew", fd \notin DOMAIN p.channels, G[c] = fd,
           \A d \in Channels : p.index[d] # "kNew" => G[d] = F[d],
           NEW q, q = Poller!UpdateChannel(p, c, fd, {"IN"})
    PROVE  /\ q \in Pollers /\ Wired(q, G) /\ q.index[c] = "kAdded"
           /\ \A d \in Channels \ {c} : q.index[d] = p.index[d] /\ q.events[d] = p.events[d]
<1>1. Wired(p, G)
  BY OtherDescriptors
<1>2. /\ q \in Pollers /\ Wired(q, G)
      /\ q.index = [p.index EXCEPT ![c] = "kAdded"]
      /\ q.events = [p.events EXCEPT ![c] = {"IN"}]
  BY <1>1, AddChannel DEF IsUpdate
<1> QED BY <1>2, PollerFields

(* A new connection and its poller, when connectEstablished runs at once.   *)
LEMMA AcceptPoller ==
    ASSUME ServerInv, NEW l \in Loops, NEW c \in Conns, NEW fd \in 2..MaxFds,
           \A k \in Loops : IndexOf(k, c) = "kNew",
           \A d \in Conns : Exists(d) /\ Alive(d) => conn[d].fd # fd,
           QueueEffect({}, {}), OnlyTouches(c, {}, {}), phase' = phase,
           conn'[c].state = "kConnected", conn'[c].loop = l, conn'[c].fd = fd,
           poller' = [poller EXCEPT ![l] = Poller!UpdateChannel(poller[l], c, fd, {"IN"})]
    PROVE  PollerInv' /\ poller' \in [Loops -> Pollers]
<1>0. TypesInv /\ StageInv /\ PollerInv /\ PollerOf(l)
  BY DEF ServerInv, PollerInv
<1> DEFINE q == Poller!UpdateChannel(poller[l], c, fd, {"IN"})
<1>1. /\ poller[l] \in Pollers /\ Wired(poller[l], Fds) /\ poller[l].index[c] = "kNew"
      /\ c \in Channels /\ c # Listener /\ fd \in 0..MaxFds
  BY <1>0, ConnectionsApart DEF TypesInv, PollerOf
<1>2. fd \notin DOMAIN poller[l].channels
  BY <1>0, NoEntry
<1>3. Fds'[c] = fd /\ \A d \in Channels : poller[l].index[d] # "kNew" => Fds'[d] = Fds[d]
  <2>1. \A d \in Conns : d # c => conn'[d] = conn[d]
    BY DEF OnlyTouches, Untouched
  <2> QED BY <1>1, <2>1, FdsAre DEF Channels
<1>4. q = Poller!UpdateChannel(poller[l], c, fd, {"IN"}) /\ poller' = [poller EXCEPT ![l] = q]
  OBVIOUS
<1>5. /\ q \in Pollers /\ Wired(q, Fds') /\ q.index[c] = "kAdded"
      /\ \A d \in Channels \ {c} : /\ q.index[d] = poller[l].index[d]
                                   /\ q.events[d] = poller[l].events[d]
  <2> HIDE DEF q, Fds
  <2> QED BY <1>1, <1>2, <1>3, <1>4, AddNew
<1> HIDE DEF q
<1>6. \A k \in Loops \ {l} : SameAt(k, c)
  BY DEF SameAt, IndexOf
<1>7. Shows(q, l, c)
  <2>1. IndexOf(l, c)' = "kAdded" /\ ~Closing(c)'
    BY DEF IndexOf, Open, Closing
  <2> QED BY <1>5, <2>1 DEF Shows
<1>8. QueueEffect({}, {}) /\ OnlyTouches(c, {}, {}) /\ phase' = phase
  OBVIOUS
<1>9. /\ TypesInv /\ StageInv /\ PollerInv /\ q \in Pollers /\ poller' = [poller EXCEPT ![l] = q]
      /\ \A k \in Loops \ {l} : SameAt(k, c)
      /\ \A d \in Channels \ {c} : /\ q.index[d] = poller[l].index[d]
                                   /\ q.events[d] = poller[l].events[d]
      /\ Shows(q, l, c)
  BY <1>0, <1>4, <1>5, <1>6, <1>7
<1> QED BY <1>8, <1>9, PollerOne

(* Acceptor::handleRead and TcpServer::newConnection.                       *)
LEMMA AcceptStep == ASSUME ServerInv, Accept PROVE ServerInv'
<1>0. /\ TypesInv /\ LoopInv /\ FunctorsInv /\ StageInv /\ PollerInv /\ ActiveInv /\ FdsInv
      /\ QueueTypes /\ Base \in Loops
      /\ {"connectEstablished", "removeConnectionInLoop", "connectDestroyed"}
             \subseteq Calls \ {"forceCloseInLoop"}
  BY QueueTypesHold DEF ServerInv, Loops, Calls
<1>1. Handles(Base, Listener) /\ FreeFds # {} /\ waiting' = waiting - 1 /\ accepted' = accepted + 1
      /\ AdvanceNext /\ connections' = connections \union {accepted + 1} /\ peer' = peer
      /\ Undisturbed /\ UNCHANGED <<phase, handling>>
  BY DEF Accept, Undisturbed
<1>2. /\ LoopInv' /\ Deals(Base, Listener)
      /\ UNCHANGED <<setup, phase, idleFd, pc, polled, handling, running, ran, arrived>>
      /\ active' \in [Loops -> Seq(Channels)]
      /\ \A k \in Loops : IsInjective(active'[k])
      /\ \A k \in Loops : \A i \in DOMAIN active'[k] :
            active'[k][i] \in Channels /\ Deals(k, active'[k][i]) /\ active'[k][i] # Listener
  BY <1>0, <1>1, HandlesKeeps, ConnectionsApart
<1>3. PICK c \in Conns, l \in Loops, fd \in 2..MaxFds :
           c = accepted + 1 /\ l = NextLoop /\ fd = Min(FreeFds)
  BY <1>1, <1>2, AcceptFinds
<1>4. /\ setup.threads = 0 => l = Base
      /\ conn[c].state = "none" /\ c \notin connections
      /\ \A k \in Loops, f \in Calls : ~Queued(k, f, c)
      /\ \A k \in Loops : IndexOf(k, c) = "kNew"
      /\ \A d \in Conns : Exists(d) /\ Alive(d) => conn[d].fd # fd
  BY <1>1, <1>2, <1>3, AcceptFinds
<1> DEFINE cn == [state |-> "kConnecting", loop |-> l, fd |-> fd]
<1>5. IF l = Base THEN /\ conn' = [conn EXCEPT ![c] = [cn EXCEPT !.state = "kConnected"]]
                       /\ poller' = [poller EXCEPT ![l] = Poller!UpdateChannel(poller[l], c, fd, {"IN"})]
                       /\ pending' = pending
      ELSE conn' = [conn EXCEPT ![c] = cn] /\ Queue(l, "connectEstablished", c) /\ poller' = poller
  BY <1>3 DEF Accept, Established
<1>6. /\ conn' \in [Conns -> [state : {"none", "kConnecting", "kConnected",
                                    "kDisconnecting", "kDisconnected"},
                           loop : Loops, fd : 0..MaxFds]]
      /\ \A d \in Conns \ {c} : conn'[d] = conn[d]
      /\ conn'[c].loop = l /\ conn'[c].fd = fd
      /\ conn'[c].state = IF l = Base THEN "kConnected" ELSE "kConnecting"
  <2>1. conn \in [Conns -> [state : {"none", "kConnecting", "kConnected",
                                    "kDisconnecting", "kDisconnected"},
                           loop : Loops, fd : 0..MaxFds]]
    BY <1>0 DEF TypesInv, TypeOK
  <2>2. fd \in 0..MaxFds
    OBVIOUS
  <2> QED BY <1>5, <2>1, <2>2
<1> HIDE DEF cn
<1>7. PICK added \in {{}, {<<l, "connectEstablished", c>>}} :
         /\ added = IF l = Base THEN {} ELSE {<<l, "connectEstablished", c>>}
         /\ QueueTypes' /\ QueueEffect({}, added)
  <2>1. CASE l = Base
    <3>1. QueueEffect({}, {})
      BY <1>0, <1>2, <1>5, <2>1, NothingQueued
    <3>2. QueueTypes'
      BY <1>0, <1>2, <1>5, <2>1 DEF QueueTypes
    <3> QED BY <2>1, <3>1, <3>2
  <2>2. CASE l # Base
    <3>1. QueueTypes' /\ QueueEffect({}, {<<l, "connectEstablished", c>>})
      BY <1>0, <1>2, <1>4, <1>5, <2>2, AppendEffect
    <3> QED BY <2>2, <3>1
  <2> QED BY <2>1, <2>2
<1>8. OnlyTouches(c, {}, added)
  BY <1>1, <1>3, <1>6, <1>7 DEF OnlyTouches, Untouched, Unqueued
<1>9. Exists(c)' /\ ~Exists(c) /\ \A d \in Conns \ {c} : Exists(d)' <=> Exists(d)
  BY <1>4, <1>6 DEF Exists
<1>10. FunctorsInv'
  <2>1. \A d \in Conns : Exists(d) => Exists(d)' /\ conn'[d].loop = conn[d].loop
    BY <1>6, <1>9
  <2>2. \A k \in Loops, f \in Calls, d \in Conns : <<k, f, d>> \in added =>
           f = "connectEstablished" /\ k = l /\ d = c
    BY <1>7
  <2> QED BY <1>0, <1>6, <1>7, <1>9, <2>1, <2>2, FunctorsStep
<1>11. /\ Queued(l, "connectEstablished", c)' <=> l # Base
       /\ ~Queued(Base, "removeConnectionInLoop", c)'
       /\ ~Queued(l, "connectDestroyed", c)'
  <2>1. \A f \in Calls : <<l, f, c>> \in added <=> f = "connectEstablished" /\ l # Base
    BY <1>7
  <2>2. \A f \in Calls : <<Base, f, c>> \notin added
    BY <1>7
  <2> QED BY <1>0, <1>4, <1>7, <2>1, <2>2 DEF QueueEffect
<1>12. StageInv'
  <2>1. StageOf(c)'
    BY <1>1, <1>3, <1>6, <1>11 DEF StageOf, Open
  <2> QED BY <1>0, <1>2, <1>7, <1>8, <2>1, StagesKept
<1>13. PollerInv' /\ poller' \in [Loops -> Pollers]
  <2>1. CASE l = Base
    BY <1>2, <1>4, <1>5, <1>6, <1>7, <1>8, <2>1, AcceptPoller
  <2>2. CASE l # Base
    <3>1. \A k \in Loops : SameAt(k, c)
      <4>1. \A k \in Loops : IndexOf(k, c)' = "kNew" /\ ~Closing(c)'
        BY <1>6, <2>2 DEF IndexOf, Open, Closing
      <4> QED BY <1>4, <4>1 DEF SameAt
    <3>2. poller' = poller /\ poller \in [Loops -> Pollers]
      BY <1>0, <1>5, <2>2 DEF TypesInv
    <3> QED BY <1>0, <1>2, <1>7, <1>8, <3>1, <3>2, PollersKept
  <2> QED BY <2>1, <2>2
<1>14. FdsInv'
  <2>1. ASSUME NEW d \in Conns, d # c, Exists(d)', Alive(d)'
        PROVE  Exists(d) /\ Alive(d) /\ conn'[d].fd = conn[d].fd
    <3>1. /\ d \in connections' => d \in connections
          /\ d \in handling' => d \in handling \union connections
      BY <1>1, <1>3, <2>1
    <3>2. CASE l = Base
      <4>1. UNCHANGED <<pending, running>>
        BY <1>2, <1>5, <3>2
      <4> QED BY <1>6, <1>9, <2>1, <3>1, <4>1, AliveSame
    <3>3. CASE l # Base
      <4>1. "connectEstablished" \in Calls /\ Queue(l, "connectEstablished", c) /\ running' = running
        BY <1>0, <1>2, <1>5, <3>3
      <4> QED BY <1>0, <1>6, <1>9, <2>1, <3>1, <4>1, AliveAppend
    <3> QED BY <3>2, <3>3
  <2>2. \A d \in Conns : d # c /\ Exists(d)' /\ Alive(d)' => conn'[d].fd # fd
    BY <1>4, <2>1
  <2> QED BY <1>0, <1>6, <2>1, <2>2 DEF FdsInv
<1>15. TypesInv'
  <2>1. /\ accepted \in Nat /\ waiting \in Nat /\ arrived \in Nat /\ waiting > 0
        /\ accepted + waiting <= arrived /\ arrived <= setup.clients
        /\ MaxClients \in Nat /\ setup.threads \in 0..Len(IoLoops)
        /\ next \in 0..Len(IoLoops) /\ Len(IoLoops) \in Nat
        /\ setup.threads # 0 => next < setup.threads
    <3>1. Len(IoLoops) \in Nat
      BY LoopsAssumption
    <3>2. next \in 0..Len(IoLoops) /\ accepted \in 0..MaxClients
      BY <1>0 DEF TypesInv, TypeOK
    <3> QED BY <1>0, <1>2, <3>1, <3>2, SetupIs DEF TypesInv, Deals
  <2>2. /\ waiting' \in Nat /\ accepted' + waiting' <= arrived' /\ arrived' <= setup'.clients
        /\ accepted' \in 0..MaxClients /\ arrived' \in Nat
    <3>1. accepted + 1 <= MaxClients
      BY <1>3, <2>1 DEF Conns
    <3> QED BY <1>1, <1>2, <2>1, <3>1
  <2>3. next' \in 0..Len(IoLoops) /\ (setup.threads # 0 => next' < setup.threads)
    BY <1>1, <2>1 DEF AdvanceNext
  <2>4. connections' \subseteq 1..accepted'
    <3>1. connections \subseteq 1..accepted
      BY <1>0 DEF TypesInv, TypeOK
    <3> QED BY <1>1, <2>1, <3>1
  <2>5. TypeOK'
    BY <1>0, <1>1, <1>2, <1>6, <2>2, <2>3, <2>4 DEF TypesInv, TypeOK, Channels
  <2>6. \A d \in Conns : Exists(d)' <=> d <= accepted'
    <3>1. \A d \in Conns : d \in Nat /\ (Exists(d) <=> d <= accepted)
      BY <1>0, <2>1 DEF TypesInv, Conns
    <3> QED BY <1>1, <1>3, <1>9, <2>1, <3>1
  <2>7. \A d \in Conns : Exists(d)' => conn'[d].fd \in 2..MaxFds
    BY <1>0, <1>6, <1>9 DEF TypesInv
  <2>8. setup'.threads = 0 => \A d \in Conns : conn'[d].loop = Base
    BY <1>0, <1>2, <1>4, <1>6 DEF TypesInv
  <2> QED BY <1>2, <1>7, <1>13, <2>2, <2>3, <2>5, <2>6, <2>7, <2>8 DEF TypesInv, QueueTypes
<1>16. ActiveInv'
  <2>1. \A k \in Loops : \A d \in Conns : Deals(k, d) => conn'[d] = conn[d]
    BY <1>4, <1>6, ConnectionsApart DEF Deals, Open
  <2>2. \A k \in Loops : \A i \in DOMAIN active'[k] :
           active'[k][i] # Listener /\ conn'[active'[k][i]] = conn[active'[k][i]]
    BY <1>2, <2>1 DEF Channels
  <2> QED BY <1>2, <2>2, ActiveKept
<1> QED BY <1>2, <1>10, <1>12, <1>13, <1>14, <1>15, <1>16 DEF ServerInv

-----------------------------------------------------------------------------
(* The invariant holds at first.                                            *)
LEMMA ServerInit == Init => ServerInv
<1> SUFFICES ASSUME Init PROVE ServerInv
  OBVIOUS
<1>1. /\ setup \in Setups /\ phase = "new" /\ next = 0 /\ accepted = 0 /\ connections = {}
      /\ conn = [c \in Conns |-> [state |-> "none", loop |-> Base, fd |-> 0]]
      /\ pc = [l \in Loops |-> "poll"] /\ active = [l \in Loops |-> <<>>]
      /\ poller = [l \in Loops |-> Poller!NewPoller]
      /\ pending = [l \in Loops |-> <<>>] /\ running = [l \in Loops |-> <<>>]
      /\ ran = [l \in Loops |-> 0] /\ arrived = 0 /\ waiting = 0 /\ polled = {} /\ handling = {}
      /\ peer = [c \in Conns |-> [data |-> FALSE, closed |-> FALSE]]
  BY DEF Init
<1>2. /\ MaxFds \in Nat /\ MaxClients \in Nat /\ Len(IoLoops) \in Nat /\ Base \in Loops
      /\ setup.threads \in 0..Len(IoLoops) /\ setup.clients \in 1..MaxClients
  BY <1>1, LoopsAssumption, BoundsAssumption, SetupsAssumption DEF Loops
<1>3. \A c \in Conns : conn[c].state = "none" /\ conn[c].loop = Base /\ c \in Nat /\ c > 0
  BY <1>1, <1>2 DEF Conns
<1>4. /\ DOMAIN <<>> = {} /\ Len(<<>>) = 0 /\ \A S : <<>> \in Seq(S)
      /\ <<>> \in [{} -> Channels] /\ <<>> \in [{} -> Watched]
  <2>1. DOMAIN <<>> = {} /\ Len(<<>>) = 0
    OBVIOUS
  <2>2. \A S : <<>> \in Seq(S)
    OBVIOUS
  <2>3. <<>> \in [{} -> Channels]
    OBVIOUS
  <2>4. <<>> \in [{} -> Watched]
    OBVIOUS
  <2> QED BY <2>1, <2>2, <2>3, <2>4
<1>5. \A l \in Loops : \A f, c : ~Queued(l, f, c) /\ Once(l, f, c)
  BY <1>1, <1>4 DEF Queued, Once, InQueue, Single
<1>6. Poller!NewPoller \in Pollers /\ Wired(Poller!NewPoller, Fds)
  <2>1. /\ Poller!NewPoller.channels = <<>> /\ Poller!NewPoller.watched = <<>>
        /\ Poller!NewPoller.index = [c \in Channels |-> "kNew"]
        /\ Poller!NewPoller.events = [c \in Channels |-> {}]
        /\ Poller!NewPoller \in [channels : {<<>>}, watched : {<<>>},
               index : {[c \in Channels |-> "kNew"]}, events : {[c \in Channels |-> {}]}]
    BY DEF Poller!NewPoller, Channels
  <2>2. <<>> \in Partial(0..MaxFds, Channels) /\ <<>> \in Partial(0..MaxFds, Watched)
    BY <1>4 DEF Partial
  <2>3. Poller!NewPoller \in Pollers
    BY <2>1, <2>2 DEF Pollers
  <2> QED BY <1>4, <2>1, <2>3 DEF Wired
<1>7. TypesInv
  <2>1. TypeOK
    BY <1>1, <1>2, <1>4 DEF TypeOK
  <2> QED BY <1>1, <1>2, <1>3, <1>4, <1>6, <2>1 DEF TypesInv, Exists
<1>8. LoopInv
  BY <1>1, <1>4 DEF LoopInv, Loops
<1>9. FunctorsInv /\ StageInv /\ FdsInv
  BY <1>1, <1>2, <1>3, <1>5 DEF FunctorsInv, StageInv, StageOf, FdsInv, Exists, Open
<1>10. ActiveInv
  BY <1>1, <1>4 DEF ActiveInv, IsInjective
<1>11. PollerInv
  <2> SUFFICES ASSUME NEW l \in Loops PROVE PollerOf(l)
    BY DEF PollerInv
  <2>1. poller[l] = Poller!NewPoller /\ \A c \in Channels : poller[l].index[c] = "kNew"
    BY <1>1 DEF Poller!NewPoller, Channels
  <2>2. \A c \in Conns : IndexOf(l, c) = "kNew" /\ ~Closing(c)
    BY <1>3 DEF IndexOf, Closing, Open
  <2>3. ListenerIndex(l) = "kNew"
    BY <1>1 DEF ListenerIndex
  <2> QED BY <1>6, <2>1, <2>2, <2>3, ConnectionsApart DEF PollerOf
<1> QED BY <1>7, <1>8, <1>9, <1>10, <1>11 DEF ServerInv

(* Every step keeps the invariant.                                          *)
LEMMA ServerStep == ServerInv /\ [Next]_vars => ServerInv'
<1> SUFFICES ASSUME ServerInv, [Next]_vars PROVE ServerInv'
  OBVIOUS
<1>1. CASE UNCHANGED vars
  <2>1. UNCHANGED <<setup, phase, next, accepted, connections, idleFd, conn, pc, active, poller,
                    polled, handling, pending, running, ran, arrived, waiting, peer>>
    BY <1>1 DEF vars, serverVars, loopVars, eventVars, clientVars
  <2>2. TypesInv' /\ LoopInv' /\ ActiveInv'
    BY <2>1 DEF ServerInv, TypesInv, TypeOK, LoopInv, ActiveInv, Deals, Exists, Open
  <2>3. QueueEffect({}, {}) /\ \A c \in Conns : Alive(c)' => Alive(c)
    BY <2>1, NothingQueued, AliveSame DEF ServerInv
  <2>4. FunctorsInv' /\ StageInv' /\ PollerInv' /\ FdsInv'
    BY <2>1, <2>3, SameKeeps
  <2> QED BY <2>2, <2>4 DEF ServerInv
<1>2. CASE Start \/ Destroy \/ Clients
  BY <1>2, StartStep, QuietStep
<1>3. ASSUME NEW l \in Loops, LoopStep(l) PROVE ServerInv'
  <2>1. CASE Poll(l) \/ TakeFunctors(l) \/ DropFunctors(l)
    BY <2>1, PollStep, TakeStep, DropStep
  <2>2. CASE Refuse \/ Accept
    BY <2>2, RefuseStep, AcceptStep
  <2>3. CASE \E c \in Conns : HandleMessage(l, c) \/ HandleEnd(l, c)
    BY <2>3, MessageStep, EndStep
  <2>4. CASE \E c \in Conns : \/ RunEstablished(l, c) \/ RunDestroyed(l, c)
                            \/ RunForceClose(l, c) \/ RunRemove(c)
    BY <2>4, EstablishedStep, DestroyedStep, ForceCloseStep, RemoveStep
  <2>5. CASE (\E c \in Conns : DestroyConnection(c)) \/ DestroyAcceptor
    BY <2>5, DestroyConnectionStep, DestroyAcceptorStep
  <2> QED BY <1>3, <2>1, <2>2, <2>3, <2>4, <2>5 DEF LoopStep
<1> QED BY <1>1, <1>2, <1>3 DEF Next

(* The inductive invariant: in every state that can be reached the functors *)
(* in the mailboxes, the states of the connections, the server's map and the *)
(* pollers agree (TcpServer.cc, TcpConnection.cc, EventLoop.cc,             *)
(* EpollPoller.cc).                                                         *)
THEOREM Invariance == Spec => []ServerInv
<1>1. Init => ServerInv
  BY ServerInit
<1>2. ServerInv /\ [Next]_vars => ServerInv'
  BY ServerStep
<1> QED BY <1>1, <1>2, PTL DEF Spec

-----------------------------------------------------------------------------
(* The invariant says what is promised of the lifetime of a connection,     *)
LEMMA LifetimeHolds == ServerInv => LifetimeInv
<1> SUFFICES ASSUME ServerInv PROVE LifetimeInv
  OBVIOUS
<1>1. TypesInv /\ StageInv /\ PollerInv /\ ActiveInv /\ TypeOK
  BY DEF ServerInv, TypesInv
<1>2. ASSUME NEW l \in Loops, NEW i \in DOMAIN active[l], active[l][i] # Listener
      PROVE  Alive(active[l][i])
  <2>1. active[l][i] \in Channels /\ Deals(l, active[l][i])
    BY <1>1 DEF TypeOK, Channels, ActiveInv
  <2>2. active[l][i] \in Conns /\ IndexOf(l, active[l][i]) = "kAdded"
    BY <1>2, <2>1 DEF Channels, Deals, IndexOf
  <2> QED BY <1>1, <2>2, KnownAlive
<1>3. ASSUME NEW l \in Loops, NEW fd \in DOMAIN poller[l].channels
      PROVE  LET c == poller[l].channels[fd] IN
             FdOf(c) = fd /\ (c # Listener => Alive(c) /\ conn[c].loop = l)
  <2>1. PICK c : c = poller[l].channels[fd]
    OBVIOUS
  <2>2. c \in Channels /\ Fds[c] = fd /\ poller[l].index[c] # "kNew"
    BY <1>1, <2>1, PollerFields DEF PollerInv, PollerOf, Wired, TypesInv
  <2>3. c # Listener => c \in Conns /\ IndexOf(l, c) # "kNew"
    BY <1>1, <2>2 DEF Channels, PollerInv, PollerOf
  <2>4. c # Listener => Alive(c) /\ conn[c].loop = l
    BY <1>1, <2>3, KnownAlive DEF IndexOf
  <2> QED BY <2>1, <2>2, <2>4 DEF Fds
<1>4. FreedIsClosed
  <2> SUFFICES ASSUME NEW c \in Conns, Exists(c), ~Alive(c)
               PROVE  conn[c].state = "kDisconnected" /\ poller[conn[c].loop].index[c] = "kNew"
    BY DEF FreedIsClosed
  <2>1. conn[c].loop \in Loops /\ conn[c].state \in {"none", "kConnecting", "kConnected",
                                    "kDisconnecting", "kDisconnected"}
    BY <1>1 DEF TypeOK
  <2>2. IndexOf(conn[c].loop, c) = "kNew"
    BY <1>1, <2>1, KnownAlive
  <2>3. c \notin connections
    BY DEF Alive
  <2>4. conn[c].state = "kDisconnected"
    BY <1>1, <2>1, <2>3 DEF StageInv, StageOf, Open, Exists
  <2> QED BY <1>1, <2>1, <2>2, <2>4 DEF PollerInv, PollerOf
<1> QED BY <1>1, <1>2, <1>3, <1>4 DEF LifetimeInv, ChannelsAlive

(* No object dies while somebody still points to it, with any number of     *)
(* loops, connections and descriptors.                                      *)
THEOREM Lifetime == Spec => []LifetimeInv
BY Invariance, LifetimeHolds, PTL

(* The functor about to be run is queued.                                   *)
LEMMA AssertionsAt ==
    ASSUME ServerInv, NEW l \in Loops, NEW f \in Calls, NEW c \in Conns, NextFunctor(l, f, c)
    PROVE  Queued(l, f, c)
<1>1. /\ running[l] \in Seq(Functors) /\ ran[l] \in Nat /\ ran[l] < Len(running[l])
      /\ running[l][ran[l] + 1] = Functor(f, c)
  BY DEF NextFunctor, ServerInv, TypesInv, TypeOK
<1>2. ran[l] + 1 \in DOMAIN running[l] /\ ran[l] < ran[l] + 1
  BY <1>1
<1> QED BY <1>1, <1>2 DEF Queued, InQueue

(* and that no assertion fails.                                             *)
LEMMA AssertionsInv == ServerInv => AssertionsHold
<1> SUFFICES ASSUME ServerInv, NEW l \in Loops, NEW c \in Conns
             PROVE  /\ NextFunctor(l, "connectEstablished", c) =>
                          conn[c].state = "kConnecting" /\ Poller!CanUpdate(poller[l], c, conn[c].fd)
                    /\ NextFunctor(l, "removeConnectionInLoop", c) => c \in connections
                    /\ NextFunctor(l, "connectDestroyed", c) =>
                          /\ conn[c].state \in {"kConnected", "kDisconnected"}
                          /\ Poller!HasChannel(poller[l], c, conn[c].fd)
                          /\ conn[c].state = "kDisconnected" => Poller!CanRemove(poller[l], c, conn[c].fd)
                    /\ NextEvent(l, c) => Open(c) /\ Poller!CanUpdate(poller[l], c, conn[c].fd)
                    /\ NextEvent(l, Listener) /\ c = accepted + 1 /\ FreeFds # {} =>
                          Poller!CanUpdate(poller[NextLoop], c, Min(FreeFds))
                    /\ phase = "destroying" /\ c \in connections =>
                          /\ Open(c) /\ conn[c].loop = Base
                          /\ Poller!CanUpdate(poller[Base], c, conn[c].fd)
  BY DEF AssertionsHold
<1>0. /\ TypesInv /\ FunctorsInv /\ StageInv /\ PollerInv /\ ActiveInv /\ FdsInv /\ TypeOK
      /\ StageOf(c) /\ PollerOf(l) /\ Wired(poller[l], Fds) /\ poller[l].index[c] = IndexOf(l, c)
      /\ c \in Channels /\ Fds[c] = conn[c].fd
      /\ {"connectEstablished", "removeConnectionInLoop", "connectDestroyed"} \subseteq Calls
  BY FdsAre, ConnectionsApart DEF ServerInv, TypesInv, StageInv, PollerInv, PollerOf, Calls
<1>1. ASSUME NextFunctor(l, "connectEstablished", c)
      PROVE  conn[c].state = "kConnecting" /\ Poller!CanUpdate(poller[l], c, conn[c].fd)
  <2>1. Queued(l, "connectEstablished", c) /\ Exists(c) /\ conn[c].loop = l
    BY <1>0, <1>1, AssertionsAt DEF FunctorsInv
  <2>2. conn[c].state = "kConnecting" /\ c \in connections
    BY <1>0, <2>1 DEF StageOf
  <2>3. Alive(c) /\ IndexOf(l, c) = "kNew"
    BY <2>2 DEF Alive, IndexOf, Open, Closing
  <2>4. conn[c].fd \notin DOMAIN poller[l].channels
    <3>1. \A d \in Conns : Exists(d) /\ Alive(d) /\ conn[d].fd = conn[c].fd => IndexOf(l, d) = "kNew"
      BY <1>0, <2>1, <2>3 DEF FdsInv
    <3>2. conn[c].fd \in 2..MaxFds
      BY <1>0, <2>1 DEF TypesInv
    <3> QED BY <1>0, <3>1, <3>2, NoEntry
  <2> QED BY <1>0, <2>2, <2>3, <2>4 DEF Poller!CanUpdate
<1>2. ASSUME NextFunctor(l, "removeConnectionInLoop", c) PROVE c \in connections
  BY <1>0, <1>2, AssertionsAt DEF FunctorsInv, StageOf
<1>3. ASSUME NextFunctor(l, "connectDestroyed", c)
      PROVE  /\ conn[c].state \in {"kConnected", "kDisconnected"}
             /\ Poller!HasChannel(poller[l], c, conn[c].fd)
             /\ Poller!CanRemove(poller[l], c, conn[c].fd)
  <2>1. Queued(l, "connectDestroyed", c) /\ conn[c].loop = l
    BY <1>0, <1>3, AssertionsAt DEF FunctorsInv
  <2>2. conn[c].state = "kDisconnected" /\ Closing(c)
    BY <1>0, <2>1 DEF StageOf, Closing
  <2>3. poller[l].index[c] = "kDeleted" /\ poller[l].events[c] = {}
    BY <1>0, <2>1, <2>2 DEF IndexOf, Open, PollerOf
  <2> QED BY <1>0, <2>2, <2>3 DEF Wired, Poller!HasChannel, Poller!CanRemove
<1>4. ASSUME NextEvent(l, c) PROVE Open(c) /\ Poller!CanUpdate(poller[l], c, conn[c].fd)
  <2>1. Deals(l, c)
    <3>1. active[l] \in Seq(Channels) /\ active[l] # <<>> /\ Head(active[l]) = c
      BY <1>0, <1>4 DEF NextEvent, TypeOK, Channels
    <3>2. 1 \in DOMAIN active[l] /\ active[l][1] = c
      BY <3>1
    <3> QED BY <1>0, <3>2 DEF ActiveInv
  <2>2. Open(c) /\ poller[l].index[c] = "kAdded"
    BY <1>0, <2>1, ConnectionsApart DEF Deals, IndexOf
  <2> QED BY <1>0, <2>2 DEF Wired, Poller!HasChannel, Poller!CanUpdate
<1>5. ASSUME NextEvent(l, Listener), c = accepted + 1, FreeFds # {}
      PROVE  Poller!CanUpdate(poller[NextLoop], c, Min(FreeFds))
  <2>1. Deals(l, Listener) /\ l = Base
    <3>1. active[l] \in Seq(Channels) /\ active[l] # <<>> /\ Head(active[l]) = Listener
      BY <1>0, <1>5 DEF NextEvent, TypeOK, Channels
    <3>2. 1 \in DOMAIN active[l] /\ active[l][1] = Listener
      BY <3>1
    <3>3. Deals(l, Listener)
      BY <1>0, <3>2 DEF ActiveInv
    <3> QED BY <3>3 DEF Deals
  <2>2. PICK k \in Loops, fd \in 2..MaxFds :
          /\ k = NextLoop /\ fd = Min(FreeFds) /\ IndexOf(k, c) = "kNew"
          /\ \A d \in Conns : Exists(d) /\ Alive(d) => conn[d].fd # fd
    BY <1>5, <2>1, AcceptFinds
  <2>3. PollerOf(k) /\ poller[k].index[c] = "kNew"
    BY <1>0, <2>2 DEF PollerInv, PollerOf
  <2>4. fd \notin DOMAIN poller[k].channels
    BY <1>0, <2>2, <2>3, NoEntry
  <2> QED BY <2>2, <2>3, <2>4 DEF Poller!CanUpdate
<1>6. ASSUME phase = "destroying", c \in connections
      PROVE  Open(c) /\ conn[c].loop = Base /\ Poller!CanUpdate(poller[Base], c, conn[c].fd)
  <2>1. conn[c].loop = Base
    BY <1>6 DEF ServerInv, LoopInv, TypesInv
  <2>2. Open(c)
    BY <1>0, <1>6, <2>1 DEF StageOf
  <2>3. /\ PollerOf(Base) /\ Wired(poller[Base], Fds) /\ IndexOf(Base, c) = "kAdded"
        /\ poller[Base].index[c] = IndexOf(Base, c)
    BY <1>0, <2>1, <2>2 DEF IndexOf, PollerInv, PollerOf, Loops
  <2> QED BY <1>0, <2>1, <2>2, <2>3 DEF Wired, Poller!HasChannel, Poller!CanUpdate
<1> QED BY <1>1, <1>2, <1>3, <1>4, <1>5, <1>6

(* The assertions hold where they are met: whatever the loops' order, a     *)
(* poller never has an entry for a descriptor that is used again, and a     *)
(* destructor that gets past Fails finds every connection open.             *)
THEOREM Assertions == Spec => []AssertionsHold
BY Invariance, AssertionsInv, PTL
=============================================================================
