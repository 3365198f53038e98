----------------------------- MODULE EpollPoller -----------------------------
(***************************************************************************)
(* src/src/net/poller/EpollPoller.cc and what Channel keeps for it.  A     *)
(* poller is a record: channels is channels_, from descriptors to          *)
(* channels; watched is the kernel's interest set, from descriptors to the *)
(* channel and the events epoll_ctl was given; index and events are the    *)
(* index_ and events_ of the channels of the poller's loop.  The assertions*)
(* of an operation are its Can... operator.                                *)
(***************************************************************************)
EXTENDS Naturals, Functions

CONSTANT Channels

NewPoller ==
    [channels |-> <<>>, watched |-> <<>>,
     index |-> [c \in Channels |-> "kNew"], events |-> [c \in Channels |-> {}]]

(* A map's entry x is set to y. *)
Put(f, x, y) == [z \in DOMAIN f \union {x} |-> IF z = x THEN y ELSE f[z]]

(* Channel::update after a change of events_.                               *)
CanUpdate(p, c, fd) ==
    IF p.index[c] = "kNew" THEN fd \notin DOMAIN p.channels
                           ELSE fd \in DOMAIN p.channels /\ p.channels[fd] = c

(* A channel that is new or deleted is added, even one without events; an   *)
(* added one is modified, or deleted when it has no events left.            *)
UpdateChannel(p, c, fd, events) ==
    LET deleted == p.index[c] = "kAdded" /\ events = {} IN
    [channels |-> IF p.index[c] = "kNew" THEN Put(p.channels, fd, c) ELSE p.channels,
     watched |-> IF deleted THEN Restrict(p.watched, DOMAIN p.watched \ {fd})
                 ELSE Put(p.watched, fd, [channel |-> c, events |-> events]),
     index |-> [p.index EXCEPT ![c] = IF deleted THEN "kDeleted" ELSE "kAdded"],
     events |-> [p.events EXCEPT ![c] = events]]

(* Channel::remove.                                                         *)
CanRemove(p, c, fd) ==
    /\ fd \in DOMAIN p.channels /\ p.channels[fd] = c
    /\ p.events[c] = {}
    /\ p.index[c] \in {"kAdded", "kDeleted"}

RemoveChannel(p, c, fd) ==
    [p EXCEPT !.channels = Restrict(@, DOMAIN @ \ {fd}),
              !.watched = Restrict(@, DOMAIN @ \ {fd}),
              !.index[c] = "kNew"]

(* fillActiveChannels: the channels among the watched ones whose events are *)
(* in the kernel's ready function.                                          *)
ActiveChannels(p, ready) ==
    {p.watched[fd].channel :
        fd \in {f \in DOMAIN p.watched :
                   ready[p.watched[f].channel] \intersect p.watched[f].events # {}}}

HasChannel(p, c, fd) == fd \in DOMAIN p.channels /\ p.channels[fd] = c
=============================================================================
