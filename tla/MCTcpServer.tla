---------------------------- MODULE MCTcpServer ----------------------------
(* Programs for TLC to check TcpServer with. *)
EXTENDS TcpServer

CONSTANTS io1, io2

TwoIoLoops == <<io1, io2>>

Program(threads, calls, destroys, fds, clients) ==
    [threads |-> threads, calls |-> calls, destroys |-> destroys,
     fds |-> fds, clients |-> clients]

(* A server with IO threads, fewer descriptors than clients; one whose IO   *)
(* thread also closes connections, with a single descriptor to serve them;  *)
(* one without IO threads, that closes; and one that is destroyed.          *)
Programs ==
    {Program(2, {}, FALSE, 4, 3),
     Program(1, {"forceClose"}, FALSE, 3, 2),
     Program(0, {"shutdown", "forceClose"}, FALSE, 3, 3),
     Program(0, {"shutdown"}, TRUE, 4, 3)}
=============================================================================
