----------------------------- MODULE MCTcpClient -----------------------------
(* Programs for TLC to check TcpClient with.                               *)
EXTENDS TcpClient

Program(retry, loopCalls, foreignCalls) ==
    [retry |-> retry, loopCalls |-> loopCalls, foreignCalls |-> foreignCalls]

(* The client is used by the loop thread; connected by another thread and  *)
(* destroyed in the loop; used by another thread, without retry.           *)
Programs ==
    {Program(TRUE, {"connect", "disconnect", "stop"}, {"disconnect"}),
     Program(TRUE, {"disconnect", "destroy"}, {"connect", "disconnect"}),
     Program(FALSE, {}, {"connect", "disconnect", "stop"})}

=============================================================================
