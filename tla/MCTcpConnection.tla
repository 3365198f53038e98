--------------------------- MODULE MCTcpConnection ---------------------------
(* Programs for TLC to check TcpConnection with.                            *)
EXTENDS TcpConnection

Program(oneLoop, serverDies, garbage, loopCalls, foreignCalls) ==
    [oneLoop |-> oneLoop, serverDies |-> serverDies, garbage |-> garbage,
     loopCalls |-> loopCalls, foreignCalls |-> foreignCalls]

Closing == {"send", "shutdown", "forceClose", "forceCloseWithDelay"}

(* IO threads and one loop; with IO threads also a server that is destroyed *)
(* while its connection is used and closed; and one loop with a connection  *)
(* that is closed by other threads and whose reading is switched off and on,*)
(* with either content of reading_.                                         *)
Programs ==
    {Program(FALSE, TRUE, FALSE, {"send", "shutdown", "forceClose"}, {"send"}),
     Program(FALSE, FALSE, FALSE, Closing, {"send"}),
     Program(TRUE, FALSE, FALSE, Closing, {})} \union
    {Program(TRUE, FALSE, garbage, {"send", "startRead", "stopRead"},
             {"shutdown", "forceClose"}) : garbage \in BOOLEAN}

=============================================================================
