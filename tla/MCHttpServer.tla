---------------------------- MODULE MCHttpServer ----------------------------
(* Streams for TLC to check HttpServer with. *)
EXTENDS HttpServer

Get(path, version) == [method |-> "kGet", path |-> path, version |-> version]
Connection(value) == [connection |-> value]
BadMethod == [method |-> "kInvalid", path |-> "", version |-> "kHttp11"]

(* An application with a page whose response it leaves as it is, one it     *)
(* keeps the connection after, and no other.                                *)
ThreePaths == {"", "/", "/kept"}
Pages == [pc \in ThreePaths \X BOOLEAN |->
    IF pc[1] = "/" THEN pc[2] ELSE pc[1] # "/kept"]

Parts ==
    {<<Get("/", "kHttp11"), Connection("other"), End>>,
     <<Get("/", "kHttp11"), Connection("Keep-Alive"), Connection("close"), End>>,
     <<Get("/", "kHttp10"), End>>,
     <<Get("/", "kHttp10"), Connection("Keep-Alive"), End>>,
     <<Get("", "kHttp11"), Connection("Keep-Alive"), End>>,
     <<Get("/kept", "kHttp11"), Connection("close"), End>>,
     <<BadMethod, End>>,
     <<Get("/", "bad"), End>>}

(* Two requests or what looks like them, from a client that waits for the   *)
(* answer to the first and from one that does not.                          *)
TwoRequests == [lines : {p \o q : p, q \in Parts}, waits : BOOLEAN]
=============================================================================
