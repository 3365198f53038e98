--------------------------- MODULE MCAsyncLogging ---------------------------
(* Statements for TLC to check AsyncLogging with. *)
EXTENDS AsyncLogging

Make(level, errno, line, items) ==
    [level |-> level, errno |-> errno, line |-> line, items |-> items]
Letters(n) == Text([i \in 1..n |-> "a"])

(* Numbers of both signs and a pointer; a text that leaves no room for the  *)
(* line's number; errno; and a text too long to be inserted.                *)
FourStatements ==
    <<Make("INFO", 0, 7, <<Number(-12), Pointer(30)>>),
      Make("WARN", 0, 42, <<Letters(18)>>),
      Make("ERROR", 2, 10, <<>>),
      Make("WARN", 0, 8, <<Letters(40), Letters(1)>>)>>

(* At the third second the local clock, set back by the end of summer time,  *)
(* is what it was at the first.                                             *)
SetBack == <<"first", "second", "first">>
=============================================================================
