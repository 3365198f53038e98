----------------------------- MODULE HttpServer -----------------------------
(***************************************************************************)
(* src/src/net/http: HttpServer::onMessage and HttpContext on one          *)
(* connection, with the connection's input Buffer.  The client's stream    *)
(* arrives in pieces of any size: a line is two units, the second of which *)
(* carries the CRLF.  Of TcpConnection the model keeps what decides        *)
(* whether an answer is sent: state_.  What the application does in        *)
(* httpCallback_ is a constant, as far as it decides whether the           *)
(* connection is kept.  A failed assertion ends the process.               *)
(***************************************************************************)
EXTENDS Buffer, SequencesExt, FiniteSetsExt

CONSTANTS
    Streams,        \* the sequences of lines a client may send
    Paths,          \* what a request asks for, and all that the application sees
    HttpCallback    \* httpCallback_: what the response's closeConnection_ is after
                    \* it, for a path and the value it was constructed with

(* A request has the empty path until another is set.                       *)
ASSUME PathsAssumption == "" \in Paths

ASSUME CallbackAssumption == HttpCallback \in [Paths \X BOOLEAN -> BOOLEAN]

RequestLines == [method : {"kGet", "kInvalid"}, path : Paths,
                 version : {"kHttp10", "kHttp11", "bad"}]
(* The value of a header Connection, "other" for a header that is not one.  *)
Headers == [connection : {"close", "Keep-Alive", "other"}]
(* A line without a colon, the empty one as a rule. *)
End == [colon |-> FALSE]

Lines == RequestLines \union Headers \union {End}

ASSUME StreamsAssumption == Streams \subseteq [lines : Seq(Lines), waits : BOOLEAN]

(* A client that waits for answers sends requests: a request line comes     *)
(* first and after the end of a request, and nowhere else.                  *)
ASSUME RequestsAssumption ==
    \A c \in Streams : c.waits =>
        \A i \in DOMAIN c.lines :
            c.lines[i] \in RequestLines <=> i = 1 \/ c.lines[i - 1] = End

(* What comes in is written, units as well as the bytes of integers.        *)
ASSUME UnsetAssumption == Unset \notin [line : Lines, crlf : BOOLEAN] \union 0..255

VARIABLES
    client,     \* one of Streams: its lines, and whether it waits for answers
    arrived,    \* units that have been read from the socket
    buf,        \* the connection's inputBuffer_
    context,    \* HttpContext: state_, and request_ with its header Connection
    state,      \* the connection's state_
    answers     \* what was sent: the version answered, or "400"

vars == <<client, arrived, buf, context, state, answers>>

(* The stream as units; half a line has no CRLF.                            *)
Units(lines) == [k \in 1..2 * Len(lines) |->
    [line |-> lines[(k + 1) \div 2], crlf |-> k % 2 = 0]]
Stream == Units(client.lines)

NoRequest == [method |-> "kInvalid", path |-> "", version |-> "kUnknown", connection |-> ""]
NewContext == [state |-> "kExpectRequestLine", request |-> NoRequest]

Init ==
    /\ client \in Streams
    /\ arrived = 0
    /\ buf = NewBuffer
    /\ context = NewContext
    /\ state = "kConnected"
    /\ answers = <<>>

-----------------------------------------------------------------------------
(* HttpContext.                                                             *)

(* processRequestLine's result, and what it leaves in the request that is   *)
(* there: method and path stay set when the version is refused.             *)
GoodLine(l) == l \in RequestLines /\ l.method # "kInvalid" /\ l.version # "bad"

ProcessRequestLine(request, l) ==
    IF GoodLine(l) THEN [request EXCEPT !.method = l.method, !.path = l.path, !.version = l.version]
    ELSE IF l \in RequestLines THEN [request EXCEPT !.method = l.method, !.path = l.path]
    ELSE request

HasColon(l) == l \in Headers

(* addHeader: a field given twice keeps the last value.                     *)
AddHeader(request, h) ==
    IF h.connection = "other" THEN request ELSE [request EXCEPT !.connection = h.connection]

(* Where the first line in the buffer ends, 0 when there is no whole one.   *)
FindCRLF(b) ==
    LET ends == {i \in 1..ReadableBytes(b) : Readable(b)[i].crlf}
    IN  IF ends = {} THEN 0 ELSE Min(ends)

(* One turn of parseRequest's loop, on its variables and the buffer: the    *)
(* first line is consumed unless it is refused as a request line.           *)
ParseLine(s) ==
    LET text == Readable(s.buf)
        n == FindCRLF(s.buf)
        l == text[n].line
        consumed == [s EXCEPT !.buf = Retrieve(@, n)]
        request == ProcessRequestLine(s.ctx.request, l)
    IN
    CASE n = 0 -> [s EXCEPT !.hasMore = FALSE]
      [] n # 0 /\ s.ctx.state = "kExpectRequestLine" ->
            IF GoodLine(l)
              THEN [consumed EXCEPT !.ctx = [state |-> "kExpectHeaders", request |-> request]]
              ELSE [s EXCEPT !.ctx.request = request, !.ok = FALSE, !.hasMore = FALSE]
      [] n # 0 /\ s.ctx.state = "kExpectHeaders" ->
            IF HasColon(l)
              THEN [consumed EXCEPT !.ctx.request = AddHeader(@, l)]
              ELSE [consumed EXCEPT !.ctx.state = "kGotAll", !.hasMore = FALSE]

(* setMethod's assertion, that the request has no method yet: a request     *)
(* line is looked at, only as the first line of a message, and it has one.  *)
SetMethodFails(ctx, b) ==
    /\ ctx.state = "kExpectRequestLine" /\ FindCRLF(b) # 0
    /\ ctx.request.method # "kInvalid"

(* Mutant: one line per message is looked at. *)
ParseOneLine(ctx, b) ==
    ParseLine([ctx |-> ctx, buf |-> b, ok |-> TRUE, hasMore |-> TRUE])

(* parseRequest: lines until the request is complete, one is refused or no  *)
(* whole line is left.                                                      *)
ParseRequest(ctx, b) ==
    LET turns == ReadableBytes(b) + 1
        after[i \in 0..turns] ==
            IF i = 0 THEN [ctx |-> ctx, buf |-> b, ok |-> TRUE, hasMore |-> TRUE]
            ELSE IF after[i - 1].hasMore THEN ParseLine(after[i - 1])
            ELSE after[i - 1]
    IN  after[turns]

-----------------------------------------------------------------------------
(* onRequest's close, which the response is constructed with,               *)
Closes(request) ==
    \/ request.connection = "close"
    \/ request.version = "kHttp10" /\ request.connection # "Keep-Alive"

(* and response.closeConnection() after httpCallback_.                      *)
CloseConnection(request) == HttpCallback[request.path, Closes(request)]

(* TcpConnection::send of an answer and, with close, shutdown.              *)
Send(answer, close) ==
    /\ answers' = IF state = "kConnected" THEN Append(answers, answer) ELSE answers
    /\ state' = IF close /\ state = "kConnected" THEN "kDisconnecting" ELSE state

(* Mutant: onRequest tests close and not response.closeConnection(). *)
CloseAsAsked(b) ==
    LET s == ParseRequest(context, b) IN
    /\ buf' = s.buf
    /\ IF ~s.ok THEN Send("400", TRUE) /\ context' = s.ctx
       ELSE IF s.ctx.state = "kGotAll"
         THEN /\ Send(s.ctx.request.version, Closes(s.ctx.request))
              /\ context' = NewContext
         ELSE context' = s.ctx /\ UNCHANGED <<answers, state>>

(* Mutant: the context is not reset after an answer. *)
KeepRequest(b) ==
    LET s == ParseRequest(context, b) IN
    /\ buf' = s.buf
    /\ IF ~s.ok THEN Send("400", TRUE) /\ context' = s.ctx
       ELSE IF s.ctx.state = "kGotAll"
         THEN /\ Send(s.ctx.request.version, CloseConnection(s.ctx.request))
              /\ context' = [s.ctx EXCEPT !.state = "kExpectRequestLine"]
         ELSE context' = s.ctx /\ UNCHANGED <<answers, state>>

(* onMessage: at most one request is answered.                              *)
OnMessage(b) ==
    LET s == ParseRequest(context, b) IN
    /\ buf' = s.buf
    /\ IF ~s.ok THEN Send("400", TRUE) /\ context' = s.ctx
       ELSE IF s.ctx.state = "kGotAll"
         THEN /\ Send(s.ctx.request.version, CloseConnection(s.ctx.request))
              /\ context' = NewContext
         ELSE context' = s.ctx /\ UNCHANGED <<answers, state>>

-----------------------------------------------------------------------------
(* The units a client has sent: the whole stream, or, when it waits for     *)
(* each answer, what ends with the first line without a colon after the     *)
(* requests answered.                                                       *)
Ends == {i \in DOMAIN client.lines : client.lines[i] = End}
SentUnits ==
    LET unanswered == {i \in Ends : Cardinality({j \in Ends : j <= i}) > Len(answers)}
    IN  IF client.waits /\ unanswered # {} THEN 2 * Min(unanswered) ELSE Len(Stream)

(* n more units may come in, and are then at the end of the buffer. *)
Arrives(n) ==
    /\ state # "kDisconnected"
    /\ arrived + n <= SentUnits
    /\ n <= ReadvSize(buf)

Arrived(n) == ReadFd(buf, SubSeq(Stream, arrived + 1, arrived + n))

(* TcpConnection::handleRead: n units have come in.  When the assertion of  *)
(* setMethod fails, nothing more happens.                                   *)
HandleRead(n) ==
    /\ Arrives(n)
    /\ ~SetMethodFails(context, Arrived(n))
    /\ OnMessage(Arrived(n))
    /\ arrived' = arrived + n
    /\ UNCHANGED client

(* The client closes, or has been closed by the server.  The connection is  *)
(* not read any more.                                                       *)
HandleClose ==
    /\ state # "kDisconnected"
    /\ state' = "kDisconnected"
    /\ UNCHANGED <<client, arrived, buf, context, answers>>

Next == HandleClose \/ \E n \in 1..Len(Stream) : HandleRead(n)

Spec == Init /\ [][Next]_vars

-----------------------------------------------------------------------------
(* What the first lines of the stream are answered, however it is cut into  *)
(* pieces: each request by its version, until the response to one closes or *)
(* one is refused.                                                          *)
Answer(a, l) ==
    IF a.over THEN a
    ELSE IF ~a.inHeaders
      THEN IF GoodLine(l) THEN [a EXCEPT !.inHeaders = TRUE, !.version = l.version,
                                         !.path = l.path, !.connection = ""]
                          ELSE [a EXCEPT !.out = Append(@, "400"), !.over = TRUE]
      ELSE IF HasColon(l) THEN AddHeader(a, l)
      ELSE [a EXCEPT !.out = Append(@, a.version), !.inHeaders = FALSE,
                     !.over = CloseConnection(a)]

Replies[i \in 0..Len(client.lines)] ==
    IF i = 0
      THEN [over |-> FALSE, inHeaders |-> FALSE, version |-> "", path |-> "",
            connection |-> "", out |-> <<>>]
      ELSE Answer(Replies[i - 1], client.lines[i])

Expected == Replies[arrived \div 2]

(* The answers are the first of those the stream asks for, in its order,    *)
(* and the connection is shut down after the first whose response closes,   *)
(* because the request asked for that or the callback did, or after a       *)
(* refusal, and after no other (HttpServer.cc:64-97, HttpContext.cc:60-118). *)
AnswersFollowStream ==
    /\ IsPrefix(answers, Expected.out)
    /\ answers = Expected.out /\ Expected.over => state # "kConnected"
    /\ state = "kDisconnecting" => answers = Expected.out /\ Expected.over

(* A client that waits for each answer before its next request gets an      *)
(* answer to all it has sent, up to the answer that closes.  (A pipelined   *)
(* request is answered only when more data come in.)                        *)
NothingLeftBehind == client.waits => answers = Expected.out

(* HttpRequest.h:54: the method of a request is set once.                   *)
MethodSetOnce ==
    \A n \in 1..Len(Stream) : Arrives(n) => ~SetMethodFails(context, Arrived(n))

(* It is, on a connection nothing was refused on: each request starts with  *)
(* a fresh context, however its line was cut (HttpServer.cc:76-80).         *)
OpenSetsMethodOnce == state = "kConnected" => MethodSetOnce

(* The integers at the ends of those of n bytes.                            *)
Extremes == [n \in {1, 2, 4, 8} |->
    IF n = 1 THEN {-128, -1, 0, 127}
    ELSE IF n = 2 THEN {-32768, -1, 0, 32767}
    ELSE {-2147483647 - 1, -129, 255, 2147483647}]

(* Integers put in front of what the buffer holds, where there is room, or  *)
(* behind it are read as they were, with their sign, and when they are      *)
(* taken off again the rest is as before (Buffer.h:230-352, Endian.h).      *)
IntegersReadBack ==
    \A n \in DOMAIN Extremes : \A x \in Extremes[n] :
        /\ n <= PrependableBytes(buf) =>
              LET read == ReadInt(PrependInt(buf, x, n), n)
              IN  read.value = x /\ Readable(read.rest) = Readable(buf)
        /\ LET b == AppendInt(buf, x, n)
           IN  /\ ReadInt(Retrieve(b, ReadableBytes(b) - n), n).value = x
               /\ Readable(Unwrite(b, n)) = Readable(buf)

(* The buffer holds the units read and not consumed, whole and in order,    *)
(* through every move and growth, and would after a shrink; it is as good   *)
(* for integers (Buffer.h:117-128, 190-212, 346-363, 386-408,               *)
(* Buffer.cc:24-55).                                                        *)
BufferInv ==
    /\ WellFormed(buf)
    /\ Readable(buf) = SubSeq(Stream, arrived - ReadableBytes(buf) + 1, arrived)
    /\ \A reserve \in 0..2 : Readable(Shrink(buf, reserve)) = Readable(buf)
    /\ IntegersReadBack

=============================================================================
