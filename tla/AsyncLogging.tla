----------------------------- MODULE AsyncLogging -----------------------------
(***************************************************************************)
(* src/src/log/AsyncLogging.{h,cc}: any number of front-end threads append *)
(* log lines to the current buffer under the mutex; one back-end thread    *)
(* takes the filled buffers, gives the front end empty ones in exchange    *)
(* and writes to the LogFile.  A line is the record of a log statement and *)
(* named by a number, in the order in which append took the mutex; a       *)
(* buffer is the sequence of its lines; a unique_ptr that has been moved   *)
(* from holds NoBuffer.  Each read of the clock gives any time.            *)
(***************************************************************************)
EXTENDS LogStream, FiniteSets

CONSTANTS
    Statements, \* a sequence of log statements, which are made in turn
    Capacity,   \* kLargeBuffer
    NoticeSize, \* of the line that tells of dropped buffers
    DropAbove,  \* 25 in the code: more buffers than this are not all written
    NoBuffer,
    RollSize, FlushSeconds, CheckEveryN, Day, LocalTime,    \* see LogFile
    NumbersUpTo,    \* bound on the numbers looked at
    MaxLines,   \* bound on the lines appended
    MaxClock    \* bound on the clock

ASSUME StatementsAssumption ==
    /\ SmallBuffer \in Nat \ {0} /\ MaxNumericSize \in Nat \ {0}
    /\ Statements \in Seq(StatementSet) /\ Statements # <<>>
(* kMaxNumericSize is large enough (LogStream.cc:116-126).                  *)
ASSUME NumericSizeAssumption ==
    \A s \in Range(Statements) : \A item \in Range(Items(s)) :
        item.kind # "text" => Len(Printed(item)) < MaxNumericSize
(* A record fits in an empty buffer: append does not look again. *)
ASSUME CapacityAssumption == Capacity \in Nat /\ SmallBuffer <= Capacity
ASSUME NoticeAssumption == NoticeSize \in Nat
ASSUME DropAssumption == DropAbove \in Nat /\ DropAbove >= 2
ASSUME LogFileAssumption ==
    /\ RollSize \in Nat /\ FlushSeconds \in Nat
    /\ CheckEveryN \in Nat \ {0} /\ Day \in Nat \ {0}
ASSUME LocalTimeAssumption == DOMAIN LocalTime = 1..MaxClock
ASSUME NoBufferAssumption == NoBuffer \notin Seq(1..MaxLines)
ASSUME LinesAssumption == MaxLines \in Nat /\ MaxClock \in Nat \ {0}

Notice == 0

(* The statement a line comes from, and its size. *)
Statement(n) == Statements[((n - 1) % Len(Statements)) + 1]
Size == [n \in 0..MaxLines |-> IF n = Notice THEN NoticeSize ELSE Len(Record(Statement(n)))]
Bytes(lines) ==
    LET sum[i \in 0..Len(lines)] == IF i = 0 THEN 0 ELSE sum[i - 1] + Size[lines[i]]
    IN  sum[Len(lines)]

File == INSTANCE LogFile

VARIABLES
    currentBuffer, nextBuffer, buffers,         \* shared, under mutex_
    running,                                    \* running_
    newBuffer1, newBuffer2, buffersToWrite,     \* threadFunc's own
    pc,         \* where the back end is: "off", "begin", "check", "lock",
                \* "wait", "drop", "write", "recycle", "flushed" (after the loop)
    output,     \* its LogFile
    done,       \* buffers of buffersToWrite that have been written
    appended,   \* lines appended so far
    dropped     \* history: lines thrown away with their buffers

front == <<currentBuffer, nextBuffer, buffers, appended>>
back == <<newBuffer1, newBuffer2, buffersToWrite, pc, output,
          done, dropped>>
vars == <<front, back, running>>

Lines == 1..MaxLines
Times == 1..MaxClock
Buffers == Seq(Lines)

TypeOK ==
    /\ currentBuffer \in Buffers
    /\ nextBuffer \in Buffers \union {NoBuffer}
    /\ buffers \in Seq(Buffers)
    /\ running \in BOOLEAN
    /\ newBuffer1 \in Buffers \union {NoBuffer}
    /\ newBuffer2 \in Buffers \union {NoBuffer}
    /\ buffersToWrite \in Seq(Buffers)
    /\ pc \in {"off", "begin", "check", "lock", "wait", "drop", "write", "recycle", "flushed"}
    /\ appended \in 0..MaxLines
    /\ done \in 0..Len(buffersToWrite)
    /\ dropped \subseteq Lines

Init ==
    /\ currentBuffer = <<>>
    /\ nextBuffer = <<>>
    /\ buffers = <<>>
    /\ running = FALSE
    /\ newBuffer1 = <<>>
    /\ newBuffer2 = <<>>
    /\ buffersToWrite = <<>>
    /\ pc = "off"
    /\ appended = 0
    /\ output = File!NewLogFile(1)
    /\ done = 0
    /\ dropped = {}

-----------------------------------------------------------------------------
(* append, under the mutex, which the back end holds only within its steps: *)
(* the line goes to the current buffer when that has room for it, *)
AppendToCurrent ==
    /\ appended < MaxLines
    /\ Capacity - Bytes(currentBuffer) > Size[appended + 1]
    /\ currentBuffer' = Append(currentBuffer, appended + 1)
    /\ appended' = appended + 1
    /\ UNCHANGED <<nextBuffer, buffers, back, running>>

(* otherwise the full buffer is handed over and the next one, or a new one, *)
(* takes its place.                                                         *)
AppendToNext ==
    /\ appended < MaxLines
    /\ Capacity - Bytes(currentBuffer) <= Size[appended + 1]
    /\ buffers' = Append(buffers, currentBuffer)
    /\ LET fresh == IF nextBuffer # NoBuffer THEN nextBuffer ELSE <<>>
       IN  currentBuffer' = Append(fresh, appended + 1)
    /\ nextBuffer' = NoBuffer
    /\ appended' = appended + 1
    /\ UNCHANGED <<back, running>>

(* start(), up to the wait for the latch. *)
Start ==
    /\ pc = "off"
    /\ running' = TRUE
    /\ pc' = "begin"
    /\ UNCHANGED <<front, newBuffer1, newBuffer2, buffersToWrite, output, done,
                   dropped>>

(* stop(), up to the join, when the latch has let start() return. *)
Stop ==
    /\ running /\ pc # "begin"
    /\ running' = FALSE
    /\ UNCHANGED <<front, back>>

-----------------------------------------------------------------------------
(* threadFunc: a step goes from one value of pc to another, and leaves to   *)
(* the front end what it does not say it changes.                           *)
Step(from, to) ==
    /\ pc = from
    /\ pc' = to
    /\ UNCHANGED <<appended, running>>

sharedBuffers == <<currentBuffer, nextBuffer, buffers>>
ownBuffers == <<newBuffer1, newBuffer2, buffersToWrite>>

(* latch_.countDown() and the LogFile's constructor. *)
Begin ==
    /\ Step("begin", "check")
    /\ \E now \in Times : output' = File!NewLogFile(now)
    /\ UNCHANGED <<sharedBuffers, ownBuffers, done, dropped>>

(* Mutant: the loop does not test running_. *)
CheckNothing ==
    /\ Step("check", "lock")
    /\ UNCHANGED <<sharedBuffers, ownBuffers, output, done, dropped>>

(* while (running_); flush() and the LogFile's destructor at the end. *)
Check ==
    /\ Step("check", IF running THEN "lock" ELSE "flushed")
    /\ output' = IF running THEN output ELSE File!Flush(output)
    /\ UNCHANGED <<sharedBuffers, ownBuffers, done, dropped>>

(* Nothing to write: waitForSeconds, which gives up the mutex and may       *)
(* return at any time, notified or not.                                     *)
Wait ==
    /\ buffers = <<>>
    /\ Step("lock", "wait")
    /\ UNCHANGED <<sharedBuffers, ownBuffers, output, done, dropped>>

(* Mutant: the current buffer goes before the full ones. *)
CurrentFirst == <<currentBuffer>> \o buffers

(* What the front end has: the full buffers and the current one. *)
AllBuffers == Append(buffers, currentBuffer)

(* When a round starts: at once with full buffers, else after the wait. *)
RoundStarts == pc = "wait" \/ buffers # <<>>

(* The exchange, with the mutex held: the front end's buffers, the current  *)
(* one included, against the empty ones.                                    *)
Swap ==
    /\ RoundStarts
    /\ Step("wait", "drop") \/ Step("lock", "drop")
    /\ buffersToWrite' = AllBuffers
    /\ buffers' = <<>>
    /\ currentBuffer' = newBuffer1
    /\ newBuffer1' = NoBuffer
    /\ IF nextBuffer = NoBuffer
         THEN nextBuffer' = newBuffer2 /\ newBuffer2' = NoBuffer
         ELSE UNCHANGED <<nextBuffer, newBuffer2>>
    /\ UNCHANGED <<output, done, dropped>>

(* Mutant: the file is not told of the buffers dropped. *)
SayNothing(f, now, rollNow) == f

(* What the file is told. *)
Announce(f, now, rollNow) == File!AppendUnlocked(f, <<Notice>>, now, rollNow)

(* Too many buffers: all but two are dropped, and the file is told. *)
Drop ==
    /\ Step("drop", "write")
    /\ IF Len(buffersToWrite) > DropAbove
         THEN /\ \E now, rollNow \in Times : output' = Announce(output, now, rollNow)
              /\ buffersToWrite' = SubSeq(buffersToWrite, 1, 2)
              /\ dropped' = dropped \union
                   UNION {Range(buffersToWrite[i]) : i \in 3..Len(buffersToWrite)}
         ELSE UNCHANGED <<output, buffersToWrite, dropped>>
    /\ UNCHANGED <<sharedBuffers, newBuffer1, newBuffer2, done>>

(* The buffers are written in order, one append each. *)
Write ==
    /\ done < Len(buffersToWrite)
    /\ Step("write", "write")
    /\ done' = done + 1
    /\ \E now, rollNow \in Times :
          output' = File!AppendUnlocked(output, buffersToWrite[done + 1], now, rollNow)
    /\ UNCHANGED <<sharedBuffers, ownBuffers, dropped>>

Written ==
    /\ done = Len(buffersToWrite)
    /\ Step("write", "recycle")
    /\ UNCHANGED <<sharedBuffers, ownBuffers, output, done, dropped>>

(* Mutant: the round's end does not flush. *)
NoFlush(f) == f

FlushRound(f) == File!Flush(f)

(* Mutant: only newBuffer1 is replaced. *)
RecycleOne ==
    /\ Step("recycle", "check")
    /\ newBuffer1' = <<>>
    /\ buffersToWrite' = <<>>
    /\ done' = 0
    /\ output' = FlushRound(output)
    /\ UNCHANGED <<sharedBuffers, newBuffer2, dropped>>

(* Emptied, up to two of the buffers written take the places of those given *)
(* to the front end; the file is flushed.                                   *)
Recycle ==
    LET spare == Len(buffersToWrite)
        spare2 == IF newBuffer1 = NoBuffer THEN spare - 1 ELSE spare
    IN
    /\ Step("recycle", "check")
    /\ newBuffer1' = IF newBuffer1 = NoBuffer /\ spare > 0 THEN <<>> ELSE newBuffer1
    /\ newBuffer2' = IF newBuffer2 = NoBuffer /\ spare2 > 0 THEN <<>> ELSE newBuffer2
    /\ buffersToWrite' = <<>>
    /\ done' = 0
    /\ output' = FlushRound(output)
    /\ UNCHANGED <<sharedBuffers, dropped>>

-----------------------------------------------------------------------------
ThreadFunc == Begin \/ Check \/ Wait \/ Swap \/ Drop \/ Write \/ Written \/ Recycle

Next == AppendToCurrent \/ AppendToNext \/ Start \/ Stop \/ ThreadFunc

Spec == Init /\ [][Next]_vars

(* Once started the back end keeps going: its wait is limited to            *)
(* flushInterval_, and the mutex is only held for short sections.           *)
FairSpec == Spec /\ WF_vars(ThreadFunc)

-----------------------------------------------------------------------------
written == File!Contents(output)

(* Every line accepted and not dropped, from the oldest in the files, with  *)
(* the notices, to the newest in the current buffer; of the batch what is   *)
(* still to be written.                                                     *)
InFlight ==
    LET batch == SubSeq(buffersToWrite, done + 1, Len(buffersToWrite))
    IN  written \o FlattenSeq(batch) \o FlattenSeq(buffers) \o currentBuffer

Ascending(items) ==
    \A i, j \in DOMAIN items :
        (i < j /\ items[i] # Notice /\ items[j] # Notice) => items[i] < items[j]

(* No line is lost, written twice or overtaken on its way through the       *)
(* buffers and the files; only those dropped with their buffers are missing *)
(* (AsyncLogging.cc:38-65, 96-104, 110-151, LogFile.cc:137-189).            *)
LinesInOrder ==
    LET items == InFlight
    IN  Ascending(items) /\ Range(items) \ {Notice} = (1..appended) \ dropped

(* Items i and j are next to each other, but for notices, and of the lines  *)
(* in lost one belongs between them.                                        *)
Gap(items, lost, i, j) ==
    /\ i < j
    /\ items[i] # Notice /\ items[j] # Notice
    /\ \A k \in i + 1..j - 1 : items[k] = Notice
    /\ \E n \in lost : items[i] < n /\ n < items[j]

GapsAnnounced(items, lost) ==
    \A i, j \in DOMAIN items : Gap(items, lost, i, j) =>
        \E k \in DOMAIN items :
            /\ k < j /\ items[k] = Notice
            /\ Bytes(SubSeq(items, k + 1, i)) < 2 * Capacity

(* Where lines are missing the file says so: a notice precedes the gap, at  *)
(* most the two buffers that were kept before it (AsyncLogging.cc:110-121). *)
DropsAnnounced == GapsAnnounced(written, dropped)

(* However the clock is set between any two reads, a file is opened in a    *)
(* later second than the one before; and although names come twice, under   *)
(* each name is, in order, all that was written to the files of that name,  *)
(* but for what stdio still holds of the open one                           *)
(* (LogFile.cc:24-84, 137-216).                                             *)
FilesInv ==
    LET files == File!Files(output) IN
    /\ \A i \in 1..Len(files) - 1 : files[i].opened < files[i + 1].opened
    /\ DOMAIN output.disk = {files[i].name : i \in DOMAIN files}
    /\ \A n \in DOMAIN output.disk :
          output.disk[n] \o File!Buffered(output, n) = File!WrittenUnder(output, n)

(* The back end never lacks a buffer to give: it enters each round with two *)
(* empty ones, and has written enough to replace those it gave away: the    *)
(* assertions at AsyncLogging.cc:84-86, 138 and 147.                        *)
BuffersSuffice ==
    /\ pc \in {"check", "lock", "wait"} =>
          newBuffer1 = <<>> /\ newBuffer2 = <<>> /\ buffersToWrite = <<>>
    /\ pc = "recycle" =>
          Len(buffersToWrite) >= Cardinality({i \in 1..2 :
                                    <<newBuffer1, newBuffer2>>[i] = NoBuffer})

(* The front end lacks a spare buffer only while one it filled waits. *)
SpareUnlessFull == nextBuffer = NoBuffer => buffers # <<>>

(* What the exchange of buffers rests on. *)
BuffersInv == TypeOK /\ BuffersSuffice /\ SpareUnlessFull

(* A number can be read back from the record it is inserted in, whatever    *)
(* its sign (LogStream.cc:37-85).                                           *)
NumbersReadBack ==
    /\ \A v \in -NumbersUpTo..NumbersUpTo :
          LET digits == IF v < 0 THEN Tail(Convert(v)) ELSE Convert(v)
          IN  /\ v < 0 => Head(Convert(v)) = "-"
              /\ Value(digits, 10) = IF v < 0 THEN -v ELSE v
    /\ \A v \in 0..NumbersUpTo : Value(ConvertHex(v), 16) = v

WellCut ==
    {n \in Lines : /\ Size[n] < SmallBuffer
                  /\ Len(Whole(Statement(n))) + MaxNumericSize <= SmallBuffer =>
                        Record(Statement(n)) = Whole(Statement(n))}

BuffersFit ==
    \A b \in {currentBuffer} \union Range(buffers) \union Range(buffersToWrite) :
        Bytes(b) < Capacity

(* No buffer is overrun: a record is cut by whole items, when its           *)
(* statement's own buffer is nearly full and only then, and the buffers of  *)
(* AsyncLogging hold whole records (LogStream.h:41-49, LogStream.cc:132,    *)
(* AsyncLogging.cc:42-62).                                                  *)
RecordsInv ==
    /\ NumbersReadBack
    /\ 1..appended \subseteq WellCut
    /\ BuffersFit

(* While the logging runs every line reaches the disk, flushed, or is       *)
(* dropped.                                                                 *)
LinesReachDisk ==
    \A n \in Lines : (n <= appended /\ running)
        ~> (n \in File!OnDisk(output) \union dropped \/ ~running)

(* stop() returns: its join finds the back end gone, wherever in its round  *)
(* that was, waiting or writing (AsyncLogging.h:49-55, AsyncLogging.cc:82). *)
StopJoins == (pc # "off" /\ ~running) ~> (pc = "flushed")

=============================================================================
