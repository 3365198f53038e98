------------------------------- MODULE LogFile -------------------------------
(***************************************************************************)
(* src/src/log/LogFile.cc.  A LogFile is a record: closed, the files       *)
(* rolled so far, and file, the open one; count, startOfPeriod, lastRoll   *)
(* and lastFlush are the members of the same names.  A file is named by    *)
(* the local time of the second it was opened in, which comes twice when   *)
(* the local clock goes back; data is what was written to it, Bytes of it  *)
(* in all.  buffer is what stdio still holds of the open file, disk what   *)
(* is on disk under each name.  Each read of the clock is a parameter: it  *)
(* may be set, forwards or back, between any two.                          *)
(***************************************************************************)
EXTENDS Naturals, Sequences, SequencesExt

CONSTANTS
    RollSize,       \* rollSize_
    FlushSeconds,   \* flushInterval_
    CheckEveryN,    \* checkEveryN_
    Day,            \* kRollPerSeconds_
    LocalTime,      \* what localtime_r and strftime make of a time
    Bytes(_)        \* the size of a sequence of items

StartOfPeriod(now) == (now \div Day) * Day

NewFile(now) == [name |-> LocalTime[now], opened |-> now, data |-> <<>>]

(* Mutant: fopen with "w" empties a file that is there. *)
Truncated(disk, name) ==
    [n \in DOMAIN disk \union {name} |-> IF n = name THEN <<>> ELSE disk[n]]

(* fopen with "a": a file that is there is continued. *)
Opened(disk, name) ==
    [n \in DOMAIN disk \union {name} |-> IF n \in DOMAIN disk THEN disk[n] ELSE <<>>]

(* The constructor; the clock is past 0. *)
NewLogFile(now) ==
    [closed |-> <<>>, file |-> NewFile(now), buffer |-> <<>>,
     disk |-> [n \in {LocalTime[now]} |-> <<>>], count |-> 0,
     startOfPeriod |-> StartOfPeriod(now), lastRoll |-> now, lastFlush |-> now]

Flush(f) == [f EXCEPT !.disk[f.file.name] = @ \o f.buffer, !.buffer = <<>>]

(* The new file is open when closing the old one flushes that. *)
NextFile(f, now) ==
    [Flush([f EXCEPT !.disk = Opened(@, LocalTime[now])]) EXCEPT
        !.closed = Append(@, f.file), !.file = NewFile(now),
        !.startOfPeriod = StartOfPeriod(now), !.lastRoll = now, !.lastFlush = now]

(* rollFile: not twice in a second, and not while the clock is behind. *)
RollFile(f, now) == IF now > f.lastRoll THEN NextFile(f, now) ELSE f

(* The day and the flush interval are looked at on each CheckEveryN-th      *)
(* append only; rollFile reads the clock again.                             *)
Check(f, now, rollNow) ==
    IF f.count + 1 < CheckEveryN THEN [f EXCEPT !.count = @ + 1]
    ELSE LET g == [f EXCEPT !.count = 0] IN
         CASE StartOfPeriod(now) # f.startOfPeriod -> RollFile(g, rollNow)
           [] StartOfPeriod(now) = f.startOfPeriod /\ now > f.lastFlush + FlushSeconds ->
                Flush([g EXCEPT !.lastFlush = now])
           [] OTHER -> g

(* append, with all of the data in the file that is open.                   *)
AppendUnlocked(f, data, now, rollNow) ==
    LET g == [f EXCEPT !.file.data = @ \o data, !.buffer = @ \o data] IN
    IF Bytes(g.file.data) > RollSize THEN RollFile(g, rollNow)
    ELSE Check(g, now, rollNow)

-----------------------------------------------------------------------------
Files(f) == Append(f.closed, f.file)

(* What was written to all the files, and to those of a name. *)
Contents(f) == FlattenSeq([i \in DOMAIN Files(f) |-> Files(f)[i].data])
WrittenUnder(f, name) ==
    FlattenSeq([i \in DOMAIN Files(f) |->
                  IF Files(f)[i].name = name THEN Files(f)[i].data ELSE <<>>])

(* What is on disk, and what of a name is still in stdio's buffer. *)
OnDisk(f) == UNION {Range(f.disk[n]) : n \in DOMAIN f.disk}
Buffered(f, name) == IF f.file.name = name THEN f.buffer ELSE <<>>
=============================================================================
