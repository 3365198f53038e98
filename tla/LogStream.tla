------------------------------ MODULE LogStream ------------------------------
(***************************************************************************)
(* src/src/log: LogStream, its FixedBuffer and Logger.  What a statement   *)
(* of the log macros makes of the items inserted with << is its record.    *)
(* Bytes are strings; the texts of a record's head and tail count as one   *)
(* byte each.                                                              *)
(***************************************************************************)
EXTENDS Integers, Sequences, SequencesExt

CONSTANTS
    SmallBuffer,    \* kSmallBuffer
    MaxNumericSize  \* kMaxNumericSize

Text(bytes) == [kind |-> "text", bytes |-> bytes]
Number(v) == [kind |-> "number", value |-> v]
Pointer(v) == [kind |-> "pointer", value |-> v]

(* FixedBuffer::append: what does not fit is left out as a whole.           *)
AppendText(buf, bytes) ==
    IF SmallBuffer - Len(buf) > Len(bytes) THEN buf \o bytes ELSE buf

(* / and % of C++, which round towards zero. *)
Quotient(i, base) == IF i < 0 THEN -((-i) \div base) ELSE i \div base
Remainder(i, base) == i - base * Quotient(i, base)

(* digits, in which zero points at the middle.                              *)
Digits == <<"9", "8", "7", "6", "5", "4", "3", "2", "1", "0",
            "1", "2", "3", "4", "5", "6", "7", "8", "9">>
Zero(lsd) == Digits[lsd + 10]
DigitsHex == <<"0", "1", "2", "3", "4", "5", "6", "7", "8", "9",
               "A", "B", "C", "D", "E", "F">>

(* Mutant: the loop ends early for what is negative. *)
MorePositive(i) == i > 0

(* while (i != 0) *)
More(i) == i # 0

(* convert: the digits are found from the last to the first.                *)
Reversed[i \in Int] ==
    LET rest == Quotient(i, 10)
    IN  <<Zero(Remainder(i, 10))>> \o (IF More(rest) THEN Reversed[rest] ELSE <<>>)
Convert(v) == Reverse(Reversed[v] \o (IF v < 0 THEN <<"-">> ELSE <<>>))

ReversedHex[i \in Nat] ==
    LET rest == i \div 16
    IN  <<DigitsHex[(i % 16) + 1]>> \o (IF More(rest) THEN ReversedHex[rest] ELSE <<>>)
ConvertHex(v) == Reverse(ReversedHex[v])

(* formatInteger: numbers need room for the longest.                        *)
AppendNumber(buf, bytes) ==
    IF SmallBuffer - Len(buf) >= MaxNumericSize THEN buf \o bytes ELSE buf

(* The bytes of an item: text as it is, numbers and pointers converted.     *)
Printed(item) ==
    CASE item.kind = "text" -> item.bytes
      [] item.kind = "number" -> Convert(item.value)
      [] item.kind = "pointer" -> <<"0", "x">> \o ConvertHex(item.value)

(* operator<<, but for doubles, which snprintf formats, and unsigned short, *)
(* see the README.                                                          *)
Insert(buf, item) ==
    IF item.kind = "text" THEN AppendText(buf, Printed(item))
                          ELSE AppendNumber(buf, Printed(item))

-----------------------------------------------------------------------------
ItemSet == [kind : {"text"}, bytes : Seq(STRING)] \union [kind : {"number"}, value : Int]
                \union [kind : {"pointer"}, value : Nat]

(* A statement has the level and the line of the macro, errno for           *)
(* LOG_SYSERR, and the items of the user's.                                 *)
Levels == {"TRACE", "DEBUG", "INFO", "WARN", "ERROR", "FATAL"}
StatementSet == [level : Levels, errno : Int, line : Nat, items : Seq(ItemSet)]

(* Logger::Impl::Impl, and the constructor that is given the function.      *)
Header(s) ==
    <<Text(<<"time">>), Text(<<"us">>), Text(<<"tid ">>), Text(<<s.level>>), Text(<<" ">>)>>
    \o (IF s.errno # 0
          THEN <<Text(<<"strerror">>), Text(<<" (errno=">>), Number(s.errno), Text(<<") ">>)>>
          ELSE <<>>)
    \o (IF s.level \in {"TRACE", "DEBUG", "INFO"}
          THEN <<Text(<<"func">>), Text(<<" ">>)>> ELSE <<>>)

(* Logger::Impl::finish.                                                    *)
Finish(s) ==
    <<Text(<<" - ">>), Text(<<"basename">>), Text(<<":">>), Number(s.line), Text(<<"\n">>)>>

Items(s) == Header(s) \o s.items \o Finish(s)

(* What ~Logger gives to g_output.                                          *)
Record(s) ==
    LET items == Items(s)
        buf[i \in 0..Len(items)] ==
            IF i = 0 THEN <<>> ELSE Insert(buf[i - 1], items[i])
    IN  buf[Len(items)]

-----------------------------------------------------------------------------
(* The same without a limit. *)
Whole(s) ==
    LET items == Items(s)
        buf[i \in 0..Len(items)] ==
            IF i = 0 THEN <<>> ELSE buf[i - 1] \o Printed(items[i])
    IN  buf[Len(items)]

(* The number a sequence of digits stands for.                              *)
DigitValue(d, base) == CHOOSE n \in 0..base - 1 : DigitsHex[n + 1] = d
Value(digits, base) ==
    LET value[i \in 0..Len(digits)] ==
            IF i = 0 THEN 0 ELSE base * value[i - 1] + DigitValue(digits[i], base)
    IN  value[Len(digits)]
=============================================================================
