------------------------------- MODULE Buffer -------------------------------
(***************************************************************************)
(* src/src/net/Buffer.{h,cc}.  A buffer is a record of its cells, a        *)
(* sequence, and of the indexes reader (readerIndex_) and writer           *)
(* (writerIndex_), which count from 0 as in the code.                      *)
(***************************************************************************)
EXTENDS Integers, Sequences

CONSTANTS
    CheapPrepend,   \* kCheapPrepend
    InitialSize,    \* kInitialSize
    ExtraSize,      \* sizeof extraBuf
    Unset           \* what a cell holds before it is written

ASSUME SizeAssumption ==
    CheapPrepend \in Nat /\ InitialSize \in Nat /\ ExtraSize \in Nat

Blank(n) == [i \in 1..n |-> Unset]

NewBuffer == [cells |-> Blank(CheapPrepend + InitialSize),
              reader |-> CheapPrepend, writer |-> CheapPrepend]

ReadableBytes(b) == b.writer - b.reader
WritableBytes(b) == Len(b.cells) - b.writer
PrependableBytes(b) == b.reader

(* toStringPiece *)
Readable(b) == SubSeq(b.cells, b.reader + 1, b.writer)

(* The whole buffer is read: both indexes go back to the front. *)
RetrieveAll(b) == [b EXCEPT !.reader = CheapPrepend, !.writer = CheapPrepend]

Retrieve(b, len) ==
    IF len < ReadableBytes(b) THEN [b EXCEPT !.reader = @ + len] ELSE RetrieveAll(b)

(* The cells from index at, overwritten with s. *)
Copied(cells, at, s) ==
    [i \in DOMAIN cells |-> IF i \in at + 1..at + Len(s) THEN s[i - at] ELSE cells[i]]

(* Mutant: the readable bytes are moved but not the indexes. *)
MovedOnly(b, len) ==
    IF WritableBytes(b) + PrependableBytes(b) < len + CheapPrepend
      THEN [b EXCEPT !.cells = @ \o Blank(b.writer + len - Len(@))]
      ELSE [b EXCEPT !.cells = Copied(@, CheapPrepend, Readable(b)),
                     !.writer = CheapPrepend + ReadableBytes(b)]

(* More cells, or the readable ones moved to the front when that is enough. *)
MakeSpace(b, len) ==
    IF WritableBytes(b) + PrependableBytes(b) < len + CheapPrepend
      THEN [b EXCEPT !.cells = @ \o Blank(b.writer + len - Len(@))]
      ELSE [cells |-> Copied(b.cells, CheapPrepend, Readable(b)),
            reader |-> CheapPrepend, writer |-> CheapPrepend + ReadableBytes(b)]

EnsureWritable(b, len) == IF WritableBytes(b) < len THEN MakeSpace(b, len) ELSE b

AppendTo(b, s) ==
    LET e == EnsureWritable(b, Len(s)) IN
    [e EXCEPT !.cells = Copied(@, e.writer, s), !.writer = @ + Len(s)]

(* What one readv can take: the writable cells, and extraBuf when these are *)
(* fewer than it has.                                                       *)
ReadvSize(b) ==
    WritableBytes(b) + (IF WritableBytes(b) < ExtraSize THEN ExtraSize ELSE 0)

(* readFd, when readv returns s: the writable cells are filled first, the   *)
(* rest comes through extraBuf.                                             *)
ReadFd(b, s) ==
    LET n == WritableBytes(b) IN
    IF Len(s) <= n
      THEN [b EXCEPT !.cells = Copied(@, b.writer, s), !.writer = @ + Len(s)]
      ELSE AppendTo([b EXCEPT !.cells = Copied(@, b.writer, SubSeq(s, 1, n)),
                              !.writer = Len(b.cells)],
                    SubSeq(s, n + 1, Len(s)))

Prepend(b, s) ==
    [b EXCEPT !.reader = @ - Len(s), !.cells = Copied(@, b.reader - Len(s), s)]

Unwrite(b, len) == [b EXCEPT !.writer = @ - len]

(* shrink: a new buffer with the readable bytes and room for reserve more.  *)
Shrink(b, reserve) ==
    AppendTo(EnsureWritable(NewBuffer, ReadableBytes(b) + reserve), Readable(b))

-----------------------------------------------------------------------------
(* The integer helpers, for integers of n bytes, most significant first and *)
(* in two's complement (Endian.h).                                          *)
NetworkOrder(x, n) ==
    LET high[i \in 1..n] == IF i = n THEN x ELSE high[i + 1] \div 256
    IN  [i \in 1..n |-> high[i] % 256]

HostOrder(bytes) ==
    LET first == IF bytes[1] < 128 THEN bytes[1] ELSE bytes[1] - 256
        value[i \in DOMAIN bytes] ==
            IF i = 1 THEN first ELSE 256 * value[i - 1] + bytes[i]
    IN  value[Len(bytes)]

AppendInt(b, x, n) == AppendTo(b, NetworkOrder(x, n))
PrependInt(b, x, n) == Prepend(b, NetworkOrder(x, n))
PeekInt(b, n) == HostOrder(SubSeq(b.cells, b.reader + 1, b.reader + n))
RetrieveInt(b, n) == Retrieve(b, n)

(* readInt: its value and what is left.                                     *)
ReadInt(b, n) == [value |-> PeekInt(b, n), rest |-> RetrieveInt(b, n)]

-----------------------------------------------------------------------------
(* Nothing is read before it is written, nor written past the end.  Data    *)
(* may have been prepended.                                                 *)
WellFormed(b) ==
    /\ 0 <= b.reader /\ b.reader <= b.writer /\ b.writer <= Len(b.cells)
    /\ CheapPrepend <= Len(b.cells)
    /\ \A i \in b.reader + 1..b.writer : b.cells[i] # Unset
=============================================================================
