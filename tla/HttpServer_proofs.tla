-------------------------- MODULE HttpServer_proofs --------------------------
(***************************************************************************)
(* Buffer: for every content and every value of the constants its          *)
(* operations are those of a queue of bytes, and integers are read back.   *)
(* HttpServer: for all streams of lines and however they are cut into      *)
(* pieces, the answers follow the stream, nothing is left behind for a     *)
(* client that waits, and the buffer holds what is not consumed.           *)
(***************************************************************************)
EXTENDS HttpServer, FiniteSetTheorems, SequenceTheorems, TLAPS

(* The buffers over a set of bytes, their cells maybe not written yet.      *)
Buffers(Bytes) == [cells : Seq(Bytes \union {Unset}), reader : Nat, writer : Nat]

(* The cells that are copied to are replaced, the others kept.              *)
LEMMA CopiedCells ==
    ASSUME NEW S, NEW cells \in Seq(S), NEW at \in Nat, NEW s \in Seq(S)
    PROVE  /\ Copied(cells, at, s) \in Seq(S)
           /\ Len(Copied(cells, at, s)) = Len(cells)
           /\ \A i \in 1..Len(cells) : Copied(cells, at, s)[i] =
                IF i \in at + 1..at + Len(s) THEN s[i - at] ELSE cells[i]
<1> DEFINE e(i) == IF i \in at + 1..at + Len(s) THEN s[i - at] ELSE cells[i]
<1>1. DOMAIN cells = 1..Len(cells) /\ Len(cells) \in Nat /\ Len(s) \in Nat
  OBVIOUS
<1>2. \A i \in 1..Len(cells) : e(i) \in S
  <2> SUFFICES ASSUME NEW i \in 1..Len(cells) PROVE e(i) \in S
    OBVIOUS
  <2>1. CASE i \in at + 1..at + Len(s)
    <3>1. i - at \in 1..Len(s)
      BY <2>1, <1>1
    <3> QED
      BY <2>1, <3>1, ElementOfSeq
  <2>2. CASE i \notin at + 1..at + Len(s)
    BY <2>2, ElementOfSeq
  <2> QED
    BY <2>1, <2>2
<1>3. Copied(cells, at, s) = [i \in 1..Len(cells) |-> e(i)]
  BY <1>1 DEF Copied
<1> HIDE DEF e
<1>4. Copied(cells, at, s) \in [1..Len(cells) -> S]
  BY <1>2, <1>3
<1>5. Copied(cells, at, s) \in Seq(S) /\ Len(Copied(cells, at, s)) = Len(cells)
  BY <1>1, <1>4, SeqDef
<1> QED
  BY <1>3, <1>5 DEF e

(* The readable bytes, one by one.                                          *)
LEMMA ReadableCells ==
    ASSUME NEW S, NEW b \in Buffers(S), WellFormed(b)
    PROVE  /\ Readable(b) \in Seq(S)
           /\ Len(Readable(b)) = ReadableBytes(b)
           /\ ReadableBytes(b) \in Nat
           /\ \A i \in 1..ReadableBytes(b) : Readable(b)[i] = b.cells[b.reader + i]
<1>1. /\ b.reader \in Nat /\ b.writer \in Nat /\ b.cells \in Seq(S \union {Unset})
      /\ b.reader <= b.writer /\ b.writer <= Len(b.cells) /\ Len(b.cells) \in Nat
  BY DEF Buffers, WellFormed
<1>2. \A i \in b.reader + 1..b.writer : b.cells[i] \in S
  <2> SUFFICES ASSUME NEW i \in b.reader + 1..b.writer PROVE b.cells[i] \in S
    OBVIOUS
  <2>1. i \in 1..Len(b.cells)
    BY <1>1
  <2>2. b.cells[i] \in S \union {Unset}
    BY <1>1, <2>1, ElementOfSeq
  <2> QED
    BY <2>2 DEF WellFormed
<1>3. /\ Readable(b) \in Seq(S)
      /\ Len(Readable(b)) = IF b.reader + 1 <= b.writer THEN b.writer - (b.reader + 1) + 1 ELSE 0
      /\ \A i \in 1..b.writer - (b.reader + 1) + 1 : Readable(b)[i] = b.cells[b.reader + 1 + i - 1]
  <2>1. b.reader + 1 \in Int /\ b.writer \in Int
    BY <1>1
  <2> QED
    BY <1>2, <2>1, SubSeqProperties DEF Readable
<1>4. /\ ReadableBytes(b) \in Nat
      /\ ReadableBytes(b) = b.writer - (b.reader + 1) + 1
      /\ \A i \in 1..ReadableBytes(b) : b.reader + 1 + i - 1 = b.reader + i
  BY <1>1 DEF ReadableBytes
<1>5. Len(Readable(b)) = ReadableBytes(b)
  BY <1>1, <1>3 DEF ReadableBytes
<1>6. \A i \in 1..ReadableBytes(b) : Readable(b)[i] = b.cells[b.reader + i]
  BY <1>3, <1>4
<1> QED
  BY <1>3, <1>4, <1>5, <1>6

(* A buffer whose cells between the indexes are those of q is well formed   *)
(* and has q to read.                                                       *)
LEMMA ReadableIs ==
    ASSUME NEW S, Unset \notin S, NEW b \in Buffers(S), NEW q \in Seq(S),
           CheapPrepend <= Len(b.cells), b.writer <= Len(b.cells),
           b.writer = b.reader + Len(q),
           \A i \in 1..Len(q) : b.cells[b.reader + i] = q[i]
    PROVE  WellFormed(b) /\ Readable(b) = q
<1>1. b.reader \in Nat /\ b.writer \in Nat /\ Len(q) \in Nat /\ b.reader <= b.writer
  BY DEF Buffers
<1>2. \A j \in b.reader + 1..b.writer : b.cells[j] # Unset
  <2> SUFFICES ASSUME NEW j \in b.reader + 1..b.writer PROVE b.cells[j] # Unset
    OBVIOUS
  <2>1. j - b.reader \in 1..Len(q) /\ b.reader + (j - b.reader) = j
    BY <1>1
  <2>2. b.cells[j] = q[j - b.reader]
    BY <2>1
  <2>3. q[j - b.reader] \in S
    BY <2>1, ElementOfSeq
  <2> QED
    BY <2>2, <2>3
<1>3. WellFormed(b)
  BY <1>1, <1>2 DEF WellFormed
<1>4. ReadableBytes(b) = Len(q)
  BY <1>1 DEF ReadableBytes
<1>5. Readable(b) \in Seq(S) /\ Len(Readable(b)) = Len(q)
  BY <1>3, <1>4, ReadableCells
<1>6. \A i \in 1..Len(q) : Readable(b)[i] = q[i]
  BY <1>3, <1>4, ReadableCells
<1>7. Readable(b) = q
  BY <1>5, <1>6, SeqEqual
<1> QED
  BY <1>3, <1>7

(* Cells added at the end leave the others alone.                           *)
LEMMA GrownCells ==
    ASSUME NEW S, NEW cells \in Seq(S \union {Unset}), NEW n \in Nat
    PROVE  /\ cells \o Blank(n) \in Seq(S \union {Unset})
           /\ Len(cells \o Blank(n)) = Len(cells) + n
           /\ \A i \in 1..Len(cells) : (cells \o Blank(n))[i] = cells[i]
<1>1. Blank(n) \in Seq(S \union {Unset}) /\ Len(Blank(n)) = n
  <2>1. Blank(n) \in [1..n -> S \union {Unset}]
    BY DEF Blank
  <2> QED
    BY <2>1, SeqDef
<1> HIDE DEF Blank
<1>2. \A i \in 1..Len(cells) : (cells \o Blank(n))[i] = cells[i]
  BY <1>1, ConcatProperties
<1>3. Len(cells \o Blank(n)) = Len(cells) + n
  BY <1>1, ConcatProperties
<1>4. cells \o Blank(n) \in Seq(S \union {Unset})
  BY <1>1, ConcatProperties
<1> QED
  BY <1>2, <1>3, <1>4

(* makeSpace (Buffer.h:386) makes the room it is asked for, whether it      *)
(* grows the cells or moves the readable ones to the front, and neither     *)
(* loses nor changes a byte.  It only moves them when there is room in      *)
(* front: its assertion (Buffer.h:399) holds, whatever was prepended.       *)
THEOREM MakeSpaceKeepsBytes ==
    ASSUME NEW S, Unset \notin S, NEW b \in Buffers(S), WellFormed(b),
           NEW len \in Nat, WritableBytes(b) < len
    PROVE  LET e == MakeSpace(b, len) IN
           /\ e \in Buffers(S) /\ WellFormed(e)
           /\ Readable(e) = Readable(b)
           /\ WritableBytes(e) >= len
           /\ WritableBytes(b) + PrependableBytes(b) >= len + CheapPrepend =>
                CheapPrepend < b.reader
<1>1. /\ b.reader \in Nat /\ b.writer \in Nat /\ b.cells \in Seq(S \union {Unset})
      /\ b.reader <= b.writer /\ b.writer <= Len(b.cells) /\ Len(b.cells) \in Nat
      /\ CheapPrepend \in Nat /\ CheapPrepend <= Len(b.cells)
  BY SizeAssumption DEF Buffers, WellFormed
<1>2. /\ Readable(b) \in Seq(S) /\ Readable(b) \in Seq(S \union {Unset})
      /\ ReadableBytes(b) = b.writer - b.reader /\ ReadableBytes(b) \in Nat
      /\ Len(Readable(b)) = ReadableBytes(b)
      /\ \A i \in 1..ReadableBytes(b) : Readable(b)[i] = b.cells[b.reader + i]
  BY ReadableCells DEF ReadableBytes
<1> DEFINE e == MakeSpace(b, len)
<1>3. CASE WritableBytes(b) + PrependableBytes(b) < len + CheapPrepend
  <2> DEFINE n == b.writer + len - Len(b.cells)
  <2>1. n \in Nat
    BY <1>1 DEF WritableBytes
  <2>2. e = [b EXCEPT !.cells = b.cells \o Blank(n)]
    BY <1>3 DEF MakeSpace
  <2>3. e.cells = b.cells \o Blank(n) /\ e.reader = b.reader /\ e.writer = b.writer
    BY <2>2 DEF Buffers
  <2> HIDE DEF e, n
  <2>4. /\ e.cells \in Seq(S \union {Unset})
        /\ Len(e.cells) = Len(b.cells) + n
        /\ \A i \in 1..Len(b.cells) : e.cells[i] = b.cells[i]
    <3> DEFINE c == b.cells \o Blank(n)
    <3>1. /\ c \in Seq(S \union {Unset}) /\ Len(c) = Len(b.cells) + n
          /\ \A i \in 1..Len(b.cells) : c[i] = b.cells[i]
      BY <1>1, <2>1, GrownCells
    <3> HIDE DEF c
    <3>2. e.cells = c
      BY <2>3 DEF c
    <3> QED
      BY <3>1, <3>2
  <2>5. e \in Buffers(S)
    BY <1>1, <2>1, <2>2, <2>3, <2>4 DEF Buffers
  <2>6. \A i \in 1..ReadableBytes(b) : e.cells[e.reader + i] = Readable(b)[i]
    <3> SUFFICES ASSUME NEW i \in 1..ReadableBytes(b) PROVE e.cells[e.reader + i] = Readable(b)[i]
      OBVIOUS
    <3>1. b.reader + i \in 1..Len(b.cells)
      BY <1>1, <1>2
    <3> QED
      BY <1>2, <2>3, <2>4, <3>1
  <2>7. Len(e.cells) = b.writer + len
    BY <1>1, <2>4 DEF n
  <2>8. WellFormed(e) /\ Readable(e) = Readable(b)
    <3>1. CheapPrepend <= Len(e.cells) /\ e.writer <= Len(e.cells) /\ e.writer = e.reader + Len(Readable(b))
      BY <1>1, <1>2, <2>3, <2>7
    <3> QED
      BY <1>2, <2>5, <2>6, <3>1, ReadableIs
  <2>9. WritableBytes(e) >= len
    BY <1>1, <2>3, <2>7 DEF WritableBytes
  <2>10. ~(WritableBytes(b) + PrependableBytes(b) >= len + CheapPrepend)
    BY <1>1, <1>3 DEF WritableBytes, PrependableBytes
  <2> QED
    BY <2>5, <2>8, <2>9, <2>10 DEF e
<1>4. CASE ~(WritableBytes(b) + PrependableBytes(b) < len + CheapPrepend)
  <2>11. CheapPrepend < b.reader
    BY <1>1, <1>4 DEF WritableBytes, PrependableBytes
  <2>12. /\ CheapPrepend \in Nat /\ Len(b.cells) \in Nat /\ ReadableBytes(b) \in Nat
         /\ CheapPrepend + ReadableBytes(b) <= Len(b.cells)
         /\ Len(Readable(b)) = ReadableBytes(b)
    <3>1. ReadableBytes(b) = b.writer - b.reader
      BY <1>2
    <3>2. CheapPrepend + (b.writer - b.reader) <= Len(b.cells)
      BY <1>1, <2>11
    <3> QED
      BY <1>1, <1>2, <3>1, <3>2
  <2>1. e = [cells |-> Copied(b.cells, CheapPrepend, Readable(b)),
             reader |-> CheapPrepend, writer |-> CheapPrepend + ReadableBytes(b)]
    BY <1>4 DEF MakeSpace
  <2>2. /\ e.cells = Copied(b.cells, CheapPrepend, Readable(b))
        /\ e.reader = CheapPrepend /\ e.writer = CheapPrepend + ReadableBytes(b)
    BY <2>1
  <2>3. /\ e.cells \in Seq(S \union {Unset})
        /\ Len(e.cells) = Len(b.cells)
        /\ \A i \in 1..Len(b.cells) : e.cells[i] =
             IF i \in CheapPrepend + 1..CheapPrepend + Len(Readable(b))
               THEN Readable(b)[i - CheapPrepend] ELSE b.cells[i]
    <3> DEFINE c == Copied(b.cells, CheapPrepend, Readable(b))
    <3>1. /\ c \in Seq(S \union {Unset}) /\ Len(c) = Len(b.cells)
          /\ \A i \in 1..Len(b.cells) : c[i] =
               IF i \in CheapPrepend + 1..CheapPrepend + Len(Readable(b))
                 THEN Readable(b)[i - CheapPrepend] ELSE b.cells[i]
      <4>1. /\ CheapPrepend \in Nat /\ b.cells \in Seq(S \union {Unset})
            /\ Readable(b) \in Seq(S \union {Unset})
        BY <1>1, <1>2
      <4> QED
        BY <4>1, CopiedCells
    <3> HIDE DEF c
    <3>2. e.cells = c
      BY <2>2 DEF c
    <3> QED
      BY <3>1, <3>2
  <2>4. e \in Buffers(S)
    BY <1>1, <1>2, <2>1, <2>2, <2>3 DEF Buffers
  <2> HIDE DEF e
  <2>5. \A i \in 1..ReadableBytes(b) : e.cells[e.reader + i] = Readable(b)[i]
    <3> SUFFICES ASSUME NEW i \in 1..ReadableBytes(b) PROVE e.cells[e.reader + i] = Readable(b)[i]
      OBVIOUS
    <3> DEFINE j == CheapPrepend + i
    <3>1. /\ j \in 1..Len(b.cells) /\ j - CheapPrepend = i
          /\ j \in CheapPrepend + 1..CheapPrepend + Len(Readable(b))
      BY <2>12
    <3>2. e.reader + i = j
      BY <2>2
    <3> HIDE DEF j
    <3>3. e.cells[j] = Readable(b)[j - CheapPrepend]
      BY <2>3, <3>1, Zenon
    <3> QED
      BY <3>1, <3>2, <3>3
  <2>6. WellFormed(e) /\ Readable(e) = Readable(b)
    <3>1. CheapPrepend <= Len(e.cells) /\ e.writer <= Len(e.cells) /\ e.writer = e.reader + Len(Readable(b))
      BY <1>1, <2>2, <2>3, <2>12
    <3> QED
      BY <1>2, <2>4, <2>5, <3>1, ReadableIs
  <2>7. WritableBytes(e) >= len
    BY <1>1, <1>2, <1>4, <2>2, <2>3 DEF WritableBytes, PrependableBytes
  <2> QED
    BY <2>11, <2>4, <2>6, <2>7 DEF e
<1> QED
  BY <1>3, <1>4

(* Bytes written behind the readable ones where there is room for them are  *)
(* read after these (append's copy and hasWritten, and readv).              *)
LEMMA WrittenAreReadable ==
    ASSUME NEW S, Unset \notin S, NEW b \in Buffers(S), WellFormed(b),
           NEW s \in Seq(S), Len(s) <= WritableBytes(b)
    PROVE  LET e == [b EXCEPT !.cells = Copied(@, b.writer, s), !.writer = @ + Len(s)] IN
           e \in Buffers(S) /\ WellFormed(e) /\ Readable(e) = Readable(b) \o s
<1>1. /\ b.reader \in Nat /\ b.writer \in Nat /\ b.cells \in Seq(S \union {Unset})
      /\ b.reader <= b.writer /\ b.writer + Len(s) <= Len(b.cells) /\ Len(b.cells) \in Nat
      /\ CheapPrepend <= Len(b.cells) /\ Len(s) \in Nat /\ s \in Seq(S \union {Unset})
  BY SizeAssumption DEF Buffers, WellFormed, WritableBytes
<1>2. /\ Readable(b) \in Seq(S)
      /\ b.writer = b.reader + Len(Readable(b)) /\ Len(Readable(b)) \in Nat
      /\ \A i \in 1..Len(Readable(b)) : Readable(b)[i] = b.cells[b.reader + i]
  BY <1>1, ReadableCells DEF ReadableBytes
<1> DEFINE e == [b EXCEPT !.cells = Copied(@, b.writer, s), !.writer = @ + Len(s)]
           c == Copied(b.cells, b.writer, s)
           q == Readable(b) \o s
           m == Len(Readable(b))
<1>3. e.cells = c /\ e.reader = b.reader /\ e.writer = b.writer + Len(s)
  BY DEF Buffers
<1>4. /\ c \in Seq(S \union {Unset}) /\ Len(c) = Len(b.cells)
      /\ \A i \in 1..Len(b.cells) : c[i] =
           IF i \in b.writer + 1..b.writer + Len(s) THEN s[i - b.writer] ELSE b.cells[i]
  BY <1>1, CopiedCells
<1>5. e \in Buffers(S)
  <2>1. e = [b EXCEPT !.cells = c, !.writer = b.writer + Len(s)]
    OBVIOUS
  <2> HIDE DEF e, c
  <2>2. c \in Seq(S \union {Unset}) /\ b.writer + Len(s) \in Nat
    BY <1>1, <1>4
  <2> QED
    BY <2>1, <2>2 DEF Buffers
<1>6. /\ q \in Seq(S) /\ Len(q) = m + Len(s)
      /\ \A i \in 1..m + Len(s) : q[i] = IF i <= m THEN Readable(b)[i] ELSE s[i - m]
  BY <1>2, ConcatProperties
<1> HIDE DEF e, c, q, m
<1>7. ASSUME NEW i \in 1..Len(q)
      PROVE  e.cells[e.reader + i] = q[i]
  <2> DEFINE j == b.reader + i
  <2>1. j \in 1..Len(b.cells) /\ i \in 1..m + Len(s)
    <3>1. /\ Len(q) = m + Len(s) /\ m \in Nat /\ Len(s) \in Nat
          /\ b.reader \in Nat /\ Len(b.cells) \in Nat /\ b.writer = b.reader + m
          /\ b.writer + Len(s) <= Len(b.cells)
      BY <1>1, <1>2, <1>6 DEF m
    <3> QED
      BY <3>1
  <2>2. c[j] = IF j \in b.writer + 1..b.writer + Len(s) THEN s[j - b.writer] ELSE b.cells[j]
    BY <1>4, <2>1
  <2>3. CASE i <= m
    <3>1. j \notin b.writer + 1..b.writer + Len(s) /\ i \in 1..Len(Readable(b))
      BY <1>1, <1>2, <2>1, <2>3 DEF m
    <3>2. c[j] = b.cells[j]
      BY <2>2, <3>1
    <3>3. q[i] = Readable(b)[i]
      BY <1>6, <2>1, <2>3
    <3> QED
      BY <1>2, <1>3, <3>1, <3>2, <3>3
  <2>4. CASE ~(i <= m)
    <3>1. j \in b.writer + 1..b.writer + Len(s) /\ j - b.writer = i - m
      BY <1>1, <1>2, <2>1, <2>4 DEF m
    <3>2. c[j] = s[i - m]
      BY <2>2, <3>1
    <3>3. q[i] = s[i - m]
      BY <1>6, <2>1, <2>4
    <3> QED
      BY <1>3, <3>2, <3>3
  <2> QED
    BY <2>3, <2>4
<1>8. CheapPrepend <= Len(e.cells) /\ e.writer <= Len(e.cells) /\ e.writer = e.reader + Len(q)
  BY <1>1, <1>2, <1>3, <1>4, <1>6 DEF m
<1>9. WellFormed(e) /\ Readable(e) = q
  BY <1>5, <1>6, <1>7, <1>8, ReadableIs
<1> QED
  BY <1>5, <1>9 DEF e, q

(* ensureWritable (Buffer.h:203) makes space when there is not enough.      *)
LEMMA EnsureKeepsBytes ==
    ASSUME NEW S, Unset \notin S, NEW b \in Buffers(S), WellFormed(b), NEW len \in Nat
    PROVE  LET r == EnsureWritable(b, len) IN
           /\ r \in Buffers(S) /\ WellFormed(r)
           /\ Readable(r) = Readable(b) /\ len <= WritableBytes(r)
<1> DEFINE r == EnsureWritable(b, len)
<1>1. WritableBytes(b) \in Int
  BY DEF WritableBytes, Buffers
<1>2. CASE WritableBytes(b) < len
  <2>1. r = MakeSpace(b, len)
    BY <1>2 DEF EnsureWritable
  <2>2. r \in Buffers(S)
    BY <1>2, <2>1, MakeSpaceKeepsBytes
  <2>3. WellFormed(r) /\ Readable(r) = Readable(b) /\ WritableBytes(r) >= len
    BY <1>2, <2>1, MakeSpaceKeepsBytes
  <2>4. WritableBytes(r) \in Int
    BY <2>2 DEF WritableBytes, Buffers
  <2> QED
    BY <2>2, <2>3, <2>4
<1>3. CASE ~(WritableBytes(b) < len)
  BY <1>1, <1>3 DEF EnsureWritable
<1> QED
  BY <1>2, <1>3

(* append (Buffer.h:190) adds its bytes behind those there are, whether or  *)
(* not it has to make space.                                                *)
THEOREM AppendAddsAtTheEnd ==
    ASSUME NEW S, Unset \notin S, NEW b \in Buffers(S), WellFormed(b), NEW s \in Seq(S)
    PROVE  LET e == AppendTo(b, s) IN
           e \in Buffers(S) /\ WellFormed(e) /\ Readable(e) = Readable(b) \o s
<1> DEFINE r == EnsureWritable(b, Len(s))
<1>1. /\ r \in Buffers(S) /\ WellFormed(r)
      /\ Readable(r) = Readable(b) /\ Len(s) <= WritableBytes(r)
  <2>1. Len(s) \in Nat
    OBVIOUS
  <2> QED
    BY <2>1, EnsureKeepsBytes
<1>2. AppendTo(b, s) = [r EXCEPT !.cells = Copied(@, r.writer, s), !.writer = @ + Len(s)]
  BY DEF AppendTo
<1> HIDE DEF r
<1> DEFINE x == [r EXCEPT !.cells = Copied(@, r.writer, s), !.writer = @ + Len(s)]
<1>3. x \in Buffers(S) /\ WellFormed(x) /\ Readable(x) = Readable(r) \o s
  BY <1>1, WrittenAreReadable
<1> HIDE DEF x
<1>4. AppendTo(b, s) = x
  BY <1>2 DEF x
<1> QED
  BY <1>1, <1>3, <1>4

(* retrieve (Buffer.h:117) takes bytes off the front, all of them when it   *)
(* is asked for more than there are, and leaves the rest.                   *)
THEOREM RetrieveTakesFromFront ==
    ASSUME NEW S, Unset \notin S, NEW b \in Buffers(S), WellFormed(b), NEW len \in Nat
    PROVE  LET e == Retrieve(b, len) IN
           /\ e \in Buffers(S) /\ WellFormed(e)
           /\ Readable(e) = SubSeq(Readable(b), len + 1, ReadableBytes(b))
<1>1. /\ b.reader \in Nat /\ b.writer \in Nat /\ b.cells \in Seq(S \union {Unset})
      /\ b.reader <= b.writer /\ b.writer <= Len(b.cells) /\ Len(b.cells) \in Nat
      /\ CheapPrepend <= Len(b.cells) /\ CheapPrepend \in Nat
  BY SizeAssumption DEF Buffers, WellFormed
<1>2. /\ Readable(b) \in Seq(S)
      /\ Len(Readable(b)) = ReadableBytes(b) /\ ReadableBytes(b) \in Nat
      /\ ReadableBytes(b) = b.writer - b.reader
      /\ \A i \in 1..ReadableBytes(b) : Readable(b)[i] = b.cells[b.reader + i]
  BY <1>1, ReadableCells DEF ReadableBytes
<1> DEFINE e == Retrieve(b, len)
           n == ReadableBytes(b)
           q == SubSeq(Readable(b), len + 1, n)
<1>3. /\ q \in Seq(S)
      /\ Len(q) = IF len + 1 <= n THEN n - (len + 1) + 1 ELSE 0
      /\ \A i \in 1..n - (len + 1) + 1 : q[i] = Readable(b)[len + 1 + i - 1]
  <2>1. \A i \in len + 1..n : Readable(b)[i] \in S
    <3> SUFFICES ASSUME NEW i \in len + 1..n PROVE Readable(b)[i] \in S
      OBVIOUS
    <3>1. i \in 1..Len(Readable(b))
      BY <1>2
    <3> QED
      BY <1>2, <3>1, ElementOfSeq
  <2>2. len + 1 \in Int /\ n \in Int
    BY <1>2
  <2> QED
    BY <2>1, <2>2, SubSeqProperties
<1>4. CASE len < n
  <2>1. e = [b EXCEPT !.reader = @ + len]
    BY <1>4 DEF Retrieve
  <2>2. e.cells = b.cells /\ e.reader = b.reader + len /\ e.writer = b.writer
    BY <2>1 DEF Buffers
  <2>3. e \in Buffers(S)
    BY <1>1, <2>1, <2>2 DEF Buffers
  <2> HIDE DEF e, q
  <2>4. Len(q) = n - len
    BY <1>2, <1>3, <1>4
  <2>5. ASSUME NEW i \in 1..Len(q)
        PROVE  e.cells[e.reader + i] = q[i]
    <3>1. /\ i \in 1..n - (len + 1) + 1 /\ len + 1 + i - 1 = len + i
          /\ len + i \in 1..n /\ b.reader + (len + i) = b.reader + len + i
      <4>1. n \in Nat /\ n = b.writer - b.reader /\ len \in Nat /\ b.reader \in Nat
        BY <1>1, <1>2
      <4>2. i \in 1..n - len
        BY <2>4
      <4> HIDE DEF n
      <4> QED
        BY <4>1, <4>2
    <3>2. q[i] = Readable(b)[len + i]
      BY <1>3, <3>1
    <3>3. Readable(b)[len + i] = b.cells[b.reader + (len + i)]
      BY <1>2, <3>1
    <3> QED
      BY <2>2, <3>1, <3>2, <3>3
  <2>6. CheapPrepend <= Len(e.cells) /\ e.writer <= Len(e.cells) /\ e.writer = e.reader + Len(q)
    BY <1>1, <1>2, <2>2, <2>4
  <2>7. WellFormed(e) /\ Readable(e) = q
    BY <1>3, <2>3, <2>5, <2>6, ReadableIs
  <2> QED
    BY <2>3, <2>7 DEF e, q
<1>5. CASE ~(len < n)
  <2>1. e = [b EXCEPT !.reader = CheapPrepend, !.writer = CheapPrepend]
    BY <1>5 DEF Retrieve, RetrieveAll
  <2>2. e.cells = b.cells /\ e.reader = CheapPrepend /\ e.writer = CheapPrepend
    BY <2>1 DEF Buffers
  <2>3. e \in Buffers(S)
    BY <1>1, <2>1, <2>2 DEF Buffers
  <2> HIDE DEF e, q
  <2>4. Len(q) = 0
    BY <1>2, <1>3, <1>5
  <2>5. \A i \in 1..Len(q) : e.cells[e.reader + i] = q[i]
    BY <2>4
  <2>6. CheapPrepend <= Len(e.cells) /\ e.writer <= Len(e.cells) /\ e.writer = e.reader + Len(q)
    BY <1>1, <2>2, <2>4
  <2>7. WellFormed(e) /\ Readable(e) = q
    BY <1>3, <2>3, <2>5, <2>6, ReadableIs
  <2> QED
    BY <2>3, <2>7 DEF e, q
<1> QED
  BY <1>4, <1>5

(* prepend (Buffer.h:346) puts bytes in front of those there are, when      *)
(* there is room for them, and leaves these alone.                          *)
THEOREM PrependPutsInFront ==
    ASSUME NEW S, Unset \notin S, NEW b \in Buffers(S), WellFormed(b),
           NEW s \in Seq(S), Len(s) <= PrependableBytes(b)
    PROVE  LET e == Prepend(b, s) IN
           e \in Buffers(S) /\ WellFormed(e) /\ Readable(e) = s \o Readable(b)
<1>1. /\ b.reader \in Nat /\ b.writer \in Nat /\ b.cells \in Seq(S \union {Unset})
      /\ b.reader <= b.writer /\ b.writer <= Len(b.cells) /\ Len(b.cells) \in Nat
      /\ CheapPrepend <= Len(b.cells) /\ s \in Seq(S \union {Unset})
      /\ Len(s) \in Nat /\ Len(s) <= b.reader
  BY DEF Buffers, WellFormed, PrependableBytes
<1>2. /\ Readable(b) \in Seq(S)
      /\ b.writer = b.reader + Len(Readable(b)) /\ Len(Readable(b)) \in Nat
      /\ \A i \in 1..Len(Readable(b)) : Readable(b)[i] = b.cells[b.reader + i]
  BY <1>1, ReadableCells DEF ReadableBytes
<1> DEFINE e == Prepend(b, s)
           at == b.reader - Len(s)
           c == Copied(b.cells, at, s)
           q == s \o Readable(b)
<1>3. e.cells = c /\ e.reader = at /\ e.writer = b.writer /\ at \in Nat
  BY <1>1 DEF Buffers, Prepend
<1>4. /\ c \in Seq(S \union {Unset}) /\ Len(c) = Len(b.cells)
      /\ \A i \in 1..Len(b.cells) : c[i] =
           IF i \in at + 1..at + Len(s) THEN s[i - at] ELSE b.cells[i]
  <2> HIDE DEF at
  <2> QED
    BY <1>1, <1>3, CopiedCells
<1>5. e \in Buffers(S)
  <2>1. e = [b EXCEPT !.cells = c, !.reader = at]
    BY DEF Prepend
  <2> HIDE DEF e, c, at
  <2> QED
    BY <1>1, <1>3, <1>4, <2>1 DEF Buffers
<1>6. /\ q \in Seq(S) /\ Len(q) = Len(s) + Len(Readable(b))
      /\ \A i \in 1..Len(s) + Len(Readable(b)) :
           q[i] = IF i <= Len(s) THEN s[i] ELSE Readable(b)[i - Len(s)]
  BY <1>2, ConcatProperties
<1>7. at + Len(s) = b.reader
  BY <1>1
<1> HIDE DEF e, c, q, at
<1>8. ASSUME NEW i \in 1..Len(q)
      PROVE  e.cells[e.reader + i] = q[i]
  <2> DEFINE j == at + i
  <2>1. j \in 1..Len(b.cells) /\ i \in 1..Len(s) + Len(Readable(b))
    BY <1>1, <1>2, <1>3, <1>6, <1>7
  <2>2. c[j] = IF j \in at + 1..at + Len(s) THEN s[j - at] ELSE b.cells[j]
    BY <1>4, <2>1
  <2>3. CASE i <= Len(s)
    <3>1. j \in at + 1..at + Len(s) /\ j - at = i
      BY <1>1, <1>3, <2>1, <2>3
    <3> QED
      BY <1>3, <1>6, <2>1, <2>2, <2>3, <3>1
  <2>4. CASE ~(i <= Len(s))
    <3>1. /\ j \notin at + 1..at + Len(s) /\ i - Len(s) \in 1..Len(Readable(b))
          /\ b.reader + (i - Len(s)) = j
      BY <1>1, <1>2, <1>3, <1>7, <2>1, <2>4
    <3>2. c[j] = b.cells[j]
      BY <2>2, <3>1
    <3>3. q[i] = Readable(b)[i - Len(s)]
      BY <1>6, <2>1, <2>4
    <3> QED
      BY <1>2, <1>3, <3>1, <3>2, <3>3
  <2> QED
    BY <2>3, <2>4
<1>9. CheapPrepend <= Len(e.cells) /\ e.writer <= Len(e.cells) /\ e.writer = e.reader + Len(q)
  BY <1>1, <1>2, <1>3, <1>4, <1>6, <1>7
<1>10. WellFormed(e) /\ Readable(e) = q
  BY <1>5, <1>6, <1>8, <1>9, ReadableIs
<1> QED
  BY <1>5, <1>10 DEF e, q

(* readFd (Buffer.cc:24) adds all that readv returned behind the bytes      *)
(* there are, however much of it went through extraBuf.                     *)
THEOREM ReadFdAddsAtTheEnd ==
    ASSUME NEW S, Unset \notin S, NEW b \in Buffers(S), WellFormed(b), NEW s \in Seq(S)
    PROVE  LET e == ReadFd(b, s) IN
           e \in Buffers(S) /\ WellFormed(e) /\ Readable(e) = Readable(b) \o s
<1> DEFINE n == WritableBytes(b)
           front == SubSeq(s, 1, n)
           rest == SubSeq(s, n + 1, Len(s))
           f == [b EXCEPT !.cells = Copied(@, b.writer, front), !.writer = @ + Len(front)]
<1>1. /\ n \in Nat /\ n = Len(b.cells) - b.writer
      /\ b.writer \in Nat /\ Len(b.cells) \in Nat /\ Len(s) \in Nat
  BY DEF WritableBytes, Buffers, WellFormed
<1>2. CASE Len(s) <= n
  <2> DEFINE x == [b EXCEPT !.cells = Copied(@, b.writer, s), !.writer = @ + Len(s)]
  <2>1. x \in Buffers(S) /\ WellFormed(x) /\ Readable(x) = Readable(b) \o s
    BY <1>2, WrittenAreReadable
  <2> HIDE DEF x
  <2>2. ReadFd(b, s) = x
    BY <1>2 DEF ReadFd, x
  <2> QED
    BY <2>1, <2>2
<1>3. CASE ~(Len(s) <= n)
  <2>1. front \in Seq(S) /\ Len(front) = n /\ rest \in Seq(S) /\ front \o rest = s
    <3>1. 1 \in 1..Len(s) + 1 /\ n \in 1 - 1..Len(s) /\ Len(s) \in n..Len(s)
      BY <1>1, <1>3
    <3>2. front \o rest = SubSeq(s, 1, Len(s))
      BY <3>1, ConcatAdjacentSubSeq
    <3>3. SubSeq(s, 1, Len(s)) = s
      BY SubSeqFull
    <3>4. \A i \in 1..Len(s) : s[i] \in S
      BY ElementOfSeq
    <3>5. (\A i \in 1..n : s[i] \in S) /\ (\A i \in n + 1..Len(s) : s[i] \in S)
      BY <1>1, <1>3, <3>4
    <3>6. front \in Seq(S) /\ Len(front) = IF 1 <= n THEN n - 1 + 1 ELSE 0
      <4>1. 1 \in Int /\ n \in Int
        BY <1>1
      <4> QED
        BY <3>5, <4>1, SubSeqProperties
    <3>7. rest \in Seq(S)
      <4>1. n + 1 \in Int /\ Len(s) \in Int
        BY <1>1
      <4> QED
        BY <3>5, <4>1, SubSeqProperties
    <3>8. Len(front) = n
      BY <1>1, <3>6
    <3> QED
      BY <3>2, <3>3, <3>6, <3>7, <3>8
  <2> HIDE DEF front, rest
  <2>2. f \in Buffers(S) /\ WellFormed(f) /\ Readable(f) = Readable(b) \o front
    <3>1. Len(front) <= WritableBytes(b)
      BY <1>1, <2>1
    <3> QED
      BY <2>1, <3>1, WrittenAreReadable
  <2>3. [b EXCEPT !.cells = Copied(@, b.writer, front), !.writer = Len(b.cells)] = f
    <3>1. b.writer + Len(front) = Len(b.cells)
      BY <1>1, <2>1
    <3> QED
      BY <3>1
  <2> HIDE DEF f
  <2>4. ReadFd(b, s) = AppendTo(f, rest)
    BY <1>3, <2>3 DEF ReadFd, front, rest
  <2>5. /\ AppendTo(f, rest) \in Buffers(S) /\ WellFormed(AppendTo(f, rest))
        /\ Readable(AppendTo(f, rest)) = Readable(f) \o rest
    BY <2>1, <2>2, AppendAddsAtTheEnd
  <2>6. (Readable(b) \o front) \o rest = Readable(b) \o s
    <3>1. Readable(b) \in Seq(S)
      BY ReadableCells
    <3>2. front \in Seq(S) /\ rest \in Seq(S)
      BY <2>1
    <3>3. (Readable(b) \o front) \o rest = Readable(b) \o (front \o rest)
      <4> DEFINE q == Readable(b)
      <4> HIDE DEF q
      <4>1. q \in Seq(S)
        BY <3>1 DEF q
      <4>2. (q \o front) \o rest = q \o (front \o rest)
        BY <3>2, <4>1, ConcatAssociative
      <4> QED
        BY <4>2 DEF q
    <3> QED
      BY <2>1, <3>3
  <2> QED
    BY <2>2, <2>4, <2>5, <2>6
<1> QED
  BY <1>2, <1>3

(* shrink (Buffer.h:346) swaps in a new buffer with the same bytes to read. *)
THEOREM ShrinkKeepsBytes ==
    ASSUME NEW S, Unset \notin S, NEW b \in Buffers(S), WellFormed(b), NEW reserve \in Nat
    PROVE  LET e == Shrink(b, reserve) IN
           e \in Buffers(S) /\ WellFormed(e) /\ Readable(e) = Readable(b)
<1> DEFINE r == EnsureWritable(NewBuffer, ReadableBytes(b) + reserve)
<1>1. NewBuffer \in Buffers(S) /\ WellFormed(NewBuffer) /\ Readable(NewBuffer) = <<>>
  <2>1. CheapPrepend \in Nat /\ CheapPrepend + InitialSize \in Nat /\ <<>> \in Seq(S)
    BY SizeAssumption
  <2>3. Blank(CheapPrepend + InitialSize) \in [1..CheapPrepend + InitialSize -> S \union {Unset}]
    BY DEF Blank
  <2>4. /\ Blank(CheapPrepend + InitialSize) \in Seq(S \union {Unset})
        /\ Len(Blank(CheapPrepend + InitialSize)) = CheapPrepend + InitialSize
    BY <2>1, <2>3, SeqDef
  <2>5. NewBuffer \in Buffers(S)
    BY <2>1, <2>4 DEF NewBuffer, Buffers
  <2>6. /\ CheapPrepend <= Len(NewBuffer.cells) /\ NewBuffer.writer <= Len(NewBuffer.cells)
        /\ NewBuffer.writer = NewBuffer.reader + 0
    BY <2>1, <2>4, SizeAssumption DEF NewBuffer
  <2>7. Len(<<>>) = 0 /\ 1..Len(<<>>) = {}
    OBVIOUS
  <2> QED
    BY <2>1, <2>5, <2>6, <2>7, ReadableIs
<1>2. Readable(b) \in Seq(S) /\ ReadableBytes(b) + reserve \in Nat
  BY ReadableCells
<1>3. r \in Buffers(S) /\ WellFormed(r) /\ Readable(r) = <<>>
  BY <1>1, <1>2, EnsureKeepsBytes
<1> HIDE DEF r
<1>4. /\ AppendTo(r, Readable(b)) \in Buffers(S) /\ WellFormed(AppendTo(r, Readable(b)))
      /\ Readable(AppendTo(r, Readable(b))) = <<>> \o Readable(b)
  BY <1>2, <1>3, AppendAddsAtTheEnd
<1>5. <<>> \o Readable(b) = Readable(b)
  BY <1>2, ConcatEmptySeq
<1>6. Shrink(b, reserve) = AppendTo(r, Readable(b))
  BY DEF Shrink, r
<1> QED
  BY <1>4, <1>5, <1>6

-----------------------------------------------------------------------------
(* A set of numbers that is not empty has a least one: the intervals from 0 *)
(* are well-founded by inclusion below any member. *)
LEMMA LeastNatural ==
    ASSUME NEW S \in SUBSET Nat, S # {}
    PROVE  \E m \in S : \A n \in S : m <= n
<1>1. PICK x \in S : TRUE
  OBVIOUS
<1> DEFINE below == {0..n : n \in {k \in S : k <= x}}
<1>2. IsFiniteSet(0..x)
  BY FS_Interval
<1>3. 0..x \in below
  BY <1>1
<1>4. below \subseteq FiniteSubsetsOf(0..x)
  <2>1. \A n \in {k \in S : k <= x} : 0..n \subseteq 0..x
    OBVIOUS
  <2>2. \A n \in {k \in S : k <= x} : IsFiniteSet(0..n)
    BY FS_Interval
  <2> QED BY <2>1, <2>2 DEF FiniteSubsetsOf
<1>5. PICK b \in below : \A c \in below : <<c, b>> \notin StrictSubsetOrdering(0..x)
  <2> HIDE DEF below
  <2>1. IsWellFoundedOn(StrictSubsetOrdering(0..x), FiniteSubsetsOf(0..x))
    BY FS_StrictSubsetOrderingWellFounded
  <2> QED BY <1>3, <1>4, <2>1, WFMin
<1>6. PICK m \in {k \in S : k <= x} : b = 0..m
  BY <1>5
<1>7. ASSUME NEW n \in S PROVE m <= n
  <2> SUFFICES ASSUME n < m PROVE FALSE
    OBVIOUS
  <2>1. 0..n \in below
    BY <1>6
  <2>2. <<0..n, b>> \in StrictSubsetOrdering(0..x)
    <3>1. 0..n \subseteq 0..x /\ b \subseteq 0..x
      BY <1>6
    <3>2. m \in b /\ m \notin 0..n /\ 0..n \subseteq b
      BY <1>6
    <3> QED BY <3>1, <3>2 DEF StrictSubsetOrdering
  <2> QED BY <1>5, <2>1, <2>2
<1> QED BY <1>6, <1>7

(* Induction over the natural numbers, for a set of them. *)
LEMMA Induction ==
    ASSUME NEW N, 0 \in N, \A n \in Nat : n \in N => n + 1 \in N
    PROVE  \A n \in Nat : n \in N
<1> SUFFICES ASSUME Nat \ N # {} PROVE FALSE
  OBVIOUS
<1>1. PICK m \in Nat \ N : \A n \in Nat \ N : m <= n
  BY LeastNatural
<1>2. m # 0 /\ m - 1 \in Nat /\ m - 1 \in N
  BY <1>1
<1> QED BY <1>1, <1>2

(* A function f defined by recursion over the numbers to n: its first value *)
(* is x, the next ones are given by g, and its values are in the sets T,    *)
(* which g keeps to.                                                        *)
Keeps(g, T, n) == \A i \in 1..n : \A t \in T[i - 1] : g[i][t] \in T[i]

Recurs(f, x, g, T, n) ==
    /\ f[0] = x
    /\ \A i \in 1..n : f[i - 1] \in T[i - 1] /\ f[i] = g[i][f[i - 1]]
    /\ f[n] \in T[n]

(* There is such a function. *)
LEMMA Recursion ==
    ASSUME NEW n \in Nat, NEW U, NEW T \in [0..n -> SUBSET U], NEW x \in T[0], NEW g,
           Keeps(g, T, n)
    PROVE  \E f \in [0..n -> U] : Recurs(f, x, g, T, n)
<1> DEFINE Good(f, k) == /\ f[0] = x
                         /\ \A i \in 0..k : f[i] \in T[i]
                         /\ \A i \in 1..k : f[i] = g[i][f[i - 1]]
           N == {k \in Nat : k <= n => \E f \in [0..k -> U] : Good(f, k)}
<1>1. 0 \in N
  <2>1. [i \in 0..0 |-> x] \in [0..0 -> U]
    OBVIOUS
  <2>2. Good([i \in 0..0 |-> x], 0)
    OBVIOUS
  <2> QED BY <2>1, <2>2
<1>2. ASSUME NEW k \in Nat, k \in N, k + 1 <= n
      PROVE  \E f \in [0..k + 1 -> U] : Good(f, k + 1)
  <2>1. PICK f \in [0..k -> U] : Good(f, k)
    BY <1>2
  <2> DEFINE h == [i \in 0..k + 1 |-> IF i <= k THEN f[i] ELSE g[i][f[i - 1]]]
  <2>2. f[k] \in T[k] /\ k + 1 \in 1..n /\ k + 1 - 1 = k
    BY <1>2, <2>1
  <2>3. g[k + 1][f[k]] \in T[k + 1]
    BY <2>2 DEF Keeps
  <2>4. (\A i \in 0..k : h[i] = f[i]) /\ h[k + 1] = g[k + 1][f[k]]
    BY <2>2
  <2>5. \A i \in 0..k + 1 : h[i] \in U
    <3>1. T[k + 1] \subseteq U
      BY <2>2
    <3> QED BY <2>3, <2>4, <3>1
  <2>6. h \in [0..k + 1 -> U]
    BY <2>5
  <2> HIDE DEF h
  <2>7. \A i \in 0..k + 1 : h[i] \in T[i]
    BY <2>1, <2>3, <2>4
  <2>8. \A i \in 1..k + 1 : h[i] = g[i][h[i - 1]]
    <3> SUFFICES ASSUME NEW i \in 1..k + 1 PROVE h[i] = g[i][h[i - 1]]
      OBVIOUS
    <3>1. i - 1 \in 0..k /\ h[i - 1] = f[i - 1]
      BY <2>4
    <3>2. CASE i \in 1..k
      BY <2>1, <2>4, <3>1, <3>2
    <3>3. CASE i = k + 1
      BY <2>2, <2>4, <3>1, <3>3
    <3> QED BY <3>2, <3>3
  <2> QED BY <2>1, <2>4, <2>6, <2>7, <2>8
<1>3. \A k \in Nat : k \in N => k + 1 \in N
  BY <1>2
<1> HIDE DEF N
<1>4. n \in N
  BY <1>1, <1>3, Induction
<1>5. PICK f \in [0..n -> U] : Good(f, n)
  BY <1>4 DEF N
<1> QED BY <1>5 DEF Recurs

-----------------------------------------------------------------------------
(* The inductive invariant of HttpServer.                                   *)

(* What the variables may hold. *)
UnitSet == [line : Lines, crlf : BOOLEAN]

Requests == [method : {"kGet", "kInvalid"}, path : Paths, version : {"kUnknown", "kHttp10", "kHttp11"},
             connection : {"", "close", "Keep-Alive"}]

Contexts == [state : {"kExpectRequestLine", "kExpectHeaders"}, request : Requests]

TypesInv ==
    /\ client \in Streams
    /\ arrived \in 0..Len(Stream)
    /\ buf \in Buffers(UnitSet) /\ WellFormed(buf)
    /\ context \in Contexts
    /\ state \in {"kConnected", "kDisconnecting", "kDisconnected"}

(* The first p lines are consumed, the others have been read as far as the  *)
(* units that arrived.                                                      *)
Consumed(b, p, units) == Readable(b) = SubSeq(Stream, 2 * p + 1, units)

(* The context is that of a parser that has seen what reply has, and it is  *)
(* a fresh one between requests. *)
Agrees(ctx, reply) ==
    /\ ~reply.over
    /\ ctx.state = IF reply.inHeaders THEN "kExpectHeaders" ELSE "kExpectRequestLine"
    /\ ctx.request.connection = IF reply.inHeaders THEN reply.connection ELSE ""
    /\ IF reply.inHeaders
         THEN ctx.request.version = reply.version /\ ctx.request.path = reply.path
         ELSE ctx.request.method = "kInvalid"

(* A connection that is open has answered the lines it has consumed, and    *)
(* when its client waits for answers these are all.                         *)
OpenInv(p) ==
    /\ Agrees(context, Replies[p])
    /\ answers = Replies[p].out
    /\ client.waits => p = arrived \div 2

(* One that is not has answered the first lines, up to the one that closes  *)
(* it or, when the peer closed, at least those it has to.                   *)
ClosedInv(q) ==
    /\ answers = Replies[q].out
    /\ state = "kDisconnecting" => Replies[q].over
    /\ client.waits => Replies[q].over \/ q = arrived \div 2

HttpInv ==
    /\ TypesInv
    /\ \E p \in 0..arrived \div 2 :
          /\ Consumed(buf, p, arrived)
          /\ state = "kConnected" => OpenInv(p)
    /\ state # "kConnected" => \E q \in 0..arrived \div 2 : ClosedInv(q)

-----------------------------------------------------------------------------
(* The stream's units, two for a line.                                      *)
LEMMA StreamIs ==
    ASSUME client \in Streams
    PROVE  /\ client.lines \in Seq(Lines) /\ Len(client.lines) \in Nat
           /\ client.waits \in BOOLEAN
           /\ Stream \in Seq(UnitSet) /\ Len(Stream) = 2 * Len(client.lines)
           /\ \A k \in 1..Len(Stream) :
                 Stream[k] = [line |-> client.lines[(k + 1) \div 2], crlf |-> k % 2 = 0]
<1>1. client \in [lines : Seq(Lines), waits : BOOLEAN]
  BY StreamsAssumption
<1>2. client.lines \in Seq(Lines) /\ Len(client.lines) \in Nat /\ client.waits \in BOOLEAN
  BY <1>1
<1> DEFINE m == 2 * Len(client.lines)
           unit(k) == [line |-> client.lines[(k + 1) \div 2], crlf |-> k % 2 = 0]
<1>3. \A k \in 1..m : unit(k) \in UnitSet
  <2> SUFFICES ASSUME NEW k \in 1..m PROVE unit(k) \in UnitSet
    OBVIOUS
  <2>1. (k + 1) \div 2 \in 1..Len(client.lines)
    BY <1>2
  <2>2. client.lines[(k + 1) \div 2] \in Lines
    BY <1>2, <2>1, ElementOfSeq
  <2> QED BY <2>2 DEF UnitSet
<1>4. Stream = [k \in 1..m |-> unit(k)]
  BY DEF Stream, Units
<1>5. m \in Nat
  BY <1>2
<1> HIDE DEF m, unit
<1>6. Stream \in [1..m -> UnitSet]
  BY <1>3, <1>4
<1>7. Stream \in Seq(UnitSet) /\ Len(Stream) = m
  BY <1>5, <1>6, SeqDef
<1> QED BY <1>2, <1>4, <1>7 DEF m, unit

(* A unit has been written. *)
LEMMA UnitsAreSet == Unset \notin UnitSet
BY UnsetAssumption DEF UnitSet

(* What is in a buffer from which p lines were consumed: the first line     *)
(* ends with its second unit, if that has arrived.                          *)
LEMMA FirstLine ==
    ASSUME client \in Streams, NEW b \in Buffers(UnitSet), WellFormed(b),
           NEW units \in 0..Len(Stream), NEW p \in 0..units \div 2, Consumed(b, p, units)
    PROVE  /\ ReadableBytes(b) = units - 2 * p
           /\ p = units \div 2 => FindCRLF(b) = 0
           /\ p < units \div 2 => /\ FindCRLF(b) = 2
                                  /\ p + 1 \in 1..Len(client.lines)
                                  /\ Readable(b)[2].line = client.lines[p + 1]
<1> DEFINE n == units - 2 * p
<1>1. /\ units \in Nat /\ p \in Nat /\ 2 * p <= units /\ units <= Len(Stream)
      /\ Len(Stream) = 2 * Len(client.lines) /\ Len(client.lines) \in Nat /\ n \in Nat
  BY StreamIs
<1>2. \A i \in 2 * p + 1..units : Stream[i] \in UnitSet
  BY <1>1, StreamIs, ElementOfSeq
<1>3. /\ Len(Readable(b)) = n
      /\ \A i \in 1..n : Readable(b)[i] = Stream[2 * p + i]
  <2>0. Readable(b) = SubSeq(Stream, 2 * p + 1, units)
    BY DEF Consumed
  <2>1. 2 * p + 1 \in Int /\ units \in Int
    BY <1>1
  <2>2. /\ Len(Readable(b)) = IF 2 * p + 1 <= units THEN units - (2 * p + 1) + 1 ELSE 0
        /\ \A i \in 1..units - (2 * p + 1) + 1 : Readable(b)[i] = Stream[2 * p + 1 + i - 1]
    <3> DEFINE lo == 2 * p + 1
    <3>1. lo \in Int /\ \A i \in lo..units : Stream[i] \in UnitSet
      BY <1>2, <2>1
    <3> HIDE DEF lo
    <3>2. /\ Len(SubSeq(Stream, lo, units)) = IF lo <= units THEN units - lo + 1 ELSE 0
          /\ \A i \in 1..units - lo + 1 : SubSeq(Stream, lo, units)[i] = Stream[lo + i - 1]
      BY <2>1, <3>1, SubSeqProperties
    <3> QED BY <2>0, <3>2 DEF lo
  <2>3. \A i \in 1..n : 2 * p + 1 + i - 1 = 2 * p + i /\ i \in 1..units - (2 * p + 1) + 1
    BY <1>1
  <2>4. (IF 2 * p + 1 <= units THEN units - (2 * p + 1) + 1 ELSE 0) = n
    BY <1>1
  <2> QED BY <2>2, <2>3, <2>4
<1>4. ReadableBytes(b) = n
  BY <1>3, ReadableCells
<1>5. \A i \in 1..n : /\ Readable(b)[i].line = client.lines[(2 * p + i + 1) \div 2]
                      /\ Readable(b)[i].crlf <=> i % 2 = 0
  <2> SUFFICES ASSUME NEW i \in 1..n
               PROVE  /\ Readable(b)[i].line = client.lines[(2 * p + i + 1) \div 2]
                      /\ Readable(b)[i].crlf <=> i % 2 = 0
    OBVIOUS
  <2>1. 2 * p + i \in 1..Len(Stream) /\ (2 * p + i) % 2 = i % 2
    BY <1>1
  <2>2. Stream[2 * p + i] = [line |-> client.lines[(2 * p + i + 1) \div 2],
                             crlf |-> (2 * p + i) % 2 = 0]
    <3>1. 2 * p + i \in 1..Len(Stream)
      BY <2>1
    <3>2. \A k \in 1..Len(Stream) :
             Stream[k] = [line |-> client.lines[(k + 1) \div 2], crlf |-> k % 2 = 0]
      BY StreamIs, Zenon
    <3> DEFINE k == 2 * p + i
    <3> HIDE DEF k
    <3>3. k \in 1..Len(Stream) =>
             Stream[k] = [line |-> client.lines[(k + 1) \div 2], crlf |-> k % 2 = 0]
      BY <3>2, Zenon
    <3> QED BY <3>1, <3>3, Zenon DEF k
  <2>3. Readable(b)[i] = Stream[2 * p + i]
    BY <1>3
  <2>4. Stream[2 * p + i].line = client.lines[(2 * p + i + 1) \div 2]
    BY <2>2
  <2>5. Stream[2 * p + i].crlf <=> (2 * p + i) % 2 = 0
    <3>1. \A l, c : [line |-> l, crlf |-> c].crlf = c
      OBVIOUS
    <3> QED BY <2>2, <3>1, Zenon
  <2> QED BY <2>1, <2>3, <2>4, <2>5
<1> DEFINE ends == {i \in 1..ReadableBytes(b) : Readable(b)[i].crlf}
<1>6. ends = {i \in 1..n : i % 2 = 0}
  BY <1>4, <1>5
<1>7. FindCRLF(b) = IF ends = {} THEN 0 ELSE Min(ends)
  BY DEF FindCRLF
<1> HIDE DEF ends
<1>8. CASE p = units \div 2
  <2>1. n < 2
    BY <1>1, <1>8
  <2>2. ends = {}
    BY <1>1, <1>6, <2>1
  <2> QED BY <1>4, <1>7, <1>8, <2>2
<1>9. CASE p < units \div 2
  <2>1. n >= 2 /\ p + 1 \in 1..Len(client.lines) /\ (2 * p + 2 + 1) \div 2 = p + 1
    BY <1>1, <1>9
  <2>2. 2 \in ends /\ \A i \in ends : 2 <= i /\ i \in Nat
    BY <1>1, <1>6, <2>1
  <2>3. Min(ends) = 2
    <3>1. \A x \in ends : (\A y \in ends : x <= y) => x = 2
      BY <2>2
    <3> QED BY <2>2, <3>1 DEF Min
  <2>4. Readable(b)[2].line = client.lines[p + 1]
    BY <1>5, <2>1
  <2> QED BY <1>4, <1>7, <1>9, <2>1, <2>2, <2>3, <2>4
<1> QED BY <1>1, <1>8, <1>9

(* That line is taken off. *)
LEMMA NextLine ==
    ASSUME client \in Streams, NEW b \in Buffers(UnitSet), WellFormed(b),
           NEW units \in 0..Len(Stream), NEW p \in 0..units \div 2, Consumed(b, p, units),
           p < units \div 2
    PROVE  /\ Retrieve(b, 2) \in Buffers(UnitSet) /\ WellFormed(Retrieve(b, 2))
           /\ p + 1 \in 0..units \div 2
           /\ Consumed(Retrieve(b, 2), p + 1, units)
<1> DEFINE n == units - 2 * p
           e == Retrieve(b, 2)
<1>1. /\ units \in Nat /\ p \in Nat /\ n \in Nat /\ n >= 2 /\ units <= Len(Stream)
      /\ p + 1 \in 0..units \div 2 /\ 2 * (p + 1) <= units
  BY StreamIs
<1>2. ReadableBytes(b) = n
  BY FirstLine
<1>3. /\ e \in Buffers(UnitSet) /\ WellFormed(e)
      /\ Readable(e) = SubSeq(Readable(b), 3, n)
  <2>1. /\ e \in Buffers(UnitSet) /\ WellFormed(e)
        /\ Readable(e) = SubSeq(Readable(b), 2 + 1, n)
    BY <1>2, UnitsAreSet, RetrieveTakesFromFront
  <2>2. 2 + 1 = 3
    OBVIOUS
  <2> QED BY <2>1, <2>2
<1>4. Readable(b) = SubSeq(Stream, 2 * p + 1, units)
  BY DEF Consumed
<1>5. Readable(e) = SubSeq(Stream, 2 * (p + 1) + 1, units)
  <2>1. CASE n = 2
    <3>1. SubSeq(Readable(b), 3, n) = <<>>
      BY <2>1, SubSeqEmpty
    <3>2. units < 2 * (p + 1) + 1 /\ 2 * (p + 1) + 1 \in Int /\ units \in Int
      BY <1>1, <2>1
    <3>3. SubSeq(Stream, 2 * (p + 1) + 1, units) = <<>>
      BY <3>2, SubSeqEmpty
    <3> QED BY <1>3, <3>1, <3>3
  <2>2. CASE n # 2
    <3>1. /\ 2 * p + 1 \in 1..Len(Stream) /\ units \in 1..Len(Stream)
          /\ 3 \in 1..units - (2 * p + 1) + 1 /\ n \in 1..units - (2 * p + 1) + 1
          /\ 2 * p + 1 + 3 - 1 = 2 * (p + 1) + 1 /\ 2 * p + 1 + n - 1 = units
      BY <1>1, <2>2
    <3>2. SubSeq(SubSeq(Stream, 2 * p + 1, units), 3, n) =
             SubSeq(Stream, 2 * p + 1 + 3 - 1, 2 * p + 1 + n - 1)
      <4> DEFINE lo == 2 * p + 1
      <4>1. /\ lo \in 1..Len(Stream) /\ 3 \in 1..units - lo + 1 /\ n \in 1..units - lo + 1
            /\ Stream \in Seq(UnitSet) /\ units \in 1..Len(Stream)
        BY <3>1, StreamIs
      <4> HIDE DEF lo, n
      <4>2. SubSeq(SubSeq(Stream, lo, units), 3, n) = SubSeq(Stream, lo + 3 - 1, lo + n - 1)
        BY <4>1, SubSeqOfSubSeq
      <4> QED BY <4>2 DEF lo
    <3>3. SubSeq(Stream, 2 * p + 1 + 3 - 1, 2 * p + 1 + n - 1) =
             SubSeq(Stream, 2 * (p + 1) + 1, units)
      BY <3>1
    <3> QED BY <1>3, <1>4, <3>2, <3>3
  <2> QED BY <2>1, <2>2
<1> QED BY <1>1, <1>3, <1>5 DEF Consumed

-----------------------------------------------------------------------------
(* The reference: what the lines are answered.                              *)

Versions == {"", "kHttp10", "kHttp11"}

ReplySet == [over : BOOLEAN, inHeaders : BOOLEAN, version : Versions, path : Paths,
             connection : {"", "close", "Keep-Alive"}, out : Seq(Versions \union {"400"})]

NoReply == [over |-> FALSE, inHeaders |-> FALSE, version |-> "", path |-> "",
            connection |-> "", out |-> <<>>]

(* A good line, and a header. *)
LEMMA LineTypes ==
    ASSUME NEW l
    PROVE  /\ GoodLine(l) => /\ l.method \in {"kGet", "kInvalid"} /\ l.path \in Paths
                              /\ l.version \in {"kHttp10", "kHttp11"}
           /\ HasColon(l) => l.connection \in {"close", "Keep-Alive", "other"}
BY DEF GoodLine, RequestLines, HasColon, Headers

(* The callback decides whether the connection is closed. *)
LEMMA CloseDecided ==
    ASSUME NEW request, request.path \in Paths
    PROVE  CloseConnection(request) \in BOOLEAN
<1>1. Closes(request) \in BOOLEAN
  BY DEF Closes
<1> QED BY <1>1, CallbackAssumption DEF CloseConnection

(* One more answer. *)
LEMMA AppendAnswer ==
    ASSUME NEW a \in ReplySet, NEW v \in Versions \union {"400"}
    PROVE  Append(a.out, v) \in Seq(Versions \union {"400"})
<1> DEFINE S == Versions \union {"400"}
<1>1. a.out \in Seq(S) /\ v \in S
  BY DEF ReplySet
<1> HIDE DEF S
<1>2. Append(a.out, v) \in Seq(S)
  BY <1>1
<1> QED BY <1>2 DEF S

(* What one line does to the reply, case by case. *)
LEMMA AnswerCases ==
    ASSUME NEW a \in ReplySet, NEW l
    PROVE  LET r == Answer(a, l) IN
           /\ r \in ReplySet
           /\ a.over => r = a
           /\ ~a.over /\ ~a.inHeaders /\ GoodLine(l) =>
                 /\ ~r.over /\ r.inHeaders /\ r.version = l.version /\ r.path = l.path
                 /\ r.connection = "" /\ r.out = a.out
           /\ ~a.over /\ ~a.inHeaders /\ ~GoodLine(l) =>
                 r.over /\ ~r.inHeaders /\ r.out = Append(a.out, "400")
           /\ ~a.over /\ a.inHeaders /\ HasColon(l) =>
                 /\ ~r.over /\ r.inHeaders /\ r.version = a.version /\ r.path = a.path
                 /\ r.out = a.out
                 /\ r.connection = IF l.connection = "other" THEN a.connection ELSE l.connection
           /\ ~a.over /\ a.inHeaders /\ ~HasColon(l) =>
                 /\ ~r.inHeaders /\ r.out = Append(a.out, a.version)
                 /\ r.over <=> CloseConnection(a)
<1> DEFINE r == Answer(a, l)
<1>1. CASE a.over
  BY <1>1 DEF Answer
<1>2. CASE ~a.over /\ ~a.inHeaders /\ GoodLine(l)
  <2>1. r = [a EXCEPT !.inHeaders = TRUE, !.version = l.version,
                   !.path = l.path, !.connection = ""]
    BY <1>2 DEF Answer
  <2>2. l.version \in Versions /\ l.path \in Paths
    BY <1>2, LineTypes DEF Versions
  <2>3. /\ r \in ReplySet /\ ~r.over /\ r.inHeaders /\ r.out = a.out
        /\ r.version = l.version /\ r.path = l.path /\ r.connection = ""
    <3> HIDE DEF r
    <3> DEFINE S == Versions \union {"400"}
    <3>1. a \in [over : BOOLEAN, inHeaders : BOOLEAN, version : Versions, path : Paths,
                 connection : {"", "close", "Keep-Alive"}, out : Seq(S)]
      BY DEF ReplySet
    <3>2. r \in [over : BOOLEAN, inHeaders : BOOLEAN, version : Versions, path : Paths,
                 connection : {"", "close", "Keep-Alive"}, out : Seq(S)]
      <4> HIDE DEF S
      <4> QED BY <2>1, <2>2, <3>1
    <3> QED BY <1>2, <2>1, <3>1, <3>2 DEF ReplySet
  <2> QED BY <1>2, <2>3
<1>3. CASE ~a.over /\ ~a.inHeaders /\ ~GoodLine(l)
  <2>1. r = [a EXCEPT !.out = Append(@, "400"), !.over = TRUE]
    BY <1>3 DEF Answer
  <2>2. Append(a.out, "400") \in Seq(Versions \union {"400"})
    BY AppendAnswer
  <2> QED BY <1>3, <2>1, <2>2 DEF ReplySet
<1>4. CASE ~a.over /\ a.inHeaders /\ HasColon(l)
  <2>1. r = IF l.connection = "other" THEN a ELSE [a EXCEPT !.connection = l.connection]
    BY <1>4 DEF Answer, AddHeader
  <2> QED BY <1>4, <2>1, LineTypes DEF ReplySet
<1>5. CASE ~a.over /\ a.inHeaders /\ ~HasColon(l)
  <2>1. r = [a EXCEPT !.out = Append(@, a.version), !.inHeaders = FALSE,
                      !.over = CloseConnection(a)]
    BY <1>5 DEF Answer
  <2>2. Append(a.out, a.version) \in Seq(Versions \union {"400"})
    <3>1. a.version \in Versions \union {"400"}
      BY DEF ReplySet
    <3> QED BY <3>1, AppendAnswer
  <2>3. CloseConnection(a) \in BOOLEAN
    BY CloseDecided DEF ReplySet
  <2>4. r \in ReplySet
    BY <2>1, <2>2, <2>3 DEF ReplySet
  <2>5. ~r.inHeaders /\ r.out = Append(a.out, a.version) /\ r.over = CloseConnection(a)
    BY <2>1 DEF ReplySet
  <2> QED BY <1>5, <2>4, <2>5
<1> QED BY <1>1, <1>2, <1>3, <1>4, <1>5

(* Replies is what its definition says. *)
LEMMA RepliesAre ==
    ASSUME client \in Streams
    PROVE  /\ Replies[0] = NoReply
           /\ \A i \in 0..Len(client.lines) : Replies[i] \in ReplySet
           /\ \A i \in 1..Len(client.lines) : Replies[i] = Answer(Replies[i - 1], client.lines[i])
<1> DEFINE n == Len(client.lines)
           T == [i \in 0..n |-> ReplySet]
           g == [i \in 1..n |-> [a \in ReplySet |-> Answer(a, client.lines[i])]]
           Is(f) == f = [i \in 0..n |-> IF i = 0 THEN NoReply
                                         ELSE Answer(f[i - 1], client.lines[i])]
<1>1. n \in Nat /\ NoReply \in ReplySet
  <2> DEFINE S == Versions \union {"400"}
  <2>1. "" \in Versions /\ <<>> \in Seq(S)
    BY DEF Versions
  <2> HIDE DEF S
  <2>2. NoReply \in [over : BOOLEAN, inHeaders : BOOLEAN, version : Versions, path : Paths,
                     connection : {"", "close", "Keep-Alive"}, out : Seq(S)]
    BY <2>1, PathsAssumption DEF NoReply
  <2> QED BY <2>2, StreamIs DEF ReplySet, S
<1>2. PICK f \in [0..n -> ReplySet] : Recurs(f, NoReply, g, T, n)
  <2>1. T \in [0..n -> SUBSET ReplySet] /\ NoReply \in T[0]
    BY <1>1
  <2>2. Keeps(g, T, n)
    <3> SUFFICES ASSUME NEW i \in 1..n, NEW a \in T[i - 1] PROVE g[i][a] \in T[i]
      BY DEF Keeps
    <3>1. i - 1 \in 0..n /\ i \in 0..n
      BY <1>1
    <3>2. a \in ReplySet /\ T[i] = ReplySet
      BY <3>1
    <3> QED BY <3>2, AnswerCases
  <2> HIDE DEF T, g, n
  <2> QED BY <1>1, <2>1, <2>2, Recursion
<1>3. \A i \in 1..n : f[i - 1] \in ReplySet /\ f[i] = Answer(f[i - 1], client.lines[i])
  <2> SUFFICES ASSUME NEW i \in 1..n
               PROVE  f[i - 1] \in ReplySet /\ f[i] = Answer(f[i - 1], client.lines[i])
    OBVIOUS
  <2>1. i - 1 \in 0..n
    BY <1>1
  <2>2. f[i - 1] \in ReplySet /\ f[i] = g[i][f[i - 1]]
    BY <1>2, <2>1 DEF Recurs
  <2> QED BY <2>2
<1>0. f[0] = NoReply
  BY <1>2 DEF Recurs
<1> HIDE DEF T, g
<1>4. Is(f)
  BY <1>1, <1>0, <1>3
<1>5. Replies = CHOOSE h : Is(h)
  BY DEF Replies, NoReply
<1>6. Is(Replies)
  BY <1>4, <1>5, Zenon
<1>7. Replies[0] = NoReply /\ \A i \in 1..n : Replies[i] = Answer(Replies[i - 1], client.lines[i])
  <2>1. Replies = [i \in 0..n |-> IF i = 0 THEN NoReply
                                         ELSE Answer(Replies[i - 1], client.lines[i])]
    BY <1>6
  <2>2. \A i \in 0..n : Replies[i] = IF i = 0 THEN NoReply
                                         ELSE Answer(Replies[i - 1], client.lines[i])
    BY <2>1, Zenon
  <2>3. 0 \in 0..n /\ \A i \in 1..n : i \in 0..n /\ i # 0
    BY <1>1
  <2> HIDE DEF n
  <2> QED BY <2>2, <2>3
<1> HIDE DEF Is
<1> DEFINE N == {i \in Nat : i <= n => Replies[i] \in ReplySet}
<1>8. \A i \in Nat : i \in N => i + 1 \in N
  <2> SUFFICES ASSUME NEW i \in Nat, i \in N, i + 1 <= n PROVE Replies[i + 1] \in ReplySet
    OBVIOUS
  <2>1. Replies[i] \in ReplySet /\ i + 1 \in 1..n /\ i + 1 - 1 = i
    BY <1>1
  <2>2. Replies[i + 1] = Answer(Replies[i], client.lines[i + 1])
    BY <1>7, <2>1
  <2>3. Answer(Replies[i], client.lines[i + 1]) \in ReplySet
    BY <2>1, AnswerCases
  <2> QED BY <2>2, <2>3
<1>9. \A i \in Nat : i \in N
  <2>1. 0 \in N
    BY <1>1, <1>7
  <2> HIDE DEF N
  <2> QED BY <1>8, <2>1, Induction
<1> QED BY <1>1, <1>7, <1>9

(* A reply's answers are a sequence. *)
LEMMA ReplyOut ==
    ASSUME NEW a \in ReplySet
    PROVE  /\ a.out \in Seq(Versions \union {"400"}) /\ Len(a.out) \in Nat
           /\ a.version \in Versions \union {"400"}
<1> DEFINE S == Versions \union {"400"}
<1>1. a.out \in Seq(S) /\ a.version \in S
  BY DEF ReplySet
<1> HIDE DEF S
<1>2. Len(a.out) \in Nat
  BY <1>1
<1> QED BY <1>1, <1>2 DEF S

(* A later reply begins with the answers of an earlier one, is the same     *)
(* once that is over, and has more answers when it is over and that is not. *)
LaterReply(a, b) ==
    /\ Len(a.out) <= Len(b.out) /\ \A k \in 1..Len(a.out) : b.out[k] = a.out[k]
    /\ a.over => b = a
    /\ ~a.over /\ b.over => Len(a.out) < Len(b.out)

(* One line more. *)
LEMMA LaterAnswer ==
    ASSUME NEW a \in ReplySet, NEW b \in ReplySet, LaterReply(a, b), NEW l
    PROVE  LaterReply(a, Answer(b, l))
<1> DEFINE r == Answer(b, l)
           S == Versions \union {"400"}
<1>1. r \in ReplySet
  BY AnswerCases
<1>2. a.out \in Seq(S) /\ b.out \in Seq(S) /\ r.out \in Seq(S) /\ b.version \in S /\ "400" \in S
  BY <1>1 DEF ReplySet
<1>3. CASE b.over
  <2>1. r = b
    BY <1>3, AnswerCases
  <2> QED BY <2>1
<1>4. CASE ~b.over
  <2>1. ~a.over
    BY <1>4 DEF LaterReply
  <2>2. \/ r.out = b.out /\ ~r.over
        \/ \E v \in S : r.out = Append(b.out, v)
    <3>1. CASE ~b.inHeaders /\ GoodLine(l)
      BY <1>4, <3>1, AnswerCases
    <3>2. CASE ~b.inHeaders /\ ~GoodLine(l)
      BY <1>2, <1>4, <3>2, AnswerCases
    <3>3. CASE b.inHeaders /\ HasColon(l)
      BY <1>4, <3>3, AnswerCases
    <3>4. CASE b.inHeaders /\ ~HasColon(l)
      BY <1>2, <1>4, <3>4, AnswerCases
    <3> QED BY <3>1, <3>2, <3>3, <3>4
  <2> HIDE DEF r, S
  <2>3. CASE r.out = b.out /\ ~r.over
    BY <2>1, <2>3 DEF LaterReply, r
  <2>4. ASSUME NEW v \in S, r.out = Append(b.out, v) PROVE LaterReply(a, r)
    <3>1. Len(r.out) = Len(b.out) + 1 /\ \A k \in 1..Len(b.out) : r.out[k] = b.out[k]
      BY <1>2, <2>4
    <3>2. Len(a.out) \in Nat /\ Len(b.out) \in Nat
      BY <1>2
    <3> QED BY <2>1, <3>1, <3>2 DEF LaterReply
  <2> QED BY <2>2, <2>3, <2>4 DEF r
<1> QED BY <1>3, <1>4

(* The replies to more and more lines. *)
LEMMA RepliesGrow ==
    ASSUME client \in Streams, NEW i \in 0..Len(client.lines), NEW j \in i..Len(client.lines)
    PROVE  LaterReply(Replies[i], Replies[j])
<1> DEFINE n == Len(client.lines)
           N == {k \in Nat : i + k <= n => LaterReply(Replies[i], Replies[i + k])}
<1>1. n \in Nat /\ i \in Nat /\ i + 0 = i
  BY StreamIs
<1>2. Replies[i] \in ReplySet
  BY RepliesAre
<1>3. 0 \in N
  <2>1. Len(Replies[i].out) \in Nat
    BY <1>2, ReplyOut
  <2>2. LaterReply(Replies[i], Replies[i])
    BY <2>1 DEF LaterReply
  <2> QED BY <1>1, <2>2
<1>4. ASSUME NEW k \in Nat, k \in N, i + (k + 1) <= n
      PROVE  LaterReply(Replies[i], Replies[i + (k + 1)])
  <2>1. i + k \in 0..n /\ i + (k + 1) \in 1..n /\ i + (k + 1) - 1 = i + k /\ i + k <= n
    BY <1>1, <1>4
  <2>2. LaterReply(Replies[i], Replies[i + k])
    BY <1>4, <2>1
  <2> DEFINE m == i + (k + 1)
             line == client.lines[m]
  <2>3. Replies[i + k] \in ReplySet /\ Replies[m] = Answer(Replies[m - 1], line) /\ m - 1 = i + k
    BY <2>1, RepliesAre
  <2>4. LaterReply(Replies[i], Answer(Replies[i + k], line))
    BY <1>2, <2>2, <2>3, LaterAnswer
  <2> QED BY <2>3, <2>4
<1>5. \A k \in Nat : k \in N => k + 1 \in N
  BY <1>4
<1> HIDE DEF N
<1>6. \A k \in Nat : k \in N
  BY <1>3, <1>5, Induction
<1>7. j - i \in Nat /\ i + (j - i) = j /\ j <= n
  BY <1>1
<1> QED BY <1>6, <1>7 DEF N

(* The ends of requests among the first lines. *)
EndsTo(i) == {j \in Ends : j <= i}

(* The ends are some of the lines, and their sets are finite. *)
LEMMA EndsFinite ==
    ASSUME client \in Streams, NEW i \in Nat
    PROVE  /\ Ends \subseteq 1..Len(client.lines)
           /\ IsFiniteSet(EndsTo(i)) /\ Cardinality(EndsTo(i)) \in Nat
           /\ \A S \in SUBSET EndsTo(i) : S # EndsTo(i) => Cardinality(S) < Cardinality(EndsTo(i))
<1>1. Ends \subseteq 1..Len(client.lines)
  <2>1. DOMAIN client.lines = 1..Len(client.lines)
    BY StreamIs
  <2> QED BY <2>1 DEF Ends
<1>2. IsFiniteSet(1..Len(client.lines))
  BY StreamIs, FS_Interval
<1>3. IsFiniteSet(EndsTo(i))
  BY <1>1, <1>2, FS_Subset DEF EndsTo
<1>4. \A S \in SUBSET EndsTo(i) : S # EndsTo(i) => Cardinality(S) < Cardinality(EndsTo(i))
  <2> SUFFICES ASSUME NEW S \in SUBSET EndsTo(i), S # EndsTo(i)
               PROVE  Cardinality(S) < Cardinality(EndsTo(i))
    OBVIOUS
  <2>1. /\ Cardinality(S) <= Cardinality(EndsTo(i))
        /\ Cardinality(S) = Cardinality(EndsTo(i)) => S = EndsTo(i)
    BY <1>3, FS_Subset
  <2>2. Cardinality(S) \in Nat /\ Cardinality(EndsTo(i)) \in Nat
    BY <1>3, FS_Subset, FS_CardinalityType
  <2> QED BY <2>1, <2>2
<1> QED BY <1>1, <1>3, <1>4, FS_CardinalityType

(* A line is a request line, a header or an end. *)
LEMMA LineKinds ==
    ASSUME NEW l \in Lines
    PROVE  /\ GoodLine(l) => l \in RequestLines
           /\ HasColon(l) <=> l \in Headers
           /\ l \in RequestLines \/ l \in Headers \/ l = End
           /\ End \notin RequestLines /\ End \notin Headers
BY DEF Lines, GoodLine, HasColon, RequestLines, Headers, End

(* A client that waits sends requests, so a line is in the headers unless   *)
(* it is the first after an end, and there is an answer for each end.       *)
LEMMA WaitingReplies ==
    ASSUME client \in Streams, client.waits, NEW i \in 0..Len(client.lines), ~Replies[i].over
    PROVE  /\ Replies[i].inHeaders <=> i # 0 /\ client.lines[i] # End
           /\ Len(Replies[i].out) = Cardinality(EndsTo(i))
<1> DEFINE n == Len(client.lines)
           Right(k) == /\ Replies[k].inHeaders <=> k # 0 /\ client.lines[k] # End
                       /\ Len(Replies[k].out) = Cardinality(EndsTo(k))
           N == {k \in Nat : k <= n => (~Replies[k].over => Right(k))}
<1>1. n \in Nat /\ DOMAIN client.lines = 1..n /\ client.lines \in Seq(Lines)
  BY StreamIs
<1>2. 0 \in N
  <2>1. EndsTo(0) = {}
    <3>1. Ends \subseteq 1..n
      BY <1>1 DEF Ends
    <3>2. ASSUME NEW j \in Ends PROVE ~(j <= 0)
      <4>1. j \in 1..n
        BY <3>1
      <4> QED BY <1>1, <4>1
    <3> QED BY <3>2 DEF EndsTo
  <2>2. Cardinality(EndsTo(0)) = 0
    BY <2>1, FS_EmptySet
  <2>3. Replies[0] = NoReply
    BY RepliesAre
  <2>4. ~NoReply.inHeaders /\ Len(NoReply.out) = 0
    BY DEF NoReply
  <2> QED BY <1>1, <2>2, <2>3, <2>4
<1>3. ASSUME NEW k \in Nat, k \in N, k + 1 <= n, ~Replies[k + 1].over PROVE Right(k + 1)
  <2> DEFINE a == Replies[k]
             r == Replies[k + 1]
             l == client.lines[k + 1]
             S == Versions \union {"400"}
  <2>1. k + 1 \in 1..n /\ k \in 0..n /\ k + 1 - 1 = k /\ k + 1 # 0
    BY <1>1, <1>3
  <2>2. a \in ReplySet /\ r = Answer(a, l)
    BY <2>1, RepliesAre
  <2>3. l \in Lines
    BY <1>1, <2>1, ElementOfSeq
  <2>4. ~a.over
    BY <1>3, <2>2, AnswerCases
  <2>5. Right(k)
    BY <1>3, <2>1, <2>4
  <2>6. l \in RequestLines <=> k = 0 \/ client.lines[k] = End
    <3>1. l \in RequestLines <=> k + 1 = 1 \/ client.lines[k + 1 - 1] = End
      BY <1>1, <2>1, RequestsAssumption
    <3> QED BY <2>1, <3>1
  <2>7. a.inHeaders <=> l \notin RequestLines
    BY <2>5, <2>6
  <2>8. a.out \in Seq(S) /\ Len(a.out) \in Nat
    BY <2>2, ReplyOut
  <2>9. l # End => EndsTo(k + 1) = EndsTo(k)
    <3>1. ASSUME NEW j \in Ends, j <= k + 1, l # End PROVE j <= k
      <4>1. j \in Nat
        BY <3>1, EndsFinite
      <4>2. client.lines[j] = End
        BY <3>1 DEF Ends
      <4> QED BY <3>1, <4>1, <4>2
    <3>2. ASSUME NEW j \in Ends, j <= k PROVE j <= k + 1
      <4>1. j \in Nat
        BY EndsFinite
      <4> QED BY <3>2, <4>1
    <3> QED BY <3>1, <3>2 DEF EndsTo
  <2> HIDE DEF a, r, l, S
  <2>10. CASE ~a.inHeaders
    <3>1. l # End
      BY <2>3, <2>7, <2>10, LineKinds
    <3>2. GoodLine(l)
      BY <1>3, <2>2, <2>4, <2>10, AnswerCases DEF r
    <3>3. r.inHeaders /\ r.out = a.out
      BY <2>2, <2>4, <2>10, <3>2, AnswerCases
    <3> QED BY <2>1, <2>5, <2>9, <3>1, <3>3 DEF a, r, l
  <2>11. CASE a.inHeaders /\ HasColon(l)
    <3>1. l # End
      BY <2>3, <2>11, LineKinds
    <3>2. r.inHeaders /\ r.out = a.out
      BY <2>2, <2>4, <2>11, AnswerCases
    <3> QED BY <2>1, <2>5, <2>9, <3>1, <3>2 DEF a, r, l
  <2>12. CASE a.inHeaders /\ ~HasColon(l)
    <3>1. l = End
      BY <2>3, <2>7, <2>12, LineKinds
    <3>2. ~r.inHeaders /\ r.out = Append(a.out, a.version)
      BY <2>2, <2>4, <2>12, AnswerCases
    <3>3. Len(r.out) = Len(a.out) + 1
      <4>1. a.version \in S
        BY <2>2, ReplyOut DEF S
      <4> QED BY <2>8, <3>2, <4>1
    <3>4. EndsTo(k + 1) = EndsTo(k) \union {k + 1} /\ k + 1 \notin EndsTo(k)
      <4>1. k + 1 \in Ends
        BY <1>1, <2>1, <3>1 DEF Ends, l
      <4>2. ASSUME NEW j \in Ends PROVE j <= k + 1 <=> j <= k \/ j = k + 1
        <5>1. j \in Nat
          BY EndsFinite
        <5> QED BY <5>1
      <4> QED BY <4>1, <4>2 DEF EndsTo
    <3>5. Cardinality(EndsTo(k + 1)) = Cardinality(EndsTo(k)) + 1
      BY <3>4, EndsFinite, FS_AddElement
    <3> QED BY <2>1, <2>5, <3>1, <3>2, <3>3, <3>5 DEF a, r, l
  <2> QED BY <2>10, <2>11, <2>12
<1>4. \A k \in Nat : k \in N => k + 1 \in N
  BY <1>3
<1>5. \A k \in Nat : k \in N
  <2> HIDE DEF N
  <2> QED BY <1>2, <1>4, Induction
<1> QED BY <1>1, <1>5

-----------------------------------------------------------------------------
(* The parser.                                                              *)

ParseContexts == [state : {"kExpectRequestLine", "kExpectHeaders", "kGotAll"},
                  request : Requests]

ParseStates == [ctx : ParseContexts, buf : Buffers(UnitSet), ok : BOOLEAN, hasMore : BOOLEAN]

(* The request stays one. *)
LEMMA RequestTypes ==
    ASSUME NEW request \in Requests, NEW l
    PROVE  /\ LET q == ProcessRequestLine(request, l) IN
              /\ q \in Requests /\ q.connection = request.connection
              /\ GoodLine(l) => q.version = l.version /\ q.path = l.path
           /\ HasColon(l) =>
                LET q == AddHeader(request, l) IN
                /\ q \in Requests /\ q.version = request.version /\ q.path = request.path
                /\ q.connection = IF l.connection = "other" THEN request.connection
                                                            ELSE l.connection
<1>1. l \in RequestLines => l.method \in {"kGet", "kInvalid"} /\ l.path \in Paths
  BY DEF RequestLines
<1>2. LET q == ProcessRequestLine(request, l) IN
      /\ q \in Requests /\ q.connection = request.connection
      /\ GoodLine(l) => q.version = l.version /\ q.path = l.path
  BY <1>1, LineTypes DEF ProcessRequestLine, Requests
<1>3. ASSUME HasColon(l)
      PROVE  LET q == AddHeader(request, l) IN
             /\ q \in Requests /\ q.version = request.version /\ q.path = request.path
             /\ q.connection = IF l.connection = "other" THEN request.connection
                                                         ELSE l.connection
  BY <1>3, LineTypes DEF AddHeader, Requests
<1> QED BY <1>2, <1>3

(* One turn of the loop of parseRequest, case by case. *)
LEMMA ParseCases ==
    ASSUME client \in Streams, NEW s \in ParseStates, WellFormed(s.buf),
           s.ctx.state # "kGotAll",
           NEW units \in 0..Len(Stream), NEW p \in 0..units \div 2, Consumed(s.buf, p, units)
    PROVE  LET r == ParseLine(s)
               l == client.lines[p + 1]
               more == p < units \div 2
               first == s.ctx.state = "kExpectRequestLine"
           IN
           /\ r \in ParseStates
           /\ ~more => r.ctx = s.ctx /\ r.buf = s.buf /\ r.ok = s.ok /\ ~r.hasMore
           /\ more /\ first /\ GoodLine(l) =>
                 /\ r.buf = Retrieve(s.buf, 2) /\ r.ok = s.ok /\ r.hasMore = s.hasMore
                 /\ r.ctx.state = "kExpectHeaders" /\ r.ctx.request.version = l.version
                 /\ r.ctx.request.path = l.path
                 /\ r.ctx.request.connection = s.ctx.request.connection
           /\ more /\ first /\ ~GoodLine(l) =>
                 /\ r.buf = s.buf /\ ~r.ok /\ ~r.hasMore
                 /\ r.ctx.state = "kExpectRequestLine"
           /\ more /\ ~first /\ HasColon(l) =>
                 /\ r.buf = Retrieve(s.buf, 2) /\ r.ok = s.ok /\ r.hasMore = s.hasMore
                 /\ r.ctx.state = "kExpectHeaders"
                 /\ r.ctx.request.version = s.ctx.request.version
                 /\ r.ctx.request.path = s.ctx.request.path
                 /\ r.ctx.request.connection =
                       IF l.connection = "other" THEN s.ctx.request.connection ELSE l.connection
           /\ more /\ ~first /\ ~HasColon(l) =>
                 /\ r.buf = Retrieve(s.buf, 2) /\ r.ok = s.ok /\ ~r.hasMore
                 /\ r.ctx.state = "kGotAll" /\ r.ctx.request = s.ctx.request
<1> DEFINE r == ParseLine(s)
           l == client.lines[p + 1]
           first == s.ctx.state = "kExpectRequestLine"
           n == FindCRLF(s.buf)
           c == [s EXCEPT !.buf = Retrieve(@, 2)]
           request == ProcessRequestLine(s.ctx.request, l)
<1>1. /\ s.ctx \in ParseContexts /\ s.buf \in Buffers(UnitSet)
      /\ s.ok \in BOOLEAN /\ s.hasMore \in BOOLEAN
  BY DEF ParseStates
<1>2. s.ctx.request \in Requests /\ s.ctx.state \in {"kExpectRequestLine", "kExpectHeaders"}
  BY <1>1 DEF ParseContexts
<1>3. units \in Nat /\ p \in Nat /\ p <= units \div 2
  BY StreamIs
<1>4. CASE p = units \div 2
  <2>1. n = 0
    BY <1>1, <1>4, FirstLine
  <2>2. r = [s EXCEPT !.hasMore = FALSE]
    BY <2>1 DEF ParseLine
  <2>3. /\ r.ctx = s.ctx /\ r.buf = s.buf /\ r.ok = s.ok /\ ~r.hasMore
        /\ r \in ParseStates
    BY <2>2 DEF ParseStates
  <2> QED BY <1>3, <1>4, <2>3
<1>5. CASE p < units \div 2
  <2>1. n = 2 /\ Readable(s.buf)[2].line = l
    BY <1>1, <1>5, FirstLine
  <2>2. Retrieve(s.buf, 2) \in Buffers(UnitSet)
    BY <1>1, <1>5, NextLine
  <2>3. /\ c \in ParseStates /\ c.ctx = s.ctx /\ c.ok = s.ok /\ c.hasMore = s.hasMore
        /\ c.buf = Retrieve(s.buf, 2)
    BY <2>2 DEF ParseStates
  <2>4. /\ request \in Requests /\ request.connection = s.ctx.request.connection
        /\ GoodLine(l) => request.version = l.version /\ request.path = l.path
    BY <1>2, RequestTypes
  <2>5. r = IF first
              THEN IF GoodLine(l)
                     THEN [c EXCEPT !.ctx = [state |-> "kExpectHeaders", request |-> request]]
                     ELSE [s EXCEPT !.ctx.request = request, !.ok = FALSE, !.hasMore = FALSE]
              ELSE IF HasColon(l)
                     THEN [c EXCEPT !.ctx.request = AddHeader(@, l)]
                     ELSE [c EXCEPT !.ctx.state = "kGotAll", !.hasMore = FALSE]
    <3>1. n # 0
      BY <2>1
    <3>2. CASE first
      BY <2>1, <3>1, <3>2 DEF ParseLine
    <3>3. CASE ~first
      <4>1. s.ctx.state = "kExpectHeaders"
        BY <1>2, <3>3
      <4> QED BY <2>1, <3>1, <3>3, <4>1 DEF ParseLine
    <3> QED BY <3>2, <3>3
  <2> HIDE DEF r, c, request, n, l
  <2>6. CASE first /\ GoodLine(l)
    <3> DEFINE x == [state |-> "kExpectHeaders", request |-> request]
    <3>1. r = [c EXCEPT !.ctx = x]
      BY <2>5, <2>6
    <3>2. x \in ParseContexts
      BY <2>4 DEF ParseContexts
    <3>3. r.ctx = x /\ r.ok = c.ok /\ r.hasMore = c.hasMore /\ r.buf = c.buf /\ r \in ParseStates
      <4> HIDE DEF x
      <4> QED BY <2>3, <3>1, <3>2 DEF ParseStates
    <3> QED BY <1>5, <2>3, <2>4, <2>6, <3>3 DEF r, l
  <2>7. CASE first /\ ~GoodLine(l)
    <3>1. r = [s EXCEPT !.ctx.request = request, !.ok = FALSE, !.hasMore = FALSE]
      BY <2>5, <2>7
    <3>2. /\ r.buf = s.buf /\ ~r.ok /\ ~r.hasMore
          /\ r.ctx = [s.ctx EXCEPT !.request = request]
          /\ r = [ctx |-> r.ctx, buf |-> r.buf, ok |-> r.ok, hasMore |-> r.hasMore]
          /\ r.ok \in BOOLEAN /\ r.hasMore \in BOOLEAN
      BY <1>1, <3>1 DEF ParseStates, ParseContexts
    <3>3. r.ctx \in ParseContexts /\ r.ctx.state = "kExpectRequestLine"
      BY <1>1, <2>4, <2>7, <3>2 DEF ParseContexts
    <3>4. r \in ParseStates
      BY <1>1, <3>2, <3>3 DEF ParseStates
    <3> QED BY <1>5, <2>7, <3>2, <3>3, <3>4 DEF r, l
  <2>8. CASE ~first /\ HasColon(l)
    <3> DEFINE q == AddHeader(s.ctx.request, l)
    <3>1. r = [c EXCEPT !.ctx.request = AddHeader(@, l)]
      BY <2>5, <2>8
    <3>2. /\ q \in Requests /\ q.version = s.ctx.request.version
          /\ q.path = s.ctx.request.path
          /\ q.connection = IF l.connection = "other" THEN s.ctx.request.connection
                                                      ELSE l.connection
      BY <1>2, <2>8, RequestTypes
    <3>3. /\ r.ok = c.ok /\ r.hasMore = c.hasMore /\ r.buf = c.buf
          /\ r.ctx = [s.ctx EXCEPT !.request = q]
          /\ r = [ctx |-> r.ctx, buf |-> c.buf, ok |-> c.ok, hasMore |-> c.hasMore]
      BY <1>1, <2>3, <3>1 DEF ParseStates, ParseContexts
    <3> HIDE DEF q
    <3>4. r.ctx \in ParseContexts /\ r.ctx.state = "kExpectHeaders" /\ r.ctx.request = q
      BY <1>1, <1>2, <2>8, <3>2, <3>3 DEF ParseContexts
    <3>5. r \in ParseStates
      BY <2>3, <3>3, <3>4 DEF ParseStates
    <3> QED BY <1>5, <2>3, <2>8, <3>2, <3>3, <3>4, <3>5 DEF r, l
  <2>9. CASE ~first /\ ~HasColon(l)
    <3>1. r = [c EXCEPT !.ctx.state = "kGotAll", !.hasMore = FALSE]
      BY <2>5, <2>9
    <3>2. /\ r.ok = c.ok /\ ~r.hasMore /\ r.buf = c.buf
          /\ r.ctx = [s.ctx EXCEPT !.state = "kGotAll"]
          /\ r = [ctx |-> r.ctx, buf |-> r.buf, ok |-> r.ok, hasMore |-> r.hasMore]
          /\ r.hasMore \in BOOLEAN
      BY <1>1, <2>3, <3>1 DEF ParseStates, ParseContexts
    <3>3. r.ctx \in ParseContexts /\ r.ctx.state = "kGotAll" /\ r.ctx.request = s.ctx.request
      BY <1>1, <3>2 DEF ParseContexts
    <3>4. r \in ParseStates
      BY <2>3, <3>2, <3>3 DEF ParseStates
    <3> QED BY <1>5, <2>3, <2>9, <3>2, <3>3, <3>4 DEF r, l
  <2> QED BY <2>6, <2>7, <2>8, <2>9
<1> QED BY <1>3, <1>4, <1>5

(* What the parser has found in the lines from p0 to p, when it began with  *)
(* a context that agreed: it has seen a bad line, or is between the lines   *)
(* of a request, or has a whole one.                                        *)
Follows(s, p, p0, units) ==
    /\ ~s.ok => /\ p < units \div 2 /\ ~GoodLine(client.lines[p + 1])
                /\ ~Replies[p].over /\ ~Replies[p].inHeaders
                /\ Replies[p].out = Replies[p0].out
    /\ s.ok /\ s.ctx.state # "kGotAll" => /\ Agrees(s.ctx, Replies[p])
                                          /\ Replies[p].out = Replies[p0].out
    /\ s.ctx.state = "kGotAll" =>
          /\ ~Replies[p].inHeaders
          /\ Replies[p].out = Append(Replies[p0].out, s.ctx.request.version)
          /\ Replies[p].over <=> CloseConnection(s.ctx.request)

(* Its loop consumes a line in each turn but the last. *)
ParseInv(s, p, i, ctx, p0, units) ==
    /\ p \in p0..units \div 2
    /\ WellFormed(s.buf) /\ Consumed(s.buf, p, units)
    /\ s.hasMore => p >= p0 + i /\ s.ok /\ s.ctx.state # "kGotAll"
    /\ s.ok /\ ~s.hasMore /\ s.ctx.state # "kGotAll" => p = units \div 2
    /\ ~s.ok => s.ctx.state # "kGotAll"
    /\ Agrees(ctx, Replies[p0]) => Follows(s, p, p0, units)

(* One turn. *)
LEMMA ParseTurn ==
    ASSUME client \in Streams, NEW units \in 0..Len(Stream), NEW p0 \in 0..units \div 2,
           NEW ctx, NEW i \in Nat, NEW s \in ParseStates, NEW p, s.hasMore,
           ParseInv(s, p, i, ctx, p0, units)
    PROVE  /\ ParseLine(s) \in ParseStates
           /\ \E q : ParseInv(ParseLine(s), q, i + 1, ctx, p0, units)
<1> DEFINE r == ParseLine(s)
           l == client.lines[p + 1]
           a == Replies[p]
           b == Replies[p + 1]
           first == s.ctx.state = "kExpectRequestLine"
           agreed == Agrees(ctx, Replies[p0])
<1>1. /\ units \in Nat /\ p0 \in Nat /\ p \in 0..units \div 2 /\ p \in Nat /\ p >= p0
      /\ units \div 2 \in Nat
  BY StreamIs DEF ParseInv
<1>2. /\ WellFormed(s.buf) /\ Consumed(s.buf, p, units) /\ p >= p0 + i
      /\ s.ok /\ s.ctx.state # "kGotAll"
      /\ agreed => Agrees(s.ctx, a) /\ a.out = Replies[p0].out
  BY DEF ParseInv, Follows
<1>3. s.buf \in Buffers(UnitSet) /\ s.ctx \in ParseContexts
  BY DEF ParseStates
<1>4. r \in ParseStates
  BY <1>1, <1>2, ParseCases
<1>5. CASE p = units \div 2
  <2>0. ~(p < units \div 2)
    BY <1>1, <1>5
  <2>1. r.ctx = s.ctx /\ r.buf = s.buf /\ r.ok = s.ok /\ ~r.hasMore
    BY <1>1, <1>2, <2>0, ParseCases
  <2>2. ParseInv(r, p, i + 1, ctx, p0, units)
    <3> HIDE DEF r
    <3> QED BY <1>1, <1>2, <1>5, <2>1 DEF ParseInv, Follows
  <2> QED BY <1>4, <2>2
<1>6. CASE p < units \div 2
  <2>1. /\ p + 1 \in p0..units \div 2 /\ p + 1 >= p0 + (i + 1)
        /\ p + 1 \in 1..Len(client.lines) /\ p \in 0..Len(client.lines)
    BY <1>1, <1>2, <1>6, StreamIs
  <2>2. a \in ReplySet /\ b = Answer(a, l)
    <3>1. p + 1 - 1 = p
      BY <1>1
    <3> QED BY <2>1, <3>1, RepliesAre
  <2>3. /\ Retrieve(s.buf, 2) \in Buffers(UnitSet) /\ WellFormed(Retrieve(s.buf, 2))
        /\ Consumed(Retrieve(s.buf, 2), p + 1, units)
    BY <1>1, <1>2, <1>3, <1>6, NextLine
  <2>4. agreed => ~a.over /\ (a.inHeaders <=> ~first)
    BY <1>2 DEF Agrees
  <2>5. CASE first /\ GoodLine(l)
    <3>1. /\ r.buf = Retrieve(s.buf, 2) /\ r.ok = s.ok /\ r.hasMore = s.hasMore
          /\ r.ctx.state = "kExpectHeaders" /\ r.ctx.request.version = l.version
          /\ r.ctx.request.path = l.path
          /\ r.ctx.request.connection = s.ctx.request.connection
      BY <1>1, <1>2, <1>6, <2>5, ParseCases
    <3>2. agreed => /\ ~b.over /\ b.inHeaders /\ b.version = l.version /\ b.path = l.path
                    /\ b.connection = "" /\ b.out = a.out /\ s.ctx.request.connection = ""
      <4>1. agreed => s.ctx.request.connection = ""
        BY <1>2, <2>4, <2>5 DEF Agrees
      <4> HIDE DEF a, b, l, agreed
      <4>2. agreed => /\ ~Answer(a, l).over /\ Answer(a, l).inHeaders
                      /\ Answer(a, l).version = l.version /\ Answer(a, l).path = l.path
                      /\ Answer(a, l).connection = ""
                      /\ Answer(a, l).out = a.out
        <5>1. a \in ReplySet /\ GoodLine(l) /\ (agreed => ~a.over /\ ~a.inHeaders)
          BY <2>2, <2>4, <2>5
        <5> HIDE DEF first
        <5> QED BY <5>1, AnswerCases
      <4> QED BY <2>2, <4>1, <4>2
    <3> HIDE DEF r, l, a, b
    <3>3. agreed => Agrees(r.ctx, b)
      BY <3>1, <3>2 DEF Agrees
    <3>4. agreed => Follows(r, p + 1, p0, units)
      BY <1>2, <3>1, <3>2, <3>3 DEF Follows, b
    <3>5. ParseInv(r, p + 1, i + 1, ctx, p0, units)
      BY <1>2, <2>1, <2>3, <3>1, <3>4 DEF ParseInv
    <3> QED BY <1>4, <3>5 DEF r
  <2>6. CASE first /\ ~GoodLine(l)
    <3>1. r.buf = s.buf /\ ~r.ok /\ ~r.hasMore /\ r.ctx.state = "kExpectRequestLine"
      BY <1>1, <1>2, <1>6, <2>6, ParseCases
    <3>2. agreed => Follows(r, p, p0, units)
      BY <1>2, <1>6, <2>4, <2>6, <3>1 DEF Follows
    <3> HIDE DEF r
    <3>3. ParseInv(r, p, i + 1, ctx, p0, units)
      BY <1>1, <1>2, <3>1, <3>2 DEF ParseInv
    <3> QED BY <1>4, <3>3 DEF r
  <2>7. CASE ~first /\ HasColon(l)
    <3>1. /\ r.buf = Retrieve(s.buf, 2) /\ r.ok = s.ok /\ r.hasMore = s.hasMore
          /\ r.ctx.state = "kExpectHeaders"
          /\ r.ctx.request.version = s.ctx.request.version
          /\ r.ctx.request.path = s.ctx.request.path
          /\ r.ctx.request.connection =
                IF l.connection = "other" THEN s.ctx.request.connection ELSE l.connection
      BY <1>1, <1>2, <1>6, <2>7, ParseCases
    <3>2. agreed => /\ ~b.over /\ b.inHeaders /\ b.version = a.version /\ b.path = a.path
                    /\ b.out = a.out
                    /\ b.connection = IF l.connection = "other" THEN a.connection
                                                                ELSE l.connection
                    /\ s.ctx.request.connection = a.connection
                    /\ s.ctx.request.version = a.version
                    /\ s.ctx.request.path = a.path
      <4>1. agreed => /\ s.ctx.request.connection = a.connection
                      /\ s.ctx.request.version = a.version
                      /\ s.ctx.request.path = a.path
        BY <1>2, <2>4, <2>7 DEF Agrees
      <4> HIDE DEF a, b, l, agreed
      <4>2. agreed => /\ ~Answer(a, l).over /\ Answer(a, l).inHeaders
                      /\ Answer(a, l).version = a.version /\ Answer(a, l).path = a.path
                      /\ Answer(a, l).out = a.out
                      /\ Answer(a, l).connection = IF l.connection = "other" THEN a.connection
                                                                             ELSE l.connection
        BY <2>2, <2>4, <2>7, AnswerCases
      <4> QED BY <2>2, <4>1, <4>2
    <3> HIDE DEF r, l, a, b
    <3>3. agreed => Agrees(r.ctx, b)
      BY <3>1, <3>2 DEF Agrees
    <3>4. agreed => Follows(r, p + 1, p0, units)
      BY <1>2, <3>1, <3>2, <3>3 DEF Follows, b
    <3>5. ParseInv(r, p + 1, i + 1, ctx, p0, units)
      BY <1>2, <2>1, <2>3, <3>1, <3>4 DEF ParseInv
    <3> QED BY <1>4, <3>5 DEF r
  <2>8. CASE ~first /\ ~HasColon(l)
    <3>1. /\ r.buf = Retrieve(s.buf, 2) /\ r.ok = s.ok /\ ~r.hasMore
          /\ r.ctx.state = "kGotAll" /\ r.ctx.request = s.ctx.request
      BY <1>1, <1>2, <1>6, <2>8, ParseCases
    <3>2. agreed => /\ ~b.inHeaders /\ b.out = Append(a.out, a.version)
                    /\ b.over <=> CloseConnection(a)
      <4> HIDE DEF a, b, l, agreed
      <4>1. agreed => /\ ~Answer(a, l).inHeaders /\ Answer(a, l).out = Append(a.out, a.version)
                      /\ Answer(a, l).over <=> CloseConnection(a)
        BY <2>2, <2>4, <2>8, AnswerCases
      <4> QED BY <2>2, <4>1
    <3>3. agreed => /\ s.ctx.request.connection = a.connection
                    /\ s.ctx.request.version = a.version
                    /\ CloseConnection(a) <=> CloseConnection(s.ctx.request)
      BY <1>2, <2>4, <2>8 DEF Agrees, CloseConnection, Closes
    <3> HIDE DEF r, l, a, b
    <3>4. agreed => Follows(r, p + 1, p0, units)
      BY <1>2, <3>1, <3>2, <3>3 DEF Follows, b
    <3>5. ParseInv(r, p + 1, i + 1, ctx, p0, units)
      BY <1>2, <2>1, <2>3, <3>1, <3>4 DEF ParseInv
    <3> QED BY <1>4, <3>5 DEF r
  <2> QED BY <2>5, <2>6, <2>7, <2>8
<1> QED BY <1>1, <1>5, <1>6

(* The whole loop: it ends within the turns it is given, with what follows  *)
(* from the lines. *)
LEMMA ParseOutcome ==
    ASSUME client \in Streams, NEW ctx \in Contexts, NEW b \in Buffers(UnitSet), WellFormed(b),
           NEW units \in 0..Len(Stream), NEW p0 \in 0..units \div 2, Consumed(b, p0, units)
    PROVE  LET s == ParseRequest(ctx, b) IN
           /\ s \in ParseStates /\ ~s.hasMore
           /\ \E p, i : ParseInv(s, p, i, ctx, p0, units)
<1> DEFINE turns == ReadableBytes(b) + 1
           start == [ctx |-> ctx, buf |-> b, ok |-> TRUE, hasMore |-> TRUE]
           Step(s) == IF s.hasMore THEN ParseLine(s) ELSE s
           T == [i \in 0..turns |-> {s \in ParseStates : \E p : ParseInv(s, p, i, ctx, p0, units)}]
           g == [i \in 1..turns |-> [s \in ParseStates |-> Step(s)]]
           Is(f) == f = [i \in 0..turns |-> IF i = 0 THEN start
                                            ELSE IF f[i - 1].hasMore THEN ParseLine(f[i - 1])
                                            ELSE f[i - 1]]
           after == CHOOSE f : Is(f)
<1>1. /\ units \in Nat /\ p0 \in Nat /\ units \div 2 \in Nat /\ p0 <= units \div 2
      /\ ReadableBytes(b) = units - 2 * p0 /\ turns \in Nat
  <2>1. ReadableBytes(b) = units - 2 * p0
    BY FirstLine
  <2> QED BY <2>1, StreamIs
<1>2. ParseRequest(ctx, b) = after[turns]
  BY DEF ParseRequest
<1>3. start \in ParseStates /\ ParseInv(start, p0, 0, ctx, p0, units)
  <2>1. /\ start.ctx = ctx /\ start.buf = b /\ start.ok /\ start.hasMore
        /\ ctx \in ParseContexts /\ ctx.state # "kGotAll"
    BY DEF Contexts, ParseContexts
  <2>2. start \in ParseStates
    BY <2>1 DEF ParseStates
  <2> HIDE DEF start
  <2>3. Agrees(ctx, Replies[p0]) => Follows(start, p0, p0, units)
    BY <2>1 DEF Follows
  <2>4. ParseInv(start, p0, 0, ctx, p0, units)
    BY <1>1, <2>1, <2>3 DEF ParseInv
  <2> QED BY <2>2, <2>4
<1>4. ASSUME NEW i \in Nat, NEW s \in ParseStates, NEW p, ParseInv(s, p, i, ctx, p0, units)
      PROVE  Step(s) \in ParseStates /\ \E q : ParseInv(Step(s), q, i + 1, ctx, p0, units)
  <2>1. CASE s.hasMore
    <3>1. Step(s) = ParseLine(s)
      BY <2>1
    <3> QED BY <1>4, <2>1, <3>1, ParseTurn
  <2>2. CASE ~s.hasMore
    <3>1. Step(s) = s
      BY <2>2
    <3>2. ParseInv(s, p, i + 1, ctx, p0, units)
      BY <1>4, <2>2 DEF ParseInv
    <3> QED BY <3>1, <3>2
  <2> QED BY <2>1, <2>2
<1> HIDE DEF start, Step
<1>5. PICK f \in [0..turns -> ParseStates] : Recurs(f, start, g, T, turns)
  <2>1. T \in [0..turns -> SUBSET ParseStates]
    OBVIOUS
  <2>2. start \in T[0]
    <3>1. 0 \in 0..turns
      BY <1>1
    <3> QED BY <1>3, <3>1
  <2>3. Keeps(g, T, turns)
    <3> SUFFICES ASSUME NEW i \in 1..turns, NEW s \in T[i - 1] PROVE g[i][s] \in T[i]
      BY DEF Keeps
    <3>1. i - 1 \in Nat /\ i - 1 \in 0..turns /\ i \in 0..turns /\ i - 1 + 1 = i
      BY <1>1
    <3>2. PICK p : s \in ParseStates /\ ParseInv(s, p, i - 1, ctx, p0, units)
      BY <3>1
    <3>3. Step(s) \in ParseStates /\ \E q : ParseInv(Step(s), q, i - 1 + 1, ctx, p0, units)
      BY <1>4, <3>1, <3>2
    <3>4. g[i][s] = Step(s)
      BY <3>2
    <3> QED BY <3>1, <3>3, <3>4
  <2> HIDE DEF T, g, turns
  <2> QED BY <1>1, <2>1, <2>2, <2>3, Recursion
<1>6. f[0] = start /\ \A i \in 1..turns : f[i] = Step(f[i - 1])
  <2>1. f[0] = start /\ \A i \in 1..turns : f[i] = g[i][f[i - 1]]
    BY <1>5 DEF Recurs
  <2>2. \A i \in 1..turns : f[i - 1] \in ParseStates
    <3> SUFFICES ASSUME NEW i \in 1..turns PROVE f[i - 1] \in ParseStates
      OBVIOUS
    <3>1. i - 1 \in 0..turns
      BY <1>1
    <3> QED BY <1>5, <3>1
  <2> QED BY <2>1, <2>2
<1> HIDE DEF T, g
<1>7. Is(f)
  BY <1>1, <1>5, <1>6 DEF Step
<1>8. Is(after)
  BY <1>7, Zenon
<1>9. after[0] = start /\ \A i \in 1..turns : after[i] = Step(after[i - 1])
  <2> DEFINE h == after
  <2>1. h = [i \in 0..turns |-> IF i = 0 THEN start
                                ELSE IF h[i - 1].hasMore THEN ParseLine(h[i - 1])
                                ELSE h[i - 1]]
    BY <1>8
  <2> HIDE DEF h
  <2>2. \A i \in 0..turns : h[i] = IF i = 0 THEN start
                                   ELSE IF h[i - 1].hasMore THEN ParseLine(h[i - 1])
                                   ELSE h[i - 1]
    BY <2>1, Zenon
  <2>3. 0 \in 0..turns /\ \A i \in 1..turns : i \in 0..turns /\ i # 0
    BY <1>1
  <2> HIDE DEF turns
  <2>4. h[0] = start /\ \A i \in 1..turns : h[i] = Step(h[i - 1])
    BY <2>2, <2>3 DEF Step
  <2> QED BY <2>4 DEF h
<1> HIDE DEF Is, after
<1> DEFINE Good(i) == after[i] \in ParseStates /\ \E p : ParseInv(after[i], p, i, ctx, p0, units)
           N == {i \in Nat : i <= turns => Good(i)}
<1>10. 0 \in N
  BY <1>1, <1>3, <1>9
<1>11. ASSUME NEW i \in Nat, i <= turns => Good(i), i + 1 <= turns PROVE Good(i + 1)
  <2>1. i + 1 \in 1..turns /\ i + 1 - 1 = i /\ Good(i)
    <3> HIDE DEF turns, Good
    <3> QED BY <1>1, <1>11
  <2>2. after[i + 1] = Step(after[i])
    BY <1>9, <2>1
  <2> QED BY <1>4, <2>1, <2>2
<1>12. turns \in N
  <2>1. \A i \in Nat : i \in N => i + 1 \in N
    <3> HIDE DEF turns, Good
    <3> QED BY <1>11
  <2> HIDE DEF N, turns
  <2> QED BY <1>1, <1>10, <2>1, Induction
<1> DEFINE s == after[turns]
<1>13. PICK p : s \in ParseStates /\ ParseInv(s, p, turns, ctx, p0, units)
  BY <1>1, <1>12
<1>14. ~s.hasMore
  <2> HIDE DEF s
  <2>1. p \in p0..units \div 2 /\ turns = units - 2 * p0 + 1
    BY <1>1, <1>13 DEF ParseInv
  <2>2. ~(p >= p0 + turns)
    <3> HIDE DEF turns
    <3> QED BY <1>1, <2>1
  <2> QED BY <1>13, <2>2 DEF ParseInv
<1> QED BY <1>2, <1>13, <1>14

-----------------------------------------------------------------------------
(* The invariant is one.                                                    *)

(* A new buffer is empty. *)
LEMMA NewBufferIs ==
    ASSUME NEW S, Unset \notin S
    PROVE  NewBuffer \in Buffers(S) /\ WellFormed(NewBuffer) /\ Readable(NewBuffer) = <<>>
<1>1. CheapPrepend \in Nat /\ CheapPrepend + InitialSize \in Nat /\ <<>> \in Seq(S)
  BY SizeAssumption
<1>2. Blank(CheapPrepend + InitialSize) \in [1..CheapPrepend + InitialSize -> S \union {Unset}]
  BY DEF Blank
<1>3. /\ Blank(CheapPrepend + InitialSize) \in Seq(S \union {Unset})
      /\ Len(Blank(CheapPrepend + InitialSize)) = CheapPrepend + InitialSize
  BY <1>1, <1>2, SeqDef
<1>4. NewBuffer \in Buffers(S)
  BY <1>1, <1>3 DEF NewBuffer, Buffers
<1>5. /\ CheapPrepend <= Len(NewBuffer.cells) /\ NewBuffer.writer <= Len(NewBuffer.cells)
      /\ NewBuffer.writer = NewBuffer.reader + 0
  BY <1>1, <1>3, SizeAssumption DEF NewBuffer
<1>6. Len(<<>>) = 0 /\ 1..Len(<<>>) = {}
  OBVIOUS
<1> QED BY <1>1, <1>4, <1>5, <1>6, ReadableIs

(* A client that waits has sent no more than the first end of a request     *)
(* that is not answered.                                                    *)
LEMMA SentUnitsAre ==
    ASSUME client \in Streams
    PROVE  /\ SentUnits \in Nat /\ SentUnits <= Len(Stream)
           /\ \A i \in Ends : client.waits /\ Cardinality(EndsTo(i)) > Len(answers) =>
                 SentUnits <= 2 * i
<1> DEFINE unanswered == {i \in Ends : Cardinality({j \in Ends : j <= i}) > Len(answers)}
<1>1. /\ Len(Stream) = 2 * Len(client.lines) /\ Len(client.lines) \in Nat
      /\ \A i \in Ends : i \in 1..Len(client.lines)
  BY StreamIs, EndsFinite
<1>2. SentUnits = IF client.waits /\ unanswered # {} THEN 2 * Min(unanswered) ELSE Len(Stream)
  BY DEF SentUnits
<1>3. unanswered = {i \in Ends : Cardinality(EndsTo(i)) > Len(answers)}
  BY DEF EndsTo
<1>4. unanswered \subseteq Ends
  OBVIOUS
<1> HIDE DEF unanswered
<1>5. ASSUME unanswered # {}
      PROVE  Min(unanswered) \in Ends /\ \A i \in unanswered : Min(unanswered) <= i
  <2>1. \E m \in unanswered : \A i \in unanswered : m <= i
    <3>1. unanswered \in SUBSET Nat
      BY <1>1, <1>4
    <3> QED BY <1>5, <3>1, LeastNatural
  <2>2. Min(unanswered) \in unanswered /\ \A i \in unanswered : Min(unanswered) <= i
    BY <2>1 DEF Min
  <2> QED BY <1>4, <2>2
<1>6. CASE client.waits /\ unanswered # {}
  <2>1. SentUnits = 2 * Min(unanswered) /\ Min(unanswered) \in 1..Len(client.lines)
    BY <1>1, <1>2, <1>5, <1>6
  <2>2. \A i \in unanswered : i \in Nat /\ Min(unanswered) <= i
    BY <1>1, <1>4, <1>5, <1>6
  <2> DEFINE m == Min(unanswered)
  <2> HIDE DEF m
  <2>3. SentUnits = 2 * m /\ m \in 1..Len(client.lines)
    BY <2>1 DEF m
  <2>4. ASSUME NEW i \in Ends, Cardinality(EndsTo(i)) > Len(answers) PROVE SentUnits <= 2 * i
    <3>1. i \in Nat /\ m <= i
      BY <1>3, <2>2, <2>4 DEF m
    <3> QED BY <1>1, <2>3, <3>1
  <2> QED BY <1>1, <2>3, <2>4
<1>7. CASE ~(client.waits /\ unanswered # {})
  BY <1>1, <1>2, <1>3, <1>7
<1> QED BY <1>6, <1>7

(* It holds initially. *)
LEMMA HttpInit == Init => HttpInv
<1> SUFFICES ASSUME Init PROVE HttpInv
  OBVIOUS
<1>1. /\ client \in Streams /\ arrived = 0 /\ buf = NewBuffer /\ context = NewContext
      /\ state = "kConnected" /\ answers = <<>>
  BY DEF Init
<1>2. TypesInv
  <2>1. NewContext \in Contexts
    BY PathsAssumption DEF NewContext, NoRequest, Contexts, Requests
  <2>2. 0 \in 0..Len(Stream)
    BY <1>1, StreamIs
  <2>3. NewBuffer \in Buffers(UnitSet) /\ WellFormed(NewBuffer)
    BY UnitsAreSet, NewBufferIs
  <2> QED BY <1>1, <2>1, <2>2, <2>3 DEF TypesInv
<1>3. 0 \div 2 = 0 /\ 0 \in 0..arrived \div 2
  BY <1>1
<1>4. Consumed(buf, 0, arrived)
  <2>1. Readable(NewBuffer) = <<>>
    BY UnitsAreSet, NewBufferIs
  <2>2. SubSeq(Stream, 2 * 0 + 1, 0) = <<>>
    BY SubSeqEmpty
  <2> QED BY <1>1, <2>1, <2>2 DEF Consumed
<1>5. Replies[0] = NoReply
  BY <1>1, RepliesAre
<1>6. OpenInv(0)
  <2>1. Agrees(NewContext, NoReply)
    BY DEF Agrees, NewContext, NoRequest, NoReply
  <2>2. NoReply.out = <<>>
    BY DEF NoReply
  <2> QED BY <1>1, <1>3, <1>5, <2>1, <2>2 DEF OpenInv
<1> QED BY <1>1, <1>2, <1>3, <1>4, <1>6 DEF HttpInv

(* What comes in is put behind what is not consumed. *)
LEMMA ReadIn ==
    ASSUME client \in Streams, NEW b \in Buffers(UnitSet), WellFormed(b),
           NEW units \in 0..Len(Stream), NEW p \in 0..units \div 2, Consumed(b, p, units),
           NEW n \in Nat, units + n <= Len(Stream)
    PROVE  LET e == ReadFd(b, SubSeq(Stream, units + 1, units + n)) IN
           e \in Buffers(UnitSet) /\ WellFormed(e) /\ Consumed(e, p, units + n)
<1> DEFINE t == SubSeq(Stream, units + 1, units + n)
           m == 2 * p + 1
           k == units + n
<1>1. /\ Stream \in Seq(UnitSet) /\ Len(Stream) \in Nat /\ units \in Nat
      /\ m \in 1..Len(Stream) + 1 /\ units \in m - 1..Len(Stream)
      /\ k \in units..Len(Stream)
  BY StreamIs
<1>2. t \in Seq(UnitSet)
  <2>1. units + 1 \in Int /\ units + n \in Int /\ units + n <= Len(Stream)
    BY <1>1
  <2>2. \A i \in units + 1..units + n : Stream[i] \in UnitSet
    BY <1>1, ElementOfSeq
  <2> QED BY <2>1, <2>2, SubSeqProperties
<1>3. SubSeq(Stream, m, units) \o SubSeq(Stream, units + 1, k) = SubSeq(Stream, m, k)
  <2> HIDE DEF m, k
  <2> QED BY <1>1, ConcatAdjacentSubSeq
<1>4. Readable(b) = SubSeq(Stream, m, units)
  BY DEF Consumed
<1> HIDE DEF t
<1>5. /\ ReadFd(b, t) \in Buffers(UnitSet) /\ WellFormed(ReadFd(b, t))
      /\ Readable(ReadFd(b, t)) = Readable(b) \o t
  BY <1>2, UnitsAreSet, ReadFdAddsAtTheEnd
<1> QED BY <1>3, <1>4, <1>5 DEF t, Consumed

(* What onMessage's handling of the context leaves one of a parser between  *)
(* messages. *)
LEMMA ContextAfter ==
    ASSUME NEW ctx \in ParseContexts, ctx.state # "kGotAll"
    PROVE  ctx \in Contexts
BY DEF ParseContexts, Contexts

(* A waiting client whose request is complete has sent nothing behind it.   *)
LEMMA AllIsRead ==
    ASSUME client \in Streams, client.waits, NEW p \in 0..Len(client.lines), ~Replies[p].over,
           answers = Replies[p].out,
           NEW q \in p..Len(client.lines), ~Replies[q].over, ~Replies[q].inHeaders,
           NEW v, Replies[q].out = Append(Replies[p].out, v)
    PROVE  SentUnits <= 2 * q
<1>1. Len(client.lines) \in Nat /\ q \in 0..Len(client.lines)
  BY StreamIs
<1>2. Len(answers) = Cardinality(EndsTo(p))
  BY WaitingReplies
<1>3. /\ Replies[q].inHeaders <=> q # 0 /\ client.lines[q] # End
      /\ Len(Replies[q].out) = Cardinality(EndsTo(q))
  BY <1>1, WaitingReplies
<1>4. Len(Replies[q].out) = Len(answers) + 1 /\ Len(answers) \in Nat
  <2>1. Replies[p] \in ReplySet
    BY RepliesAre
  <2> DEFINE S == Versions \union {"400"}
  <2>2. answers \in Seq(S)
    BY <2>1, ReplyOut
  <2> HIDE DEF S
  <2>3. answers \in Seq(S \union {v}) /\ v \in S \union {v}
    BY <2>2
  <2> QED BY <2>3, AppendProperties
<1>5. q # 0
  <2>1. q = 0 => p = q
    BY <1>1
  <2> QED BY <1>2, <1>3, <1>4, <2>1
<1>6. q \in Ends
  <2>1. q \in DOMAIN client.lines /\ client.lines[q] = End
    BY <1>1, <1>3, <1>5, StreamIs
  <2> QED BY <2>1 DEF Ends
<1>7. Cardinality(EndsTo(q)) > Len(answers)
  BY <1>3, <1>4
<1> QED BY <1>6, <1>7, SentUnitsAre

(* handleRead keeps it. *)
LEMMA HttpRead ==
    ASSUME HttpInv, NEW n \in 1..Len(Stream), HandleRead(n)
    PROVE  HttpInv'
<1> DEFINE units == arrived + n
           b == Arrived(n)
           s == ParseRequest(context, b)
           request == s.ctx.request
<1>1. /\ client \in Streams /\ arrived \in 0..Len(Stream) /\ arrived \in Nat
      /\ buf \in Buffers(UnitSet) /\ WellFormed(buf) /\ context \in Contexts
      /\ state \in {"kConnected", "kDisconnecting"} /\ n \in Nat /\ n >= 1
      /\ Len(Stream) = 2 * Len(client.lines) /\ Len(client.lines) \in Nat
  BY StreamIs DEF HttpInv, TypesInv, HandleRead, Arrives
<1>2. /\ client' = client /\ arrived' = units /\ units <= SentUnits /\ SentUnits <= Len(Stream)
      /\ units \in Nat /\ units \in 0..Len(Stream) /\ OnMessage(b)
      /\ arrived \div 2 <= units \div 2 /\ units \div 2 \in 0..Len(client.lines)
  <2>1. client' = client /\ arrived' = units /\ units <= SentUnits /\ OnMessage(b)
    BY DEF HandleRead, Arrives
  <2>2. SentUnits \in Nat /\ SentUnits <= Len(Stream)
    BY <1>1, SentUnitsAre
  <2> HIDE DEF b
  <2> QED BY <1>1, <2>1, <2>2
<1>3. PICK p \in 0..arrived \div 2 :
         Consumed(buf, p, arrived) /\ (state = "kConnected" => OpenInv(p))
  BY DEF HttpInv
<1>4. p \in 0..units \div 2 /\ p \in 0..Len(client.lines) /\ p \in Nat
  BY <1>1, <1>2
<1>5. b \in Buffers(UnitSet) /\ WellFormed(b) /\ Consumed(b, p, units)
  <2>1. arrived + n <= Len(Stream)
    BY <1>1, <1>2
  <2>2. /\ ReadFd(buf, SubSeq(Stream, arrived + 1, arrived + n)) \in Buffers(UnitSet)
        /\ WellFormed(ReadFd(buf, SubSeq(Stream, arrived + 1, arrived + n)))
        /\ Consumed(ReadFd(buf, SubSeq(Stream, arrived + 1, arrived + n)), p, arrived + n)
    BY <1>1, <1>3, <2>1, ReadIn
  <2> QED BY <2>2 DEF Arrived
<1> HIDE DEF b
<1>6. /\ s \in ParseStates /\ ~s.hasMore
      /\ \E q, i : ParseInv(s, q, i, context, p, units)
  <2> HIDE DEF units
  <2> QED BY <1>1, <1>2, <1>4, <1>5, ParseOutcome
<1>7. PICK q, i : ParseInv(s, q, i, context, p, units)
  BY <1>6
<1>8. /\ buf' = s.buf
      /\ ~s.ok => Send("400", TRUE) /\ context' = s.ctx
      /\ s.ok /\ s.ctx.state = "kGotAll" =>
            Send(request.version, CloseConnection(request)) /\ context' = NewContext
      /\ s.ok /\ s.ctx.state # "kGotAll" =>
            context' = s.ctx /\ answers' = answers /\ state' = state
  BY <1>2 DEF OnMessage
<1> HIDE DEF s, units
<1>9. /\ q \in p..units \div 2 /\ q \in 0..units \div 2 /\ q \in 0..Len(client.lines)
      /\ q \in p..Len(client.lines) /\ q \in Nat
      /\ WellFormed(s.buf) /\ Consumed(s.buf, q, units)
      /\ s.ok /\ s.ctx.state # "kGotAll" => q = units \div 2
      /\ ~s.ok => s.ctx.state # "kGotAll"
      /\ Agrees(context, Replies[p]) => Follows(s, q, p, units)
  <2>1. q \in p..units \div 2
    BY <1>7 DEF ParseInv
  <2> QED BY <1>2, <1>4, <1>6, <1>7, <2>1 DEF ParseInv
<1>10. Stream' = Stream /\ Replies' = Replies
  BY <1>2 DEF Stream, Replies
<1>11. Consumed(buf, q, arrived)'
  <2>1. Consumed(buf', q, arrived') = Consumed(s.buf, q, units)
    BY <1>2, <1>8
  <2> QED BY <1>9, <1>10, <2>1 DEF Consumed
<1>12. /\ s.ctx \in ParseContexts /\ s.buf \in Buffers(UnitSet)
       /\ request \in Requests
  BY <1>6 DEF ParseStates, ParseContexts
<1>13. TypesInv'
  <2>1. context' \in Contexts
    <3>1. NewContext \in Contexts
      BY PathsAssumption DEF NewContext, NoRequest, Contexts, Requests
    <3> QED BY <1>8, <1>9, <1>12, <3>1, ContextAfter
  <2>2. state' \in {"kConnected", "kDisconnecting"}
    BY <1>1, <1>8 DEF Send
  <2> QED BY <1>1, <1>2, <1>8, <1>9, <1>10, <1>12, <2>1, <2>2 DEF TypesInv
<1>14. CASE state = "kDisconnecting"
  <2>1. PICK c \in 0..arrived \div 2 : ClosedInv(c)
    BY <1>14 DEF HttpInv
  <2>2. state' = state /\ answers' = answers
    BY <1>8, <1>14 DEF Send
  <2>3. ClosedInv(c)'
    BY <1>2, <1>10, <1>14, <2>1, <2>2 DEF ClosedInv
  <2>4. c \in 0..arrived' \div 2
    BY <1>1, <1>2, <2>1
  <2> QED BY <1>2, <1>9, <1>11, <1>13, <1>14, <2>2, <2>3, <2>4 DEF HttpInv
<1>15. CASE state = "kConnected"
  <2>1. /\ Agrees(context, Replies[p]) /\ answers = Replies[p].out /\ ~Replies[p].over
        /\ client.waits => p = arrived \div 2
    BY <1>3, <1>15 DEF OpenInv, Agrees
  <2>2. Follows(s, q, p, units)
    BY <1>9, <2>1
  <2>3. ASSUME OpenInv(q)', state' = "kConnected" PROVE HttpInv'
    BY <1>2, <1>9, <1>11, <1>13, <2>3 DEF HttpInv
  <2>4. ASSUME NEW c \in 0..units \div 2, ClosedInv(c)', state' # "kConnected" PROVE HttpInv'
    BY <1>2, <1>9, <1>11, <1>13, <2>4 DEF HttpInv
  <2>5. CASE ~s.ok
    <3>1. answers' = Append(answers, "400") /\ state' = "kDisconnecting"
      BY <1>8, <1>15, <2>5 DEF Send
    <3>2. /\ q < units \div 2 /\ ~GoodLine(client.lines[q + 1])
          /\ ~Replies[q].over /\ ~Replies[q].inHeaders /\ Replies[q].out = Replies[p].out
      BY <2>2, <2>5 DEF Follows
    <3>3. /\ q + 1 \in 0..units \div 2 /\ q + 1 \in 1..Len(client.lines) /\ q + 1 - 1 = q
      BY <1>1, <1>2, <1>9, <3>2
    <3>4. Replies[q] \in ReplySet /\ Replies[q + 1] = Answer(Replies[q], client.lines[q + 1])
      BY <1>1, <1>9, <3>3, RepliesAre
    <3>5. Replies[q + 1].over /\ Replies[q + 1].out = Append(Replies[q].out, "400")
      <4> DEFINE a == Replies[q]
                 l == client.lines[q + 1]
      <4>1. a \in ReplySet /\ ~a.over /\ ~a.inHeaders /\ ~GoodLine(l)
        BY <3>2, <3>4
      <4>2. Replies[q + 1] = Answer(a, l)
        BY <3>4
      <4> HIDE DEF a, l
      <4>3. Answer(a, l).over /\ Answer(a, l).out = Append(a.out, "400")
        BY <4>1, AnswerCases
      <4> QED BY <4>2, <4>3 DEF a
    <3> DEFINE m == q + 1
    <3>6. Replies[m].over /\ answers' = Replies[m].out
      BY <2>1, <3>1, <3>2, <3>5
    <3> HIDE DEF m
    <3>7. ClosedInv(m)'
      BY <1>10, <3>6 DEF ClosedInv
    <3>8. state' # "kConnected" /\ m \in 0..units \div 2
      BY <3>1, <3>3 DEF m
    <3> QED BY <2>4, <3>7, <3>8
  <2>6. CASE s.ok /\ s.ctx.state = "kGotAll"
    <3>1. /\ ~Replies[q].inHeaders
          /\ Replies[q].out = Append(Replies[p].out, request.version)
          /\ Replies[q].over <=> CloseConnection(request)
      BY <2>2, <2>6 DEF Follows
    <3>2. answers' = Append(answers, request.version) /\ context' = NewContext
      BY <1>8, <1>15, <2>6 DEF Send
    <3>3. answers' = Replies[q].out
      BY <2>1, <3>1, <3>2
    <3>4. CASE CloseConnection(request)
      <4>1. state' = "kDisconnecting"
        BY <1>8, <1>15, <2>6, <3>4 DEF Send
      <4>2. ClosedInv(q)'
        BY <1>10, <3>1, <3>3, <3>4 DEF ClosedInv
      <4> QED BY <1>9, <2>4, <4>1, <4>2
    <3>5. CASE ~CloseConnection(request)
      <4>1. state' = "kConnected"
        BY <1>8, <1>15, <2>6, <3>5 DEF Send
      <4>2. ~Replies[q].over
        BY <3>1, <3>5
      <4>3. Agrees(NewContext, Replies[q])
        BY <3>1, <4>2 DEF Agrees, NewContext, NoRequest
      <4>4. ASSUME client.waits PROVE q = units \div 2
        <5> DEFINE v == request.version
        <5>2. Replies[q].out = Append(Replies[p].out, v)
          BY <3>1
        <5> HIDE DEF v
        <5>3. SentUnits <= 2 * q
          BY <1>1, <1>4, <1>9, <2>1, <3>1, <4>2, <4>4, <5>2, AllIsRead
        <5>4. SentUnits \in Nat
          BY <1>1, SentUnitsAre
        <5> QED BY <1>2, <1>9, <5>3, <5>4
      <4>5. OpenInv(q)'
        BY <1>2, <1>10, <3>2, <3>3, <4>3, <4>4 DEF OpenInv
      <4> QED BY <2>3, <4>1, <4>5
    <3> QED BY <3>4, <3>5
  <2>7. CASE s.ok /\ s.ctx.state # "kGotAll"
    <3>1. context' = s.ctx /\ answers' = answers /\ state' = "kConnected"
      BY <1>8, <1>15, <2>7
    <3>2. Agrees(s.ctx, Replies[q]) /\ Replies[q].out = Replies[p].out /\ q = units \div 2
      BY <1>9, <2>2, <2>7 DEF Follows
    <3>3. OpenInv(q)'
      BY <1>2, <1>10, <2>1, <3>1, <3>2 DEF OpenInv
    <3> QED BY <2>3, <3>1, <3>3
  <2> QED BY <2>5, <2>6, <2>7
<1> QED BY <1>1, <1>14, <1>15

(* So does handleClose. *)
LEMMA HttpClose == HttpInv /\ HandleClose => HttpInv'
<1> SUFFICES ASSUME HttpInv, HandleClose PROVE HttpInv'
  OBVIOUS
<1>1. /\ client' = client /\ arrived' = arrived /\ buf' = buf /\ context' = context
      /\ answers' = answers /\ state' = "kDisconnected" /\ state # "kDisconnected"
  BY DEF HandleClose
<1>2. Stream' = Stream /\ Replies' = Replies
  BY <1>1 DEF Stream, Replies
<1>3. TypesInv'
  BY <1>1, <1>2 DEF HttpInv, TypesInv
<1>4. PICK p \in 0..arrived \div 2 :
         Consumed(buf, p, arrived) /\ (state = "kConnected" => OpenInv(p))
  BY DEF HttpInv
<1>5. Consumed(buf, p, arrived)'
  BY <1>1, <1>2, <1>4 DEF Consumed
<1>6. \E q \in 0..arrived \div 2 : ClosedInv(q)'
  <2>1. CASE state = "kConnected"
    <3>1. OpenInv(p)
      BY <1>4, <2>1
    <3>2. ClosedInv(p)'
      BY <1>1, <1>2, <3>1 DEF OpenInv, ClosedInv
    <3> QED BY <3>2
  <2>2. CASE state # "kConnected"
    <3>1. PICK q \in 0..arrived \div 2 : ClosedInv(q)
      BY <2>2 DEF HttpInv
    <3>2. ClosedInv(q)'
      BY <1>1, <1>2, <3>1 DEF ClosedInv
    <3> QED BY <3>2
  <2> QED BY <2>1, <2>2
<1> QED BY <1>1, <1>3, <1>4, <1>5, <1>6 DEF HttpInv

(* A reachable connection has consumed the first of the lines that arrived, *)
(* its buffer holds the rest, and it has answered those or, once it is not  *)
(* open, the lines up to the one whose response closed it, as the callback  *)
(* decides, or that was refused (HttpServer.cc:51-97).                      *)
THEOREM HttpInvariance == Spec => []HttpInv
<1>1. HttpInv /\ UNCHANGED vars => HttpInv'
  <2> SUFFICES ASSUME HttpInv, UNCHANGED vars PROVE HttpInv'
    OBVIOUS
  <2>1. /\ client' = client /\ arrived' = arrived /\ buf' = buf /\ context' = context
        /\ answers' = answers /\ state' = state
    BY DEF vars
  <2>2. Stream' = Stream /\ Replies' = Replies
    BY <2>1 DEF Stream, Replies
  <2> QED BY <2>1, <2>2 DEF HttpInv, TypesInv, OpenInv, ClosedInv, Consumed
<1>2. HttpInv /\ [Next]_vars => HttpInv'
  BY <1>1, HttpRead, HttpClose DEF Next
<1> QED BY <1>2, HttpInit, PTL DEF Spec

-----------------------------------------------------------------------------
(* What it gives of the answers.                                            *)

(* The answers are those to some of the lines, all of these when they close *)
(* or the client waits.                                                     *)
LEMMA AnsweredLines ==
    ASSUME HttpInv
    PROVE  LET e == arrived \div 2 IN
           \E q \in 0..e :
              /\ Replies[q] \in ReplySet /\ Replies[e] \in ReplySet
              /\ LaterReply(Replies[q], Replies[e])
              /\ answers = Replies[q].out
              /\ state = "kConnected" => ~Replies[q].over
              /\ state = "kDisconnecting" => Replies[q].over
              /\ client.waits => Replies[q].over \/ q = e
<1> DEFINE e == arrived \div 2
<1>1. /\ client \in Streams /\ arrived \in 0..Len(Stream)
      /\ Len(Stream) = 2 * Len(client.lines) /\ Len(client.lines) \in Nat
  BY StreamIs DEF HttpInv, TypesInv
<1>2. e \in 0..Len(client.lines)
  BY <1>1
<1>3. \E q \in 0..e : /\ answers = Replies[q].out
                      /\ state = "kConnected" => ~Replies[q].over
                      /\ state = "kDisconnecting" => Replies[q].over
                      /\ client.waits => Replies[q].over \/ q = e
  <2>1. CASE state = "kConnected"
    <3>1. PICK p \in 0..e : OpenInv(p)
      BY <2>1 DEF HttpInv
    <3> QED BY <2>1, <3>1 DEF OpenInv, Agrees
  <2>2. CASE state # "kConnected"
    <3>1. PICK q \in 0..e : ClosedInv(q)
      BY <2>2 DEF HttpInv
    <3> QED BY <2>2, <3>1 DEF ClosedInv
  <2> QED BY <2>1, <2>2
<1> HIDE DEF e
<1>4. PICK q \in 0..e : /\ answers = Replies[q].out
                        /\ state = "kConnected" => ~Replies[q].over
                        /\ state = "kDisconnecting" => Replies[q].over
                        /\ client.waits => Replies[q].over \/ q = e
  BY <1>3
<1>5. q \in 0..Len(client.lines) /\ e \in q..Len(client.lines)
  BY <1>1, <1>2
<1>6. Replies[q] \in ReplySet /\ Replies[e] \in ReplySet
  BY <1>1, <1>2, <1>5, RepliesAre
<1>7. LaterReply(Replies[q], Replies[e])
  BY <1>1, <1>5, RepliesGrow
<1> QED BY <1>4, <1>6, <1>7 DEF e

(* The answers are the first of those the stream asks for, in its order,    *)
(* however it was cut, and the connection is shut down after the first      *)
(* whose response closes when httpCallback_ has seen it, or after a refusal, *)
(* and after no other (HttpServer.cc:64-97, HttpContext.cc:60-118).         *)
THEOREM AnswersInOrder == Spec => []AnswersFollowStream
<1>1. HttpInv => AnswersFollowStream
  <2> SUFFICES ASSUME HttpInv PROVE AnswersFollowStream
    OBVIOUS
  <2> DEFINE e == arrived \div 2
             S == Versions \union {"400"}
  <2>1. PICK q \in 0..e :
           /\ Replies[q] \in ReplySet /\ Replies[e] \in ReplySet
           /\ LaterReply(Replies[q], Replies[e])
           /\ answers = Replies[q].out
           /\ state = "kConnected" => ~Replies[q].over
           /\ state = "kDisconnecting" => Replies[q].over
    BY AnsweredLines
  <2> DEFINE a == Replies[q]
             b == Replies[e]
  <2>2. a.out \in Seq(S) /\ b.out \in Seq(S)
    BY <2>1, ReplyOut
  <2>3. Expected = b
    BY DEF Expected
  <2>4. LaterReply(a, b) /\ answers = a.out
    BY <2>1
  <2> HIDE DEF a, b, e, S
  <2>5. IsPrefix(a.out, b.out)
    <3>1. /\ Len(a.out) <= Len(b.out) /\ Len(a.out) \in Nat /\ Len(b.out) \in Nat
          /\ \A k \in 1..Len(a.out) : b.out[k] = a.out[k]
      BY <2>2, <2>4 DEF LaterReply
    <3> DEFINE n == Len(a.out)
               s == SubSeq(a.out, 1, n)
               t == SubSeq(b.out, 1, n)
    <3>2. /\ s \in Seq(S) /\ Len(s) = n
          /\ \A k \in 1..n : s[k] = a.out[k]
      BY <2>2, <3>1
    <3>3. /\ t \in Seq(S) /\ Len(t) = n
          /\ \A k \in 1..n : t[k] = b.out[k]
      BY <2>2, <3>1
    <3> HIDE DEF s, t
    <3>4. \A k \in 1..n : s[k] = t[k]
      BY <3>1, <3>2, <3>3
    <3> HIDE DEF n
    <3>5. s = t
      BY <3>2, <3>3, <3>4, SeqEqual
    <3> QED BY <3>1, <3>5 DEF IsPrefix, s, t, n
  <2>6. a.out = b.out /\ b.over => a.over
    BY <2>2, <2>4 DEF LaterReply
  <2>7. a.over => a = b
    BY <2>4 DEF LaterReply
  <2>8. (state = "kConnected" => ~a.over) /\ (state = "kDisconnecting" => a.over)
    BY <2>1 DEF a
  <2> QED BY <2>3, <2>4, <2>5, <2>6, <2>7, <2>8 DEF AnswersFollowStream
<1> QED BY <1>1, HttpInvariance, PTL

(* A client that waits for each answer before its next request has an       *)
(* answer to all that has been read of it, up to the answer that closes: no *)
(* request stays in the buffer unanswered on a connection that is kept      *)
(* (HttpServer.cc:51-97, HttpContext.cc:60-118).                            *)
THEOREM AllAnswered == Spec => []NothingLeftBehind
<1>1. HttpInv => NothingLeftBehind
  <2> SUFFICES ASSUME HttpInv, client.waits PROVE answers = Expected.out
    BY DEF NothingLeftBehind
  <2> DEFINE e == arrived \div 2
  <2>1. PICK q \in 0..e :
           /\ LaterReply(Replies[q], Replies[e])
           /\ answers = Replies[q].out
           /\ Replies[q].over \/ q = e
    BY AnsweredLines
  <2> QED BY <2>1 DEF LaterReply, Expected
<1> QED BY <1>1, HttpInvariance, PTL

(* As long as nothing was refused, the assertion of setMethod holds for     *)
(* whatever comes in next (HttpRequest.h:54, HttpServer.cc:76-80).          *)
THEOREM FreshContexts == Spec => []OpenSetsMethodOnce
<1>1. HttpInv => OpenSetsMethodOnce
  <2> SUFFICES ASSUME HttpInv, state = "kConnected", NEW n \in 1..Len(Stream)
               PROVE  ~SetMethodFails(context, Arrived(n))
    BY DEF OpenSetsMethodOnce, MethodSetOnce
  <2>1. PICK p \in 0..arrived \div 2 : OpenInv(p)
    BY DEF HttpInv
  <2>2. context.state # "kExpectRequestLine" \/ context.request.method = "kInvalid"
    BY <2>1 DEF OpenInv, Agrees
  <2> QED BY <2>2 DEF SetMethodFails
<1> QED BY <1>1, HttpInvariance, PTL

-----------------------------------------------------------------------------
(* The integers of the buffer.                                              *)

(* The successive quotients of x by 256, the last first, and their          *)
(* remainders, the bytes of x.                                              *)
Quotients(f, x, n) ==
    /\ f \in [1..n -> Int] /\ f[n] = x
    /\ \A i \in 1..n : i < n => f[i] = f[i + 1] \div 256

Remainders(f, n) == [i \in 1..n |-> f[i] % 256]

(* They are what is written.                                                *)
LEMMA NetworkBytes ==
    ASSUME NEW n \in Nat, n >= 1, NEW x \in Int
    PROVE  \E f : Quotients(f, x, n) /\ NetworkOrder(x, n) = Remainders(f, n)
<1> DEFINE T == [k \in 0..n - 1 |-> Int]
           g == [k \in 1..n - 1 |-> [t \in Int |-> t \div 256]]
           Is(f) == f = [i \in 1..n |-> IF i = n THEN x ELSE f[i + 1] \div 256]
           high == CHOOSE f : Is(f)
<1>1. \E h \in [0..n - 1 -> Int] : Recurs(h, x, g, T, n - 1)
  <2> DEFINE m == n - 1
  <2>1. m \in Nat /\ 0 \in 0..m /\ \A k \in 1..m : k \in 0..m /\ k - 1 \in 0..m
    OBVIOUS
  <2>2. T \in [0..m -> SUBSET Int] /\ x \in T[0]
    BY <2>1
  <2>3. Keeps(g, T, m)
    <3> SUFFICES ASSUME NEW k \in 1..m, NEW t \in T[k - 1] PROVE g[k][t] \in T[k]
      BY DEF Keeps
    <3>1. t \in Int /\ T[k] = Int
      BY <2>1
    <3>2. g[k][t] = t \div 256 /\ t \div 256 \in Int
      BY <3>1
    <3> QED BY <3>1, <3>2
  <2> HIDE DEF T, g, m
  <2>4. \E h \in [0..m -> Int] : Recurs(h, x, g, T, m)
    BY <2>1, <2>2, <2>3, Recursion
  <2> QED BY <2>4 DEF m
<1>2. PICK h \in [0..n - 1 -> Int] : Recurs(h, x, g, T, n - 1)
  BY <1>1
<1>3. h[0] = x /\ \A k \in 1..n - 1 : h[k] = h[k - 1] \div 256
  <2>1. h[0] = x /\ \A k \in 1..n - 1 : h[k] = g[k][h[k - 1]]
    BY <1>2 DEF Recurs
  <2>2. \A k \in 1..n - 1 : h[k - 1] \in Int
    <3> SUFFICES ASSUME NEW k \in 1..n - 1 PROVE h[k - 1] \in Int
      OBVIOUS
    <3>1. k - 1 \in 0..n - 1
      OBVIOUS
    <3> QED BY <3>1
  <2> QED BY <2>1, <2>2
<1> HIDE DEF T, g
<1> DEFINE f == [i \in 1..n |-> h[n - i]]
<1>4. f \in [1..n -> Int] /\ f[n] = x
  <2>1. \A i \in 1..n : n - i \in 0..n - 1
    OBVIOUS
  <2>2. n \in 1..n /\ n - n = 0
    OBVIOUS
  <2> QED BY <1>3, <2>1, <2>2
<1>5. \A i \in 1..n : i < n => f[i] = f[i + 1] \div 256
  <2> SUFFICES ASSUME NEW i \in 1..n, i < n PROVE f[i] = f[i + 1] \div 256
    OBVIOUS
  <2>1. n - i \in 1..n - 1 /\ n - i - 1 = n - (i + 1) /\ i + 1 \in 1..n
    OBVIOUS
  <2> QED BY <1>3, <2>1
<1> HIDE DEF f
<1>6. Is(f)
  <2>1. f = [i \in 1..n |-> f[i]]
    BY <1>4
  <2>2. \A i \in 1..n : f[i] = IF i = n THEN x ELSE f[i + 1] \div 256
    BY <1>4, <1>5
  <2> QED BY <2>1, <2>2
<1>7. Is(high)
  BY <1>6, Zenon
<1>8. NetworkOrder(x, n) = [i \in 1..n |-> high[i] % 256]
  BY DEF NetworkOrder
<1>9. \A i \in 1..n : high[i] = IF i = n THEN x ELSE high[i + 1] \div 256
  <2> DEFINE d == high
  <2>1. d = [i \in 1..n |-> IF i = n THEN x ELSE d[i + 1] \div 256]
    BY <1>7
  <2> HIDE DEF d
  <2>2. \A i \in 1..n : d[i] = IF i = n THEN x ELSE d[i + 1] \div 256
    BY <2>1, Zenon
  <2> QED BY <2>2 DEF d
<1> DEFINE d == high
           N == {k \in Nat : k <= n - 1 => d[n - k] = f[n - k]}
<1> HIDE DEF Is, high
<1>10. 0 \in N
  <2>1. n - 0 = n /\ n \in 1..n
    OBVIOUS
  <2> QED BY <1>4, <1>9, <2>1
<1>11. \A k \in Nat : k \in N => k + 1 \in N
  <2>1. ASSUME NEW k \in Nat, k <= n - 1 => d[n - k] = f[n - k], k + 1 <= n - 1
        PROVE  d[n - (k + 1)] = f[n - (k + 1)]
    <3> DEFINE i == n - (k + 1)
    <3>1. i \in 1..n /\ i < n /\ i # n /\ i + 1 = n - k /\ k <= n - 1
      BY <2>1
    <3> HIDE DEF i
    <3>2. d[i] = d[i + 1] \div 256
      BY <1>9, <3>1
    <3>3. f[i] = f[i + 1] \div 256
      BY <1>5, <3>1
    <3>4. d[i + 1] = f[i + 1]
      BY <2>1, <3>1
    <3> QED BY <3>2, <3>3, <3>4 DEF i
  <2> QED BY <2>1
<1>12. \A k \in Nat : k \in N
  <2> HIDE DEF N
  <2> QED BY <1>10, <1>11, Induction
<1>13. \A i \in 1..n : d[i] = f[i]
  <2> SUFFICES ASSUME NEW i \in 1..n PROVE d[i] = f[i]
    OBVIOUS
  <2>1. n - i \in Nat /\ n - i <= n - 1 /\ n - (n - i) = i
    OBVIOUS
  <2> DEFINE k == n - i
  <2>2. k \in Nat /\ k <= n - 1 /\ n - k = i
    BY <2>1
  <2> HIDE DEF k
  <2>3. d[n - k] = f[n - k]
    BY <1>12, <2>2
  <2> QED BY <2>2, <2>3
<1>14. [i \in 1..n |-> high[i] % 256] = [i \in 1..n |-> f[i] % 256]
  BY <1>13
<1>15. Quotients(f, x, n) /\ NetworkOrder(x, n) = Remainders(f, n)
  BY <1>4, <1>5, <1>8, <1>14 DEF Quotients, Remainders
<1> QED BY <1>15

(* Division with a remainder. *)
LEMMA Division ==
    ASSUME NEW y \in Int
    PROVE  /\ y \div 256 \in Int /\ y % 256 \in 0..255
           /\ y = 256 * (y \div 256) + (y % 256)
OBVIOUS

(* When the first quotient is a signed byte its sign is the number's.       *)
LEMMA HostOfNetwork ==
    ASSUME NEW n \in Nat, n >= 1, NEW x, NEW f, Quotients(f, x, n), f[1] \in -128..127,
           NEW bytes \in Seq(0..255), bytes = Remainders(f, n)
    PROVE  HostOrder(bytes) = x
<1> DEFINE first == IF bytes[1] < 128 THEN bytes[1] ELSE bytes[1] - 256
           Is(v) == v = [i \in DOMAIN bytes |-> IF i = 1 THEN first ELSE 256 * v[i - 1] + bytes[i]]
           value == CHOOSE v : Is(v)
<1>1. /\ DOMAIN bytes = 1..n /\ Len(bytes) = n
      /\ \A i \in 1..n : bytes[i] = f[i] % 256 /\ f[i] \in Int
      /\ f[n] = x
  BY DEF Quotients, Remainders
<1>2. HostOrder(bytes) = value[n]
  BY <1>1 DEF HostOrder
<1>3. first = f[1]
  <2> DEFINE y == f[1]
             z == bytes[1]
  <2>1. z = y % 256 /\ y \in -128..127
    BY <1>1
  <2> HIDE DEF y, z
  <2> DEFINE k == y \div 256
  <2>2. k \in Int /\ z \in 0..255 /\ y = 256 * k + z
    BY <2>1, Division
  <2> HIDE DEF k
  <2>3. (IF z < 128 THEN z ELSE z - 256) = y
    <3>1. k \in -1..0
      BY <2>1, <2>2
    <3> QED BY <2>1, <2>2, <3>1
  <2> QED BY <2>3 DEF y, z
<1> HIDE DEF first
<1>4. \A i \in 1..n : i # 1 => f[i] = 256 * f[i - 1] + bytes[i]
  <2> SUFFICES ASSUME NEW i \in 1..n, i # 1 PROVE f[i] = 256 * f[i - 1] + bytes[i]
    OBVIOUS
  <2> DEFINE k == i - 1
  <2>1. k \in 1..n /\ k < n /\ k + 1 = i
    OBVIOUS
  <2> HIDE DEF k
  <2>2. f[k] = f[i] \div 256
    BY <2>1 DEF Quotients
  <2>3. f[i] \in Int /\ bytes[i] = f[i] % 256
    BY <1>1
  <2>4. f[i] = 256 * (f[i] \div 256) + (f[i] % 256)
    BY <2>3, Division
  <2>5. f[i] = 256 * f[k] + bytes[i]
    BY <2>2, <2>3, <2>4
  <2> QED BY <2>5 DEF k
<1>5. Is(f)
  <2>1. f = [i \in 1..n |-> f[i]]
    BY DEF Quotients
  <2>2. \A i \in 1..n : f[i] = IF i = 1 THEN first ELSE 256 * f[i - 1] + bytes[i]
    BY <1>3, <1>4
  <2>3. f = [i \in 1..n |-> IF i = 1 THEN first ELSE 256 * f[i - 1] + bytes[i]]
    <3> DEFINE E(i) == IF i = 1 THEN first ELSE 256 * f[i - 1] + bytes[i]
    <3>1. \A i \in 1..n : f[i] = E(i)
      BY <2>2
    <3> HIDE DEF E
    <3>2. f = [i \in 1..n |-> E(i)]
      BY <2>1, <3>1
    <3> QED BY <3>2 DEF E
  <2> DEFINE D == DOMAIN bytes
  <2>4. D = 1..n
    BY <1>1
  <2> HIDE DEF D
  <2>5. f = [i \in D |-> IF i = 1 THEN first ELSE 256 * f[i - 1] + bytes[i]]
    BY <2>3, <2>4
  <2> QED BY <2>5 DEF D
<1> HIDE DEF Is
<1>6. Is(value)
  BY <1>5, Zenon
<1>7. \A i \in 1..n : value[i] = IF i = 1 THEN first ELSE 256 * value[i - 1] + bytes[i]
  <2> DEFINE d == value
  <2>1. d = [i \in DOMAIN bytes |-> IF i = 1 THEN first ELSE 256 * d[i - 1] + bytes[i]]
    BY <1>6 DEF Is
  <2> HIDE DEF d
  <2>2. \A i \in DOMAIN bytes : d[i] = IF i = 1 THEN first ELSE 256 * d[i - 1] + bytes[i]
    <3> DEFINE D == DOMAIN bytes
               e == [i \in D |-> IF i = 1 THEN first ELSE 256 * d[i - 1] + bytes[i]]
    <3> HIDE DEF D
    <3>1. \A i \in D : e[i] = IF i = 1 THEN first ELSE 256 * d[i - 1] + bytes[i]
      OBVIOUS
    <3>2. d = e
      BY <2>1 DEF D
    <3> HIDE DEF e
    <3>3. \A i \in D : d[i] = IF i = 1 THEN first ELSE 256 * d[i - 1] + bytes[i]
      BY <3>1, <3>2
    <3> QED BY <3>3 DEF D
  <2> QED BY <1>1, <2>2 DEF d
<1> DEFINE d == value
           N == {k \in Nat : k + 1 <= n => d[k + 1] = f[k + 1]}
<1> HIDE DEF Is, value
<1>8. 0 \in N
  BY <1>3, <1>7
<1>9. \A k \in Nat : k \in N => k + 1 \in N
  <2>1. ASSUME NEW k \in Nat, k + 1 <= n => d[k + 1] = f[k + 1], k + 1 + 1 <= n
        PROVE  d[k + 1 + 1] = f[k + 1 + 1]
    <3> DEFINE i == k + 1 + 1
    <3>1. i \in 1..n /\ i # 1 /\ i - 1 = k + 1 /\ k + 1 <= n
      BY <2>1
    <3> HIDE DEF i
    <3>2. d[i] = 256 * d[i - 1] + bytes[i]
      BY <1>7, <3>1
    <3>3. f[i] = 256 * f[i - 1] + bytes[i]
      BY <1>4, <3>1
    <3> QED BY <2>1, <3>1, <3>2, <3>3 DEF i
  <2> QED BY <2>1
<1>10. \A k \in Nat : k \in N
  <2> HIDE DEF N
  <2> QED BY <1>8, <1>9, Induction
<1>11. d[n] = f[n]
  <2> DEFINE k == n - 1
  <2>1. k \in Nat /\ k + 1 = n
    OBVIOUS
  <2> HIDE DEF k
  <2>2. d[k + 1] = f[k + 1]
    BY <1>10, <2>1
  <2> QED BY <2>1, <2>2
<1> QED BY <1>1, <1>2, <1>11

(* The helpers are for integers of these numbers of bytes.                *)
Widths == {1, 2, 4, 8}

(* The integers of n bytes go from -Half[n] to Half[n] - 1.                 *)
Half == [n \in Widths |->
    IF n = 1 THEN 128
    ELSE IF n = 2 THEN 128 * 256
    ELSE IF n = 4 THEN 128 * 256 * 256 * 256
    ELSE 128 * 256 * 256 * 256 * 256 * 256 * 256 * 256]

Signed(n) == {x \in Int : -Half[n] <= x /\ x < Half[n]}

(* A quotient has a byte less. *)
LEMMA ByteLess ==
    ASSUME NEW m \in Nat, NEW y \in Int, -(m * 256) <= y, y < m * 256
    PROVE  y \div 256 \in Int /\ -m <= y \div 256 /\ y \div 256 < m
<1> DEFINE q == y \div 256
           r == y % 256
<1>1. q \in Int /\ r \in 0..255 /\ y = 256 * q + r
  BY Division
<1> HIDE DEF q, r
<1>2. -m <= q /\ q < m
  BY <1>1
<1> QED BY <1>1, <1>2 DEF q

(* The first quotient of an integer of n bytes is a signed byte. *)
LEMMA TopByte ==
    ASSUME NEW n \in Widths, NEW x \in Signed(n), NEW f, Quotients(f, x, n)
    PROVE  f[1] \in -128..127
<1> DEFINE Fits(y, m) == y \in Int /\ -m <= y /\ y < m
<1>1. Fits(x, Half[n])
  BY DEF Signed
<1>2. f[n] = x /\ \A i \in 1..n : i < n => f[i] = f[i + 1] \div 256
  BY DEF Quotients
<1>3. ASSUME NEW m \in Nat, NEW y, Fits(y, m * 256) PROVE Fits(y \div 256, m)
  BY <1>3, ByteLess
<1>4. \A m \in Nat : m * 256 \in Nat
  OBVIOUS
<1> DEFINE m1 == 128
           m2 == m1 * 256
           m3 == m2 * 256
           m4 == m3 * 256
           m5 == m4 * 256
           m6 == m5 * 256
           m7 == m6 * 256
           m8 == m7 * 256
<1>5. /\ m1 \in Nat /\ m2 \in Nat /\ m3 \in Nat /\ m4 \in Nat /\ m5 \in Nat /\ m6 \in Nat
      /\ m7 \in Nat
  BY <1>4
<1>6. /\ n = 1 => Half[n] = m1
      /\ n = 2 => Half[n] = m2
      /\ n = 4 => Half[n] = m4
      /\ n = 8 => Half[n] = m8
  BY DEF Half
<1>0. n \in {1, 2, 4, 8}
  BY DEF Widths
<1> HIDE DEF Fits, m2, m3, m4, m5, m6, m7, m8
<1>7. n >= 2 /\ Fits(f[2], m2) => Fits(f[1], m1)
  <2>1. n >= 2 => f[1] = f[2] \div 256
    BY <1>2, <1>0
  <2> QED BY <1>3, <1>5, <2>1 DEF m2
<1>8. n >= 4 /\ Fits(f[4], m4) => Fits(f[2], m2)
  <2>1. n >= 4 => f[2] = f[3] \div 256 /\ f[3] = f[4] \div 256
    BY <1>2, <1>0
  <2>2. Fits(f[4], m4) => Fits(f[4] \div 256, m3)
    BY <1>3, <1>5 DEF m4
  <2>3. Fits(f[3], m3) => Fits(f[3] \div 256, m2)
    BY <1>3, <1>5 DEF m3
  <2> QED BY <2>1, <2>2, <2>3
<1>9. n = 8 /\ Fits(f[8], m8) => Fits(f[4], m4)
  <2>1. n = 8 => /\ f[4] = f[5] \div 256 /\ f[5] = f[6] \div 256
                 /\ f[6] = f[7] \div 256 /\ f[7] = f[8] \div 256
    BY <1>2
  <2>2. Fits(f[8], m8) => Fits(f[8] \div 256, m7)
    BY <1>3, <1>5 DEF m8
  <2>3. Fits(f[7], m7) => Fits(f[7] \div 256, m6)
    BY <1>3, <1>5 DEF m7
  <2>4. Fits(f[6], m6) => Fits(f[6] \div 256, m5)
    BY <1>3, <1>5 DEF m6
  <2>5. Fits(f[5], m5) => Fits(f[5] \div 256, m4)
    BY <1>3, <1>5 DEF m5
  <2> QED BY <2>1, <2>2, <2>3, <2>4, <2>5
<1>10. Fits(f[1], m1)
  BY <1>1, <1>2, <1>6, <1>7, <1>8, <1>9, <1>0
<1> QED BY <1>10 DEF Fits

(* An integer written most significant byte first is read as it was, with   *)
(* its sign (Endian.h). *)
THEOREM IntegersKeepTheirSign ==
    ASSUME NEW n \in Widths, NEW x \in Signed(n)
    PROVE  /\ NetworkOrder(x, n) \in Seq(0..255) /\ Len(NetworkOrder(x, n)) = n
           /\ HostOrder(NetworkOrder(x, n)) = x
<1>1. n \in Nat /\ n >= 1 /\ x \in Int
  BY DEF Signed, Widths
<1>2. PICK f : Quotients(f, x, n) /\ NetworkOrder(x, n) = Remainders(f, n)
  BY <1>1, NetworkBytes
<1> DEFINE bytes == NetworkOrder(x, n)
<1>3. bytes \in [1..n -> 0..255]
  <2>1. \A i \in 1..n : f[i] % 256 \in 0..255
    <3> SUFFICES ASSUME NEW i \in 1..n PROVE f[i] % 256 \in 0..255
      OBVIOUS
    <3>1. f[i] \in Int
      BY <1>2 DEF Quotients
    <3> QED BY <3>1, Division
  <2>2. Remainders(f, n) \in [1..n -> 0..255]
    BY <2>1 DEF Remainders
  <2> QED BY <1>2, <2>2
<1>4. bytes \in Seq(0..255) /\ Len(bytes) = n
  BY <1>1, <1>3, SeqDef
<1>5. f[1] \in -128..127
  BY <1>2, TopByte
<1>6. bytes = Remainders(f, n)
  BY <1>2
<1> HIDE DEF bytes
<1>7. HostOrder(bytes) = x
  BY <1>1, <1>2, <1>4, <1>5, <1>6, HostOfNetwork
<1> QED BY <1>4, <1>7 DEF bytes

(* What comes first is what is peeked at, and the rest stays when it is     *)
(* taken off. *)
LEMMA FrontIsRead ==
    ASSUME NEW S, Unset \notin S, NEW b \in Buffers(S), WellFormed(b),
           NEW s \in Seq(S), NEW r \in Seq(S), Readable(b) = s \o r
    PROVE  /\ SubSeq(b.cells, b.reader + 1, b.reader + Len(s)) = s
           /\ Readable(Retrieve(b, Len(s))) = r
           /\ Retrieve(b, Len(s)) \in Buffers(S) /\ WellFormed(Retrieve(b, Len(s)))
<1> DEFINE n == Len(s)
           m == Len(r)
           q == s \o r
<1>1. n \in Nat /\ m \in Nat
  OBVIOUS
<1>2. /\ q \in Seq(S) /\ Len(q) = n + m
      /\ \A i \in 1..n + m : q[i] = IF i <= n THEN s[i] ELSE r[i - n]
  BY ConcatProperties
<1>3. /\ ReadableBytes(b) = n + m
      /\ \A i \in 1..n + m : q[i] = b.cells[b.reader + i]
  BY <1>2, ReadableCells
<1>4. b.reader \in Nat
  BY DEF Buffers
<1> HIDE DEF q
<1>5. \A i \in 1..n : b.cells[b.reader + i] = s[i] /\ s[i] \in S
  <2> SUFFICES ASSUME NEW i \in 1..n PROVE b.cells[b.reader + i] = s[i] /\ s[i] \in S
    OBVIOUS
  <2>1. i \in 1..n + m /\ i <= n
    BY <1>1
  <2>2. s[i] \in S
    BY ElementOfSeq
  <2> QED BY <1>2, <1>3, <2>1, <2>2
<1>6. SubSeq(b.cells, b.reader + 1, b.reader + n) = s
  <2> DEFINE lo == b.reader + 1
             hi == b.reader + n
             t == SubSeq(b.cells, lo, hi)
  <2>1. lo \in Int /\ hi \in Int /\ hi - lo + 1 = n /\ (IF lo <= hi THEN hi - lo + 1 ELSE 0) = n
    BY <1>1, <1>4
  <2>2. \A i \in lo..hi : b.cells[i] \in S
    <3> SUFFICES ASSUME NEW i \in lo..hi PROVE b.cells[i] \in S
      OBVIOUS
    <3> DEFINE k == i - b.reader
    <3>1. k \in 1..n /\ b.reader + k = i
      BY <1>1, <1>4
    <3> HIDE DEF k
    <3> QED BY <1>5, <3>1
  <2>3. \A i \in 1..n : lo + i - 1 = b.reader + i
    BY <1>1, <1>4
  <2> HIDE DEF lo, hi
  <2>4. t \in Seq(S) /\ Len(t) = n /\ \A i \in 1..n : t[i] = b.cells[lo + i - 1]
    BY <2>1, <2>2, SubSeqProperties
  <2> HIDE DEF t
  <2>5. \A i \in 1..n : t[i] = s[i]
    BY <1>5, <2>3, <2>4
  <2>6. t = s
    BY <2>4, <2>5, SeqEqual
  <2> QED BY <2>6 DEF t, lo, hi
<1>7. /\ Retrieve(b, n) \in Buffers(S) /\ WellFormed(Retrieve(b, n))
      /\ Readable(Retrieve(b, n)) = SubSeq(q, n + 1, n + m)
  BY <1>1, <1>3, RetrieveTakesFromFront DEF q
<1>8. SubSeq(q, n + 1, n + m) = r
  <2> DEFINE lo == n + 1
             hi == n + m
             t == SubSeq(q, lo, hi)
  <2>1. lo \in Int /\ hi \in Int /\ hi - lo + 1 = m /\ (IF lo <= hi THEN hi - lo + 1 ELSE 0) = m
    BY <1>1
  <2>2. \A i \in lo..hi : q[i] \in S
    <3> SUFFICES ASSUME NEW i \in lo..hi PROVE q[i] \in S
      OBVIOUS
    <3>1. i \in 1..n + m
      BY <1>1
    <3> QED BY <1>2, <3>1, ElementOfSeq
  <2>3. \A i \in 1..m : lo + i - 1 = n + i
    BY <1>1
  <2> HIDE DEF lo, hi
  <2>4. t \in Seq(S) /\ Len(t) = m /\ \A i \in 1..m : t[i] = q[lo + i - 1]
    BY <2>1, <2>2, SubSeqProperties
  <2> HIDE DEF t
  <2>5. \A i \in 1..m : t[i] = r[i]
    <3> SUFFICES ASSUME NEW i \in 1..m PROVE t[i] = r[i]
      OBVIOUS
    <3> DEFINE k == n + i
    <3>1. k \in 1..n + m /\ ~(k <= n) /\ k - n = i
      BY <1>1
    <3>2. t[i] = q[k]
      BY <2>3, <2>4
    <3> HIDE DEF k, n, m
    <3> QED BY <1>2, <3>1, <3>2
  <2>6. t = r
    BY <2>4, <2>5, SeqEqual
  <2> QED BY <2>6 DEF t, lo, hi
<1> QED BY <1>6, <1>7, <1>8

(* Integers of any size put in front of what a buffer holds, where there is *)
(* room, or behind it are read as they were, and when they are taken off    *)
(* again, with retrieve or unwrite, the rest is as before (Buffer.h:210,    *)
(* 230-345, Endian.h).                                                      *)
THEOREM IntegersAreReadBack ==
    ASSUME NEW S, Unset \notin S, 0..255 \subseteq S, NEW b \in Buffers(S), WellFormed(b),
           NEW n \in Widths, NEW x \in Signed(n)
    PROVE  /\ n <= PrependableBytes(b) =>
                LET read == ReadInt(PrependInt(b, x, n), n)
                IN  read.value = x /\ Readable(read.rest) = Readable(b)
           /\ LET e == AppendInt(b, x, n)
              IN  /\ ReadInt(Retrieve(e, ReadableBytes(e) - n), n).value = x
                  /\ Readable(Unwrite(e, n)) = Readable(b)
<1> DEFINE s == NetworkOrder(x, n)
           r == Readable(b)
<1>1. s \in Seq(S) /\ Len(s) = n /\ HostOrder(s) = x /\ n \in Nat
  <2>1. s \in Seq(0..255) /\ Len(s) = n /\ HostOrder(s) = x
    BY IntegersKeepTheirSign
  <2>2. n \in Nat
    BY DEF Widths
  <2> DEFINE B == 0..255
  <2> HIDE DEF s, B
  <2>3. s \in Seq(S)
    <3>1. s \in Seq(B) /\ B \subseteq S /\ Len(s) = n
      BY <2>1 DEF B
    <3>2. s \in [1..n -> B]
      BY <3>1, LenProperties
    <3>3. s \in [1..n -> S]
      BY <3>1, <3>2
    <3> QED BY <2>2, <3>3, SeqDef
  <2> QED BY <2>1, <2>2, <2>3
<1>2. r \in Seq(S) /\ Len(r) \in Nat
  BY ReadableCells
<1> HIDE DEF s, r
<1>3. ASSUME n <= PrependableBytes(b)
      PROVE  LET read == ReadInt(PrependInt(b, x, n), n)
             IN  read.value = x /\ Readable(read.rest) = r
  <2> DEFINE e == Prepend(b, s)
  <2>1. e \in Buffers(S) /\ WellFormed(e) /\ Readable(e) = s \o r
    BY <1>1, <1>3, PrependPutsInFront DEF r
  <2>2. PrependInt(b, x, n) = e
    BY DEF PrependInt, s
  <2> HIDE DEF e
  <2>3. /\ SubSeq(e.cells, e.reader + 1, e.reader + Len(s)) = s
        /\ Readable(Retrieve(e, Len(s))) = r
    BY <1>1, <1>2, <2>1, FrontIsRead
  <2> QED BY <1>1, <2>2, <2>3 DEF ReadInt, PeekInt, RetrieveInt
<1> DEFINE e == AppendInt(b, x, n)
<1>4. e \in Buffers(S) /\ WellFormed(e) /\ Readable(e) = r \o s
  <2>1. e = AppendTo(b, s)
    BY DEF AppendInt, s
  <2> HIDE DEF e
  <2> QED BY <1>1, <2>1, AppendAddsAtTheEnd DEF r
<1> HIDE DEF e
<1>5. /\ Len(r \o s) = Len(r) + n
      /\ \A i \in 1..Len(r) : (r \o s)[i] = r[i]
  <2>1. /\ Len(r \o s) = Len(r) + Len(s)
        /\ \A i \in 1..Len(r) + Len(s) : (r \o s)[i] = IF i <= Len(r) THEN r[i] ELSE s[i - Len(r)]
    BY <1>1, <1>2, ConcatProperties
  <2> DEFINE q == r \o s
  <2> HIDE DEF q
  <2>2. \A i \in 1..Len(r) : q[i] = r[i]
    <3> SUFFICES ASSUME NEW i \in 1..Len(r) PROVE q[i] = r[i]
      OBVIOUS
    <3>1. i \in 1..Len(r) + Len(s) /\ i <= Len(r)
      BY <1>1, <1>2
    <3> QED BY <2>1, <3>1 DEF q
  <2> QED BY <1>1, <2>1, <2>2 DEF q
<1>6. /\ ReadableBytes(e) = Len(r) + n
      /\ \A i \in 1..Len(r) + n : (r \o s)[i] = e.cells[e.reader + i]
  <2> DEFINE q == r \o s
  <2> HIDE DEF q
  <2>1. Readable(e) = q /\ Len(q) = Len(r) + n
    BY <1>4, <1>5 DEF q
  <2>2. /\ ReadableBytes(e) = Len(r) + n
        /\ \A i \in 1..Len(r) + n : q[i] = e.cells[e.reader + i]
    BY <1>4, <2>1, ReadableCells
  <2> QED BY <2>2 DEF q
<1>7. ReadInt(Retrieve(e, ReadableBytes(e) - n), n).value = x
  <2> DEFINE d == Retrieve(e, Len(r))
  <2>1. ReadableBytes(e) - n = Len(r)
    BY <1>1, <1>2, <1>6
  <2>2. d \in Buffers(S) /\ WellFormed(d) /\ Readable(d) = s
    BY <1>1, <1>2, <1>4, FrontIsRead
  <2> HIDE DEF d
  <2>3. s = s \o <<>> /\ <<>> \in Seq(S)
    BY <1>1, ConcatEmptySeq
  <2>4. SubSeq(d.cells, d.reader + 1, d.reader + Len(s)) = s
    <3> DEFINE z == <<>>
    <3>1. d \in Buffers(S) /\ WellFormed(d) /\ z \in Seq(S) /\ Readable(d) = s \o z
      BY <2>2, <2>3
    <3> HIDE DEF z
    <3> QED BY <1>1, <3>1, FrontIsRead
  <2>5. ReadInt(d, n).value = x
    BY <1>1, <2>4 DEF ReadInt, PeekInt
  <2> QED BY <2>1, <2>5 DEF d
<1>8. Readable(Unwrite(e, n)) = r
  <2> DEFINE u == Unwrite(e, n)
             m == Len(r)
  <2>1. /\ e.reader \in Nat /\ e.writer \in Nat /\ e.writer - e.reader = m + n /\ m \in Nat
        /\ e.writer <= Len(e.cells) /\ CheapPrepend <= Len(e.cells) /\ Len(e.cells) \in Nat
    BY <1>2, <1>4, <1>6 DEF Buffers, WellFormed, ReadableBytes
  <2>2. u = [e EXCEPT !.writer = e.writer - n]
    BY DEF Unwrite
  <2>3. /\ u.cells = e.cells /\ u.reader = e.reader /\ u.writer = e.writer - n
        /\ e.writer - n \in Nat /\ u.writer = u.reader + m /\ u.writer <= Len(u.cells)
    <3>1. u.cells = e.cells /\ u.reader = e.reader /\ u.writer = e.writer - n
      BY <1>4, <2>2 DEF Buffers
    <3> DEFINE w == e.writer
               d == e.reader
               k == Len(e.cells)
    <3>2. n \in Nat /\ w \in Nat /\ d \in Nat /\ k \in Nat /\ m \in Nat /\ w - d = m + n /\ w <= k
      BY <1>1, <2>1
    <3> HIDE DEF u, m, w, d, k
    <3>3. w - n \in Nat /\ w - n = d + m /\ w - n <= k
      BY <3>2
    <3> QED BY <3>1, <3>3 DEF w, d, k
  <2>4. u \in Buffers(S)
    BY <1>4, <2>2, <2>3 DEF Buffers
  <2>5. \A i \in 1..m : u.cells[u.reader + i] = r[i]
    <3> SUFFICES ASSUME NEW i \in 1..m PROVE u.cells[u.reader + i] = r[i]
      OBVIOUS
    <3>1. i \in 1..m + n
      BY <1>1, <2>1
    <3> HIDE DEF u
    <3> QED BY <1>5, <1>6, <2>3, <3>1
  <2> HIDE DEF u
  <2>6. CheapPrepend <= Len(u.cells)
    BY <2>1, <2>3
  <2>7. Readable(u) = r
    BY <1>2, <2>3, <2>4, <2>5, <2>6, ReadableIs
  <2> QED BY <2>7 DEF u
<1> QED BY <1>3, <1>7, <1>8 DEF e, r

-----------------------------------------------------------------------------
(* What the buffer of a connection holds.                                   *)

(* The integers TLC tries have the size they are written in. *)
LEMMA ExtremesAre ==
    /\ DOMAIN Extremes = Widths
    /\ \A n \in Widths : Extremes[n] \subseteq Signed(n)
<1>1. DOMAIN Extremes = Widths
  BY DEF Extremes, Widths
<1>2. Extremes[1] \subseteq Signed(1)
  BY DEF Extremes, Signed, Half, Widths
<1>3. Extremes[2] \subseteq Signed(2)
  BY DEF Extremes, Signed, Half, Widths
<1>4. Extremes[4] \subseteq Signed(4)
  BY DEF Extremes, Signed, Half, Widths
<1>5. Extremes[8] \subseteq Signed(8)
  <2>1. \A x \in Extremes[8] : x \in Int /\ -2147483647 - 1 <= x /\ x <= 2147483647
    BY DEF Extremes
  <2> DEFINE m4 == 128 * 256 * 256 * 256
             m5 == m4 * 256
             m6 == m5 * 256
             m7 == m6 * 256
             m8 == m7 * 256
  <2>2. m4 \in Int /\ m4 > 2147483647
    OBVIOUS
  <2>3. Half[8] = m8
    BY DEF Half, Widths
  <2> HIDE DEF m4
  <2>4. m5 \in Int /\ m5 > 2147483647
    BY <2>2
  <2> HIDE DEF m5
  <2>5. m6 \in Int /\ m6 > 2147483647
    BY <2>4
  <2> HIDE DEF m6
  <2>6. m7 \in Int /\ m7 > 2147483647
    BY <2>5
  <2> HIDE DEF m7
  <2>7. m8 \in Int /\ m8 > 2147483647
    BY <2>6
  <2> HIDE DEF m8
  <2> QED BY <2>1, <2>3, <2>7 DEF Signed
<1> QED BY <1>1, <1>2, <1>3, <1>4, <1>5 DEF Widths

(* The connection's buffer holds the units read and not consumed, whole and *)
(* in order, through every move and growth, and would after a shrink; and   *)
(* integers written to it are read back (Buffer.h:117-128, 190-212,         *)
(* 230-363, 386-408, Buffer.cc:24-55).                                      *)
THEOREM BufferHoldsTheRest == Spec => []BufferInv
<1>1. ASSUME HttpInv PROVE BufferInv
  <2>1. /\ client \in Streams /\ arrived \in 0..Len(Stream) /\ arrived \in Nat
        /\ buf \in Buffers(UnitSet) /\ WellFormed(buf)
    BY <1>1, StreamIs DEF HttpInv, TypesInv
  <2>2. PICK p \in 0..arrived \div 2 : Consumed(buf, p, arrived)
    BY <1>1 DEF HttpInv
  <2>3. Readable(buf) = SubSeq(Stream, arrived - ReadableBytes(buf) + 1, arrived)
    <3>1. ReadableBytes(buf) = arrived - 2 * p
      BY <2>1, <2>2, FirstLine
    <3>2. arrived - (arrived - 2 * p) + 1 = 2 * p + 1
      BY <2>1, <2>2
    <3> QED BY <2>2, <3>1, <3>2 DEF Consumed
  <2>4. \A reserve \in 0..2 : Readable(Shrink(buf, reserve)) = Readable(buf)
    BY <2>1, UnitsAreSet, ShrinkKeepsBytes
  <2>5. IntegersReadBack
    <3> DEFINE B == 0..255
               S == UnitSet \union B
    <3>1. Unset \notin S /\ B \subseteq S
      BY UnsetAssumption DEF UnitSet
    <3>2. buf \in Buffers(S)
      <4> DEFINE U == UnitSet \union {Unset}
                 V == S \union {Unset}
      <4>1. U \subseteq V
        OBVIOUS
      <4> HIDE DEF U, V
      <4>2. buf \in [cells : Seq(U), reader : Nat, writer : Nat]
        BY <2>1 DEF Buffers, U
      <4>3. buf \in [cells : Seq(V), reader : Nat, writer : Nat]
        BY <4>1, <4>2
      <4> QED BY <4>3 DEF Buffers, V
    <3> HIDE DEF S
    <3>3. ASSUME NEW n \in Widths, NEW x \in Signed(n)
          PROVE  /\ n <= PrependableBytes(buf) =>
                      LET read == ReadInt(PrependInt(buf, x, n), n)
                      IN  read.value = x /\ Readable(read.rest) = Readable(buf)
                 /\ LET e == AppendInt(buf, x, n)
                    IN  /\ ReadInt(Retrieve(e, ReadableBytes(e) - n), n).value = x
                        /\ Readable(Unwrite(e, n)) = Readable(buf)
      BY <2>1, <3>1, <3>2, IntegersAreReadBack
    <3> QED BY <3>3, ExtremesAre DEF IntegersReadBack
  <2> QED BY <2>1, <2>3, <2>4, <2>5 DEF BufferInv
<1> QED BY <1>1, HttpInvariance, PTL
=============================================================================
