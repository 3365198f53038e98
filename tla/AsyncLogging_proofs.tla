-------------------------- MODULE AsyncLogging_proofs --------------------------
(***************************************************************************)
(* AsyncLogging, for any number of lines of any sizes, any sizes of        *)
(* buffers, records and files, and any clock: the front end is given a     *)
(* buffer whenever it needs one, lines stay in order on their way through  *)
(* buffers and files, gaps are announced, records are whole and fit, and   *)
(* files are rolled and flushed as they should.                            *)
(*                                                                         *)
(* Inductions are over sets of natural numbers, by their least element.    *)
(***************************************************************************)
EXTENDS AsyncLogging, FiniteSetTheorems, SequenceTheorems, TLAPS

(* A set of numbers that is not empty has a least one: the intervals from 0 *)
(* are well-founded by inclusion below any member. *)
LEMMA LeastNatural ==
    ASSUME NEW S \in SUBSET Nat, S # {}
    PROVE  \E m \in S : \A n \in S : m <= n
<1>1. PICK x \in S : TRUE
  OBVIOUS
<1> DEFINE below == {0..n : n \in {k \in S : k <= x}}
<1>2. IsFiniteSet(0..x)
  BY FS_Interval
<1>3. 0..x \in below
  BY <1>1
<1>4. below \subseteq FiniteSubsetsOf(0..x)
  <2>1. \A n \in {k \in S : k <= x} : 0..n \subseteq 0..x
    OBVIOUS
  <2>2. \A n \in {k \in S : k <= x} : IsFiniteSet(0..n)
    BY FS_Interval
  <2> QED BY <2>1, <2>2 DEF FiniteSubsetsOf
<1>5. PICK b \in below : \A c \in below : <<c, b>> \notin StrictSubsetOrdering(0..x)
  <2> HIDE DEF below
  <2>1. IsWellFoundedOn(StrictSubsetOrdering(0..x), FiniteSubsetsOf(0..x))
    BY FS_StrictSubsetOrderingWellFounded
  <2> QED BY <1>3, <1>4, <2>1, WFMin
<1>6. PICK m \in {k \in S : k <= x} : b = 0..m
  BY <1>5
<1>7. ASSUME NEW n \in S PROVE m <= n
  <2> SUFFICES ASSUME n < m PROVE FALSE
    OBVIOUS
  <2>1. 0..n \in below
    BY <1>6
  <2>2. <<0..n, b>> \in StrictSubsetOrdering(0..x)
    <3>1. 0..n \subseteq 0..x /\ b \subseteq 0..x
      BY <1>6
    <3>2. m \in b /\ m \notin 0..n /\ 0..n \subseteq b
      BY <1>6
    <3> QED BY <3>1, <3>2 DEF StrictSubsetOrdering
  <2> QED BY <1>5, <2>1, <2>2
<1> QED BY <1>6, <1>7

(* Induction over the natural numbers, for a set of them. *)
LEMMA Induction ==
    ASSUME NEW N, 0 \in N, \A n \in Nat : n \in N => n + 1 \in N
    PROVE  \A n \in Nat : n \in N
<1> SUFFICES ASSUME Nat \ N # {} PROVE FALSE
  OBVIOUS
<1>1. PICK m \in Nat \ N : \A n \in Nat \ N : m <= n
  BY LeastNatural
<1>2. m # 0 /\ m - 1 \in Nat /\ m - 1 \in N
  BY <1>1
<1> QED BY <1>1, <1>2

-----------------------------------------------------------------------------
(* FlattenSeq.                                                              *)

Prefix(ss, f, i) == IF i = 1 THEN ss[i] ELSE f[i - 1] \o ss[i]

Flat(ss, n, f) == \A i \in 1..n : f[i] = Prefix(ss, f, i)

(* There is a function of the partial concatenations, by induction over their number. *)
LEMMA FlatExists ==
    ASSUME NEW S, NEW ss \in Seq(Seq(S))
    PROVE  \E f \in [1..Len(ss) -> Seq(S)] : Flat(ss, Len(ss), f)
<1> DEFINE N == {n \in Nat : n <= Len(ss) =>
                    \E f \in [1..n -> Seq(S)] : Flat(ss, n, f)}
<1>1. 0 \in N
  <2>1. [i \in 1..0 |-> <<>>] \in [1..0 -> Seq(S)]
    OBVIOUS
  <2>2. Flat(ss, 0, [i \in 1..0 |-> <<>>])
    BY DEF Flat
  <2> QED BY <2>1, <2>2
<1>2. ASSUME NEW n \in Nat, n \in N, n + 1 <= Len(ss)
      PROVE  \E f \in [1..n + 1 -> Seq(S)] : Flat(ss, n + 1, f)
  <2>1. PICK f \in [1..n -> Seq(S)] : Flat(ss, n, f)
    BY <1>2
  <2> DEFINE g == [i \in 1..n + 1 |->
                    IF i <= n THEN f[i] ELSE Prefix(ss, f, i)]
  <2>2. ASSUME NEW i \in 1..n + 1 PROVE g[i] \in Seq(S)
    <3>1. CASE i <= n
      BY <3>1
    <3>2. CASE i = n + 1 /\ i = 1
      BY <1>2, <3>2 DEF Prefix
    <3>3. CASE i = n + 1 /\ i # 1
      <4>1. ss[i] \in Seq(S) /\ f[i - 1] \in Seq(S)
        BY <1>2, <3>3
      <4>2. Prefix(ss, f, i) \in Seq(S)
        BY <3>3, <4>1 DEF Prefix
      <4> QED BY <3>3, <4>2
    <3> QED BY <3>1, <3>2, <3>3
  <2>3. ASSUME NEW i \in 1..n + 1
        PROVE  g[i] = Prefix(ss, g, i)
    <3>0. (\A j \in 1..n : g[j] = f[j]) /\ g[n + 1] = Prefix(ss, f, n + 1)
      OBVIOUS
    <3> HIDE DEF g
    <3>1. CASE i <= n
      <4>1. f[i] = Prefix(ss, f, i)
        BY <2>1, <3>1 DEF Flat
      <4>2. g[i] = f[i] /\ (i # 1 => g[i - 1] = f[i - 1])
        BY <3>0, <3>1
      <4> QED BY <4>1, <4>2 DEF Prefix
    <3>2. CASE i = n + 1
      <4>1. i # 1 => g[i - 1] = f[i - 1]
        BY <3>0, <3>2
      <4> QED BY <3>0, <3>2, <4>1 DEF Prefix
    <3> QED BY <3>1, <3>2
  <2>4. g \in [1..n + 1 -> Seq(S)]
    BY <2>2
  <2> HIDE DEF g
  <2> QED BY <2>3, <2>4 DEF Flat
<1>3. \A n \in Nat : n \in N => n + 1 \in N
  BY <1>2
<1> HIDE DEF N
<1>4. Len(ss) \in N
  BY <1>1, <1>3, Induction
<1> QED BY <1>4 DEF N

(* And only one. *)
LEMMA FlatUnique ==
    ASSUME NEW ss, NEW k \in Nat, NEW f, NEW g, Flat(ss, k, f), Flat(ss, k, g)
    PROVE  \A i \in 1..k : f[i] = g[i]
<1> DEFINE N == {n \in Nat : n \in 1..k => f[n] = g[n]}
<1>1. 0 \in N
  OBVIOUS
<1>2. ASSUME NEW n \in Nat, n \in N, n + 1 \in 1..k PROVE f[n + 1] = g[n + 1]
  <2>1. f[n + 1] = Prefix(ss, f, n + 1) /\ g[n + 1] = Prefix(ss, g, n + 1)
    BY <1>2 DEF Flat
  <2>2. n = 0 \/ (n \in 1..k /\ n + 1 - 1 = n)
    BY <1>2
  <2>3. n + 1 # 1 => f[n + 1 - 1] = g[n + 1 - 1]
    BY <1>2, <2>2
  <2> QED BY <2>1, <2>3 DEF Prefix
<1>3. \A n \in Nat : n \in N => n + 1 \in N
  BY <1>2
<1> HIDE DEF N
<1>4. \A n \in Nat : n \in N
  BY <1>1, <1>3, Induction
<1> QED BY <1>4 DEF N

(* Nothing concatenated is nothing. *)
LEMMA FlattenEmpty == FlattenSeq(<<>>) = <<>>
BY DEF FlattenSeq

(* What FlattenSeq's recursive function is at each place. *)
LEMMA FlattenIs ==
    ASSUME NEW S, NEW ss \in Seq(Seq(S)), ss # <<>>, NEW f, Flat(ss, Len(ss), f)
    PROVE  FlattenSeq(ss) = f[Len(ss)]
<1> DEFINE IsIt(g) ==
        g = [i \in 1..Len(ss) |-> Prefix(ss, g, i)]
<1>1. Len(ss) \in 1..Len(ss) /\ Len(ss) # 0
  OBVIOUS
<1>2. FlattenSeq(ss) = (CHOOSE g : IsIt(g))[Len(ss)]
  BY <1>1 DEF FlattenSeq, Prefix
<1>3. \E g : IsIt(g)
  <2>1. PICK g \in [1..Len(ss) -> Seq(S)] : Flat(ss, Len(ss), g)
    BY FlatExists
  <2>2. g = [i \in 1..Len(ss) |-> g[i]]
    OBVIOUS
  <2> QED BY <2>1, <2>2 DEF Flat
<1>4. PICK h : IsIt(h) /\ h = (CHOOSE g : IsIt(g))
  BY <1>3, Zenon
<1>5. Flat(ss, Len(ss), h)
  BY <1>4 DEF Flat
<1> HIDE DEF IsIt
<1>6. h[Len(ss)] = f[Len(ss)]
  BY <1>1, <1>5, FlatUnique
<1> QED BY <1>2, <1>4, <1>6

(* One sequence more is concatenated last. *)
LEMMA FlattenAppend ==
    ASSUME NEW S, NEW ss \in Seq(Seq(S)), NEW s \in Seq(S)
    PROVE  /\ FlattenSeq(Append(ss, s)) = FlattenSeq(ss) \o s
           /\ FlattenSeq(ss) \in Seq(S)
<1> DEFINE n == Len(ss)
           tt == Append(ss, s)
<1>1. /\ tt \in Seq(Seq(S)) /\ Len(tt) = n + 1 /\ tt[n + 1] = s
      /\ n + 1 \in 1..Len(tt)
  OBVIOUS
<1> HIDE DEF tt
<1>0. tt # <<>>
  BY <1>1
<1>2. PICK f \in [1..Len(tt) -> Seq(S)] : Flat(tt, Len(tt), f)
  BY <1>1, FlatExists
<1>3. FlattenSeq(tt) = f[n + 1]
  BY <1>0, <1>1, <1>2, FlattenIs
<1>4. Flat(ss, n, f)
  <2>1. ASSUME NEW i \in 1..n
        PROVE  f[i] = Prefix(ss, f, i)
    <3>1. i \in 1..Len(tt) /\ tt[i] = ss[i]
      BY <1>1 DEF tt
    <3> QED BY <1>2, <3>1 DEF Flat, Prefix
  <2> QED BY <2>1 DEF Flat
<1>5. f[n + 1] = Prefix(tt, f, n + 1)
  BY <1>1, <1>2 DEF Flat
<1> HIDE DEF n
<1>6. CASE n = 0
  <2>1. ss = <<>>
    BY <1>6 DEF n
  <2>2. FlattenSeq(ss) = <<>>
    BY <2>1, FlattenEmpty
  <2>3. FlattenSeq(tt) = s
    BY <1>1, <1>3, <1>5, <1>6 DEF Prefix
  <2>4. <<>> \o s = s /\ <<>> \in Seq(S)
    OBVIOUS
  <2> QED BY <2>2, <2>3, <2>4 DEF tt
<1>7. CASE n # 0
  <2>1. ss # <<>>
    BY <1>7 DEF n
  <2>2. FlattenSeq(ss) = f[n]
    BY <1>4, <2>1, FlattenIs DEF n
  <2>3. n + 1 - 1 = n /\ n + 1 # 1 /\ n \in 1..Len(tt)
    BY <1>1, <1>7 DEF n
  <2>4. FlattenSeq(tt) = FlattenSeq(ss) \o s
    BY <1>1, <1>3, <1>5, <2>2, <2>3 DEF Prefix
  <2>5. f[n] \in Seq(S)
    BY <1>2, <2>3
  <2> QED BY <2>2, <2>4, <2>5 DEF tt
<1> QED BY <1>6, <1>7

(* A sequence that is not empty is what precedes its last, and that. *)
LEMMA FrontLast ==
    ASSUME NEW S, NEW ss \in Seq(S), ss # <<>>
    PROVE  \E tt \in Seq(S), s \in S : ss = Append(tt, s) /\ Len(tt) = Len(ss) - 1
<1> DEFINE tt == SubSeq(ss, 1, Len(ss) - 1)
<1>0. Len(ss) \in Nat /\ Len(ss) > 0 /\ \A i \in 1..Len(ss) : ss[i] \in S
  OBVIOUS
<1>1. tt \in Seq(S) /\ Len(tt) = Len(ss) - 1 /\ ss[Len(ss)] \in S
  <2> DEFINE k == Len(ss) - 1
  <2>1. k \in Nat /\ \A i \in 1..k : ss[i] \in S
    BY <1>0
  <2> HIDE DEF k
  <2>2. SubSeq(ss, 1, k) \in Seq(S) /\ Len(SubSeq(ss, 1, k)) = IF 1 <= k THEN k - 1 + 1 ELSE 0
    BY <2>1, SubSeqProperties
  <2>3. Len(SubSeq(ss, 1, k)) = k
    BY <2>1, <2>2
  <2>4. ss[Len(ss)] \in S
    BY <1>0
  <2> QED BY <2>2, <2>3, <2>4 DEF k
<1>2. ss = Append(tt, ss[Len(ss)])
  <2>1. Append(tt, ss[Len(ss)]) \in Seq(S) /\ Len(Append(tt, ss[Len(ss)])) = Len(ss)
    BY <1>1
  <2>2. ASSUME NEW i \in 1..Len(ss) PROVE ss[i] = Append(tt, ss[Len(ss)])[i]
    BY <1>1, <2>2
  <2> QED BY <2>1, <2>2, SeqEqual
<1> QED BY <1>1, <1>2

(* Two sequences of sequences are concatenated one after the other. *)
LEMMA FlattenConcat ==
    ASSUME NEW S, NEW ss \in Seq(Seq(S)), NEW tt \in Seq(Seq(S))
    PROVE  FlattenSeq(ss \o tt) = FlattenSeq(ss) \o FlattenSeq(tt)
<1> DEFINE N == {n \in Nat : \A uu \in Seq(Seq(S)) : Len(uu) = n =>
                    FlattenSeq(ss \o uu) = FlattenSeq(ss) \o FlattenSeq(uu)}
<1>1. 0 \in N
  <2> SUFFICES ASSUME NEW uu \in Seq(Seq(S)), Len(uu) = 0
               PROVE  FlattenSeq(ss \o uu) = FlattenSeq(ss) \o FlattenSeq(uu)
    OBVIOUS
  <2>1. uu = <<>> /\ ss \o uu = ss
    OBVIOUS
  <2>2. FlattenSeq(uu) = <<>>
    BY <2>1, FlattenEmpty
  <2>3. <<>> \in Seq(S)
    OBVIOUS
  <2>4. FlattenSeq(ss) \in Seq(S)
    BY <2>3, FlattenAppend
  <2>5. FlattenSeq(ss) \o <<>> = FlattenSeq(ss)
    BY <2>4
  <2> QED BY <2>1, <2>2, <2>5
<1>2. ASSUME NEW n \in Nat, n \in N, NEW uu \in Seq(Seq(S)), Len(uu) = n + 1
      PROVE  FlattenSeq(ss \o uu) = FlattenSeq(ss) \o FlattenSeq(uu)
  <2>0. uu # <<>> /\ Len(uu) - 1 = n
    BY <1>2
  <2>1. PICK vv \in Seq(Seq(S)), s \in Seq(S) : uu = Append(vv, s) /\ Len(vv) = n
    <3> HIDE DEF N
    <3>1. \E vv \in Seq(Seq(S)), s \in Seq(S) :
             uu = Append(vv, s) /\ Len(vv) = Len(uu) - 1
      BY <2>0, FrontLast
    <3> QED BY <2>0, <3>1
  <2>2. ss \o vv \in Seq(Seq(S)) /\ ss \o uu = Append(ss \o vv, s)
    BY <2>1
  <2>3. FlattenSeq(ss \o uu) = FlattenSeq(ss \o vv) \o s
    BY <2>2, FlattenAppend
  <2>4. FlattenSeq(uu) = FlattenSeq(vv) \o s
    BY <2>1, FlattenAppend
  <2>5. FlattenSeq(ss \o vv) = FlattenSeq(ss) \o FlattenSeq(vv)
    BY <1>2, <2>1
  <2>6. FlattenSeq(ss) \in Seq(S) /\ FlattenSeq(vv) \in Seq(S)
    BY <2>1, FlattenAppend
  <2>7. (FlattenSeq(ss) \o FlattenSeq(vv)) \o s = FlattenSeq(ss) \o (FlattenSeq(vv) \o s)
    BY <2>1, <2>6
  <2> QED BY <2>3, <2>4, <2>5, <2>7
<1>3. ASSUME NEW n \in Nat, n \in N PROVE n + 1 \in N
  <2>1. \A uu \in Seq(Seq(S)) : Len(uu) = n + 1 =>
            FlattenSeq(ss \o uu) = FlattenSeq(ss) \o FlattenSeq(uu)
    BY <1>2, <1>3
  <2> QED BY <2>1
<1> HIDE DEF N
<1>4. \A n \in Nat : n \in N => n + 1 \in N
  BY <1>3
<1>5. Len(tt) \in N
  <2>1. Len(tt) \in Nat
    OBVIOUS
  <2>2. \A n \in Nat : n \in N
    BY <1>1, <1>4, Induction
  <2> QED BY <2>1, <2>2
<1> QED BY <1>5 DEF N

(* The concatenation has the members of its parts. *)
LEMMA FlattenType ==
    ASSUME NEW S, NEW ss \in Seq(Seq(S))
    PROVE  FlattenSeq(ss) \in Seq(S)
<1>1. <<>> \in Seq(S)
  OBVIOUS
<1> QED BY <1>1, FlattenAppend

(* One sequence concatenated is that sequence. *)
LEMMA FlattenOne ==
    ASSUME NEW S, NEW s \in Seq(S)
    PROVE  FlattenSeq(<<s>>) = s
<1>1. <<>> \in Seq(Seq(S)) /\ <<s>> = Append(<<>>, s) /\ <<>> \o s = s
  OBVIOUS
<1> QED BY <1>1, FlattenAppend, FlattenEmpty

(* Empty sequences concatenated are empty. *)
LEMMA FlattenEmpties ==
    ASSUME NEW S, NEW n \in Nat, NEW ss \in Seq(Seq(S)), Len(ss) = n,
           \A i \in 1..n : ss[i] = <<>>
    PROVE  FlattenSeq(ss) = <<>>
<1> DEFINE f == [i \in 1..n |-> <<>>]
<1>1. CASE n = 0
  <2>1. ss = <<>>
    BY <1>1
  <2> QED BY <2>1, FlattenEmpty
<1>2. CASE n # 0
  <2>1. ss # <<>> /\ n \in 1..n
    BY <1>2
  <2>2. ASSUME NEW i \in 1..n PROVE f[i] = Prefix(ss, f, i)
    <3>1. ss[i] = <<>> /\ f[i] = <<>> /\ <<>> \o <<>> = <<>>
      OBVIOUS
    <3>2. i # 1 => f[i - 1] = <<>>
      OBVIOUS
    <3> HIDE DEF f
    <3> QED BY <3>1, <3>2 DEF Prefix
  <2>3. f[n] = <<>>
    BY <2>1
  <2> HIDE DEF f
  <2>4. Flat(ss, n, f)
    BY <2>2 DEF Flat
  <2> QED BY <2>1, <2>3, <2>4, FlattenIs
<1> QED BY <1>1, <1>2

-----------------------------------------------------------------------------
(* The LogFile.                                                             *)

Entries == 0..MaxLines
Names == {LocalTime[now] : now \in Times}
AFile == [name : Names, opened : Nat, data : Seq(Entries)]
Disks == UNION {[names -> Seq(Entries)] : names \in SUBSET Names}
ALogFile == [closed : Seq(AFile), file : AFile, buffer : Seq(Entries),
             disk : Disks, count : Nat,
             startOfPeriod : Nat, lastRoll : Nat, lastFlush : Nat]

(* What a file has of what was written under a name, and all closed ones. *)
Under(file, name) == IF file.name = name THEN file.data ELSE <<>>
ClosedUnder(f, name) == [i \in 1..Len(f.closed) |-> Under(f.closed[i], name)]

(* The names on disk are those of the files. *)
NamesInv(f) == DOMAIN f.disk = {f.closed[i].name : i \in 1..Len(f.closed)} \union {f.file.name}

(* Under each is what was written to the closed files of the name, and to    *)
(* the open one but for stdio's buffer.                                      *)
DiskInv(f) ==
    \A n \in DOMAIN f.disk :
        f.disk[n] \o File!Buffered(f, n) = FlattenSeq(ClosedUnder(f, n)) \o Under(f.file, n)

(* The files were opened one after the other. *)
FileInv(f) ==
    /\ f \in ALogFile
    /\ f.lastRoll = f.file.opened
    /\ \A i \in 1..Len(f.closed) - 1 : f.closed[i].opened < f.closed[i + 1].opened
    /\ f.closed # <<>> => f.closed[Len(f.closed)].opened < f.file.opened
    /\ NamesInv(f)
    /\ DiskInv(f)

ClosedData(f) == [i \in 1..Len(f.closed) |-> f.closed[i].data]

(* The start of a day is a time. *)
LEMMA PeriodIsNatural ==
    ASSUME NEW now \in Nat PROVE File!StartOfPeriod(now) \in Nat
<1>1. Day \in Nat /\ Day > 0
  BY LogFileAssumption
<1>2. now \div Day \in Nat
  BY <1>1
<1>3. \A a, b \in Nat : a * b \in Nat
  OBVIOUS
<1> QED BY <1>1, <1>2, <1>3 DEF File!StartOfPeriod

(* LogFile's FlattenSeq is the same. *)
LEMMA SameFlatten == ASSUME NEW ss PROVE File!FlattenSeq(ss) = FlattenSeq(ss)
BY DEF File!FlattenSeq, FlattenSeq

(* The data of the closed files, file by file. *)
LEMMA ClosedDataIs ==
    ASSUME NEW f \in ALogFile
    PROVE  /\ Len(f.closed) \in Nat
           /\ ClosedData(f) \in Seq(Seq(Entries))
           /\ Len(ClosedData(f)) = Len(f.closed)
           /\ \A i \in 1..Len(f.closed) : ClosedData(f)[i] = f.closed[i].data
<1> DEFINE n == Len(f.closed)
           data == ClosedData(f)
<1>1. f.closed \in Seq(AFile) /\ n \in Nat
  BY DEF ALogFile
<1>2. \A i \in 1..n : f.closed[i] \in AFile
  BY <1>1
<1>3. \A i \in 1..n : f.closed[i].data \in Seq(Entries)
  BY <1>2 DEF AFile
<1>4. data = [i \in 1..n |-> f.closed[i].data]
  BY DEF ClosedData
<1> HIDE DEF n, data
<1>5. data \in [1..n -> Seq(Entries)] /\ \A i \in 1..n : data[i] = f.closed[i].data
  BY <1>3, <1>4
<1>6. data \in Seq(Seq(Entries)) /\ Len(data) = n
  BY <1>1, <1>5
<1> QED BY <1>1, <1>5, <1>6 DEF n, data

(* All there is: the closed files and the open one. *)
LEMMA FileContents ==
    ASSUME NEW f \in ALogFile
    PROVE  /\ ClosedData(f) \in Seq(Seq(Entries))
           /\ File!Contents(f) = FlattenSeq(ClosedData(f)) \o f.file.data
           /\ File!Contents(f) \in Seq(Entries)
<1>0. f.closed \in Seq(AFile) /\ f.file \in AFile /\ f.file.data \in Seq(Entries)
  BY DEF ALogFile, AFile
<1>1. ClosedData(f) \in Seq(Seq(Entries))
  BY ClosedDataIs
<1>2. [i \in DOMAIN File!Files(f) |-> File!Files(f)[i].data]
        = Append(ClosedData(f), f.file.data)
  <2> DEFINE n == Len(f.closed)
             files == File!Files(f)
             data == [i \in DOMAIN files |-> files[i].data]
             both == Append(ClosedData(f), f.file.data)
  <2>1. n \in Nat /\ DOMAIN files = 1..n + 1 /\ files[n + 1] = f.file
        /\ \A i \in 1..n : files[i] = f.closed[i]
    BY <1>0 DEF File!Files
  <2>2. /\ both \in Seq(Seq(Entries)) /\ Len(both) = n + 1
        /\ both[n + 1] = f.file.data
        /\ \A i \in 1..n : both[i] = f.closed[i].data
    BY <1>0, <1>1, ClosedDataIs
  <2> HIDE DEF n, files, both
  <2>3. ASSUME NEW i \in 1..n + 1 PROVE files[i].data = both[i]
    <3>1. i \in 1..n \/ i = n + 1
      BY <2>1
    <3> QED BY <2>1, <2>2, <3>1 DEF n
  <2>4. data = [i \in 1..n + 1 |-> both[i]]
    BY <2>1, <2>3
  <2>5. both = [i \in 1..n + 1 |-> both[i]]
    BY <2>2
  <2> QED BY <2>4, <2>5 DEF files, both
<1>3. File!Contents(f) = FlattenSeq(ClosedData(f)) \o f.file.data
  <2>1. File!Contents(f) = FlattenSeq(Append(ClosedData(f), f.file.data))
    BY <1>2, SameFlatten DEF File!Contents
  <2> QED BY <1>0, <1>1, <2>1, FlattenAppend
<1>4. FlattenSeq(ClosedData(f)) \in Seq(Entries)
  BY <1>0, <1>1, FlattenAppend
<1> QED BY <1>0, <1>1, <1>3, <1>4

(* What the closed files have under a name, file by file. *)
LEMMA ClosedUnderIs ==
    ASSUME NEW f \in ALogFile, NEW name
    PROVE  /\ ClosedUnder(f, name) \in Seq(Seq(Entries))
           /\ Len(ClosedUnder(f, name)) = Len(f.closed)
           /\ \A i \in 1..Len(f.closed) : ClosedUnder(f, name)[i] = Under(f.closed[i], name)
<1> DEFINE n == Len(f.closed)
           data == ClosedUnder(f, name)
<1>1. f.closed \in Seq(AFile) /\ n \in Nat
  BY DEF ALogFile
<1>2. \A i \in 1..n : f.closed[i] \in AFile
  BY <1>1
<1>3. \A i \in 1..n : Under(f.closed[i], name) \in Seq(Entries)
  BY <1>2 DEF AFile, Under
<1>4. data = [i \in 1..n |-> Under(f.closed[i], name)]
  BY DEF ClosedUnder
<1> HIDE DEF n, data
<1>5. data \in [1..n -> Seq(Entries)] /\ \A i \in 1..n : data[i] = Under(f.closed[i], name)
  BY <1>3, <1>4
<1>6. data \in Seq(Seq(Entries)) /\ Len(data) = n
  BY <1>1, <1>5
<1> QED BY <1>1, <1>5, <1>6 DEF n, data

(* One function more behind those of the closed files. *)
LEMMA OneMore ==
    ASSUME NEW n \in Nat, NEW s \in Seq(Seq(Entries)), Len(s) = n,
           NEW e \in Seq(Entries), NEW g \in [1..n + 1 -> Seq(Entries)],
           \A i \in 1..n : g[i] = s[i], g[n + 1] = e
    PROVE  g = Append(s, e)
<1> DEFINE both == Append(s, e)
<1>1. both \in Seq(Seq(Entries)) /\ Len(both) = n + 1 /\ both[n + 1] = e
      /\ \A i \in 1..n : both[i] = s[i]
  OBVIOUS
<1> HIDE DEF both
<1>2. \A i \in 1..n + 1 : i \in 1..n \/ i = n + 1
  OBVIOUS
<1>3. \A i \in 1..n + 1 : g[i] = both[i]
  BY <1>1, <1>2
<1>4. both \in [1..n + 1 -> Seq(Entries)]
  BY <1>1
<1> QED BY <1>3, <1>4 DEF both

(* What was written under a name: the closed files and the open one. *)
LEMMA NameContents ==
    ASSUME NEW f \in ALogFile, NEW name
    PROVE  /\ FlattenSeq(ClosedUnder(f, name)) \in Seq(Entries)
           /\ File!WrittenUnder(f, name) = FlattenSeq(ClosedUnder(f, name)) \o Under(f.file, name)
<1> DEFINE n == Len(f.closed)
           files == File!Files(f)
           data == [i \in DOMAIN files |-> Under(files[i], name)]
<1>0. /\ f.closed \in Seq(AFile) /\ f.file \in AFile /\ n \in Nat
      /\ Under(f.file, name) \in Seq(Entries)
  BY DEF ALogFile, AFile, Under
<1>1. n \in Nat /\ DOMAIN files = 1..n + 1 /\ files[n + 1] = f.file
      /\ \A i \in 1..n : files[i] = f.closed[i]
  BY <1>0 DEF File!Files
<1>2. /\ ClosedUnder(f, name) \in Seq(Seq(Entries)) /\ Len(ClosedUnder(f, name)) = n
      /\ \A i \in 1..n : ClosedUnder(f, name)[i] = Under(f.closed[i], name)
  BY ClosedUnderIs
<1>3. File!WrittenUnder(f, name) = FlattenSeq(data)
  BY SameFlatten DEF File!WrittenUnder, Under
<1> HIDE DEF n, files
<1>4. data = Append(ClosedUnder(f, name), Under(f.file, name))
  <2>0. DOMAIN data = 1..n + 1 /\ data[n + 1] = Under(f.file, name)
        /\ \A i \in 1..n : data[i] = ClosedUnder(f, name)[i]
    BY <1>0, <1>1, <1>2
  <2>d. \A i \in 1..n + 1 : i \in 1..n \/ i = n + 1
    BY <1>0
  <2>1. data \in [1..n + 1 -> Seq(Entries)]
    <3>1. \A i \in 1..n : ClosedUnder(f, name)[i] \in Seq(Entries)
      BY <1>2
    <3>2. \A i \in 1..n + 1 : data[i] \in Seq(Entries)
      BY <1>0, <2>0, <2>d, <3>1
    <3> QED BY <2>0, <3>2
  <2> HIDE DEF data
  <2> QED BY <1>0, <1>2, <2>0, <2>1, OneMore
<1> HIDE DEF data
<1> QED BY <1>0, <1>2, <1>3, <1>4, FlattenAppend

(* The constructor's file is a proper one, and empty. *)
LEMMA NewKeeps ==
    ASSUME NEW now \in Times
    PROVE  FileInv(File!NewLogFile(now)) /\ File!Contents(File!NewLogFile(now)) = <<>>
<1> DEFINE f == File!NewLogFile(now)
           name == LocalTime[now]
<1>0. now \in Nat /\ name \in Names
  BY LinesAssumption DEF Times, Names
<1>1. File!NewFile(now) \in AFile
  BY <1>0 DEF File!NewFile, AFile
<1> HIDE DEF name
<1>d. [n \in {name} |-> <<>>] \in Disks
  <2>1. [n \in {name} |-> <<>>] \in [{name} -> Seq(Entries)]
    OBVIOUS
  <2> QED BY <1>0, <2>1 DEF Disks
<1>2. f \in ALogFile
  BY <1>0, <1>1, <1>d, PeriodIsNatural DEF File!NewLogFile, ALogFile, name
<1>3. /\ f.closed = <<>> /\ f.file.data = <<>> /\ f.buffer = <<>>
      /\ f.disk = [n \in {name} |-> <<>>]
      /\ f.file.name = name /\ f.file.opened = now /\ f.lastRoll = now
  BY DEF File!NewLogFile, File!NewFile, name
<1> HIDE DEF f
<1>n. NamesInv(f)
  <2>1. Len(f.closed) = 0 /\ 1..0 = {}
    BY <1>3
  <2> QED BY <1>3, <2>1 DEF NamesInv
<1>i. DiskInv(f)
  <2> SUFFICES ASSUME NEW n \in DOMAIN f.disk
               PROVE  f.disk[n] \o File!Buffered(f, n)
                        = FlattenSeq(ClosedUnder(f, n)) \o Under(f.file, n)
    BY DEF DiskInv
  <2>1. f.disk[n] = <<>> /\ File!Buffered(f, n) = <<>> /\ Under(f.file, n) = <<>>
    BY <1>3 DEF File!Buffered, Under
  <2>2. ClosedUnder(f, n) = <<>>
    BY <1>3 DEF ClosedUnder
  <2> QED BY <2>1, <2>2, FlattenEmpty
<1>4. FileInv(f)
  BY <1>2, <1>3, <1>n, <1>i DEF FileInv
<1>5. File!Contents(f) = <<>>
  <2>1. ClosedData(f) = <<>>
    BY <1>3 DEF ClosedData
  <2> QED BY <1>2, <1>3, <2>1, FileContents, FlattenEmpty
<1> QED BY <1>4, <1>5 DEF f

(* What depends on the closed files and the data alone. *)
LEMMA SameFiles ==
    ASSUME NEW f \in ALogFile, NEW g \in ALogFile, g.closed = f.closed, g.file = f.file
    PROVE  /\ File!Contents(g) = File!Contents(f)
           /\ \A n : ClosedUnder(g, n) = ClosedUnder(f, n) /\ Under(g.file, n) = Under(f.file, n)
<1>1. ClosedData(g) = ClosedData(f)
  BY DEF ClosedData
<1> QED BY <1>1, FileContents DEF ClosedUnder

(* A member of ALogFile has its fields. *)
LEMMA Fields ==
    ASSUME NEW f \in ALogFile
    PROVE  /\ f.closed \in Seq(AFile) /\ Len(f.closed) \in Nat
           /\ f.file \in AFile /\ f.buffer \in Seq(Entries)
           /\ f.file.name \in Names /\ f.file.opened \in Nat /\ f.file.data \in Seq(Entries)
           /\ f.count \in Nat /\ f.startOfPeriod \in Nat
           /\ f.lastRoll \in Nat /\ f.lastFlush \in Nat
           /\ f.disk = [n \in DOMAIN f.disk |-> f.disk[n]]
           /\ DOMAIN f.disk \subseteq Names
           /\ \A n \in DOMAIN f.disk : f.disk[n] \in Seq(Entries)
<1>1. /\ f.closed \in Seq(AFile) /\ f.file \in AFile /\ f.buffer \in Seq(Entries)
      /\ f.count \in Nat /\ f.startOfPeriod \in Nat
      /\ f.lastRoll \in Nat /\ f.lastFlush \in Nat /\ f.disk \in Disks
  BY DEF ALogFile
<1>2. f.file.name \in Names /\ f.file.opened \in Nat /\ f.file.data \in Seq(Entries)
  BY <1>1 DEF AFile
<1>3. PICK names \in SUBSET Names : f.disk \in [names -> Seq(Entries)]
  BY <1>1 DEF Disks
<1> QED BY <1>1, <1>2, <1>3

(* flush moves stdio's buffer to the disk; what was written stays. *)
LEMMA FlushIs ==
    ASSUME NEW f \in ALogFile, f.file.name \in DOMAIN f.disk
    PROVE  /\ File!Flush(f) \in ALogFile
           /\ File!Flush(f) = [File!Flush(f) EXCEPT !.buffer = <<>>]
           /\ File!Flush(f).closed = f.closed /\ File!Flush(f).file = f.file
           /\ File!Flush(f).buffer = <<>> /\ File!Flush(f).count = f.count
           /\ File!Flush(f).lastRoll = f.lastRoll
           /\ DOMAIN File!Flush(f).disk = DOMAIN f.disk
           /\ \A n \in DOMAIN f.disk :
                 File!Flush(f).disk[n] = f.disk[n] \o File!Buffered(f, n)
<1> DEFINE g == File!Flush(f)
           disk == [f.disk EXCEPT ![f.file.name] = @ \o f.buffer]
<1>1. g = [closed |-> f.closed, file |-> f.file, buffer |-> <<>>, disk |-> disk,
           count |-> f.count, startOfPeriod |-> f.startOfPeriod,
           lastRoll |-> f.lastRoll, lastFlush |-> f.lastFlush]
  <2>1. g = [f EXCEPT !.disk = disk, !.buffer = <<>>]
    BY DEF File!Flush
  <2> HIDE DEF g, disk
  <2> QED BY <2>1 DEF ALogFile
<1>2. DOMAIN disk = DOMAIN f.disk
      /\ \A n \in DOMAIN f.disk : disk[n] = f.disk[n] \o File!Buffered(f, n)
  <2>1. \A n \in DOMAIN f.disk : f.disk[n] \o <<>> = f.disk[n]
    BY Fields
  <2> QED BY <2>1, Fields DEF File!Buffered
<1>3. disk \in Disks
  <2>1. \A n \in DOMAIN f.disk : disk[n] \in Seq(Entries)
    <3> SUFFICES ASSUME NEW n \in DOMAIN f.disk PROVE disk[n] \in Seq(Entries)
      OBVIOUS
    <3>1. disk[n] = f.disk[n] \o File!Buffered(f, n)
      BY <1>2
    <3>2. f.disk[n] \in Seq(Entries) /\ f.buffer \in Seq(Entries)
      BY Fields
    <3>3. File!Buffered(f, n) \in Seq(Entries)
      BY <3>2 DEF File!Buffered
    <3> HIDE DEF disk
    <3> QED BY <3>1, <3>2, <3>3
  <2>2. disk \in [DOMAIN f.disk -> Seq(Entries)]
    BY <2>1, Fields
  <2>3. DOMAIN f.disk \in SUBSET Names
    BY Fields
  <2> QED BY <2>2, <2>3 DEF Disks
<1> HIDE DEF disk
<1>4. g \in ALogFile
  BY <1>1, <1>3, Fields DEF ALogFile
<1> QED BY <1>1, <1>2, <1>4

LEMMA FlushKeeps ==
    ASSUME NEW f, FileInv(f)
    PROVE  FileInv(File!Flush(f)) /\ File!Contents(File!Flush(f)) = File!Contents(f)
<1> DEFINE g == File!Flush(f)
<1>0. f \in ALogFile /\ f.file.name \in DOMAIN f.disk
  BY DEF FileInv, NamesInv
<1>1. /\ g \in ALogFile /\ g.closed = f.closed /\ g.file = f.file
      /\ g.buffer = <<>> /\ g.lastRoll = f.lastRoll /\ DOMAIN g.disk = DOMAIN f.disk
      /\ \A n \in DOMAIN f.disk : g.disk[n] = f.disk[n] \o File!Buffered(f, n)
  BY <1>0, FlushIs
<1> HIDE DEF g
<1>2. File!Contents(g) = File!Contents(f)
      /\ \A n : ClosedUnder(g, n) = ClosedUnder(f, n) /\ Under(g.file, n) = Under(f.file, n)
  BY <1>0, <1>1, SameFiles
<1>3. DiskInv(g)
  <2> SUFFICES ASSUME NEW n \in DOMAIN f.disk
               PROVE  g.disk[n] \o File!Buffered(g, n)
                        = FlattenSeq(ClosedUnder(g, n)) \o Under(g.file, n)
    BY <1>1 DEF DiskInv
  <2>1. File!Buffered(g, n) = <<>>
    BY <1>1 DEF File!Buffered
  <2>2. g.disk[n] \o <<>> = g.disk[n]
    BY <1>1, Fields
  <2>3. f.disk[n] \o File!Buffered(f, n)
          = FlattenSeq(ClosedUnder(f, n)) \o Under(f.file, n)
    BY DEF FileInv, DiskInv
  <2> QED BY <1>1, <1>2, <2>1, <2>2, <2>3
<1>4. NamesInv(g)
  BY <1>1 DEF FileInv, NamesInv
<1>5. FileInv(g)
  BY <1>1, <1>3, <1>4 DEF FileInv
<1> QED BY <1>2, <1>5 DEF g

(* Opening a name leaves what is under it, or puts nothing there. *)
LEMMA OpenedIs ==
    ASSUME NEW f \in ALogFile, NEW name \in Names
    PROVE  LET g == [f EXCEPT !.disk = File!Opened(@, name)] IN
           /\ g \in ALogFile /\ g.closed = f.closed /\ g.file = f.file
           /\ g.buffer = f.buffer /\ g.count = f.count /\ g.lastRoll = f.lastRoll
           /\ DOMAIN g.disk = DOMAIN f.disk \union {name}
           /\ \A n \in DOMAIN g.disk :
                 g.disk[n] = IF n \in DOMAIN f.disk THEN f.disk[n] ELSE <<>>
<1> DEFINE disk == File!Opened(f.disk, name)
           g == [f EXCEPT !.disk = disk]
<1>1. DOMAIN disk = DOMAIN f.disk \union {name}
      /\ \A n \in DOMAIN disk : disk[n] = IF n \in DOMAIN f.disk THEN f.disk[n] ELSE <<>>
  BY DEF File!Opened
<1>2. disk \in Disks
  <2>1. \A n \in DOMAIN disk : disk[n] \in Seq(Entries)
    <3>1. \A n \in DOMAIN f.disk : f.disk[n] \in Seq(Entries)
      BY Fields
    <3>2. <<>> \in Seq(Entries)
      OBVIOUS
    <3> HIDE DEF disk
    <3> QED BY <1>1, <3>1, <3>2
  <2>2. disk = [n \in DOMAIN disk |-> disk[n]]
    BY DEF File!Opened
  <2>3. DOMAIN disk \in SUBSET Names
    BY <1>1, Fields
  <2> HIDE DEF disk
  <2>4. disk \in [DOMAIN disk -> Seq(Entries)]
    BY <2>1, <2>2
  <2> QED BY <2>3, <2>4 DEF Disks
<1> HIDE DEF disk
<1>3. /\ g \in ALogFile /\ g.closed = f.closed /\ g.file = f.file
      /\ g.buffer = f.buffer /\ g.count = f.count /\ g.lastRoll = f.lastRoll
      /\ g.disk = disk
  BY <1>2 DEF ALogFile
<1>4. g = [f EXCEPT !.disk = File!Opened(@, name)]
  BY DEF disk
<1> QED BY <1>1, <1>3, <1>4

(* The next file is opened, the old one flushed and closed with all it holds. *)
LEMMA NextFileIs ==
    ASSUME NEW f, FileInv(f), NEW now \in Times
    PROVE  LET g == File!NextFile(f, now)
               name == LocalTime[now]
           IN  /\ g \in ALogFile /\ g.closed = Append(f.closed, f.file)
               /\ g.file = [name |-> name, opened |-> now, data |-> <<>>]
               /\ g.buffer = <<>> /\ g.lastRoll = now
               /\ DOMAIN g.disk = DOMAIN f.disk \union {name}
               /\ \A n \in DOMAIN f.disk : g.disk[n] = f.disk[n] \o File!Buffered(f, n)
               /\ name \notin DOMAIN f.disk => g.disk[name] = <<>>
<1> DEFINE name == LocalTime[now]
           o == [f EXCEPT !.disk = File!Opened(@, name)]
           c == File!Flush(o)
           g == File!NextFile(f, now)
           file == [name |-> name, opened |-> now, data |-> <<>>]
<1>0. now \in Nat /\ name \in Names /\ f \in ALogFile /\ f.file.name \in DOMAIN f.disk
  BY LinesAssumption DEF Times, Names, FileInv, NamesInv
<1>g. g = [c EXCEPT !.closed = Append(@, f.file), !.file = File!NewFile(now),
              !.startOfPeriod = File!StartOfPeriod(now), !.lastRoll = now, !.lastFlush = now]
  BY DEF File!NextFile
<1>f. File!NewFile(now) = file /\ file \in AFile
  BY <1>0 DEF File!NewFile, AFile
<1> HIDE DEF name, g, file
<1>1. /\ o \in ALogFile /\ o.closed = f.closed /\ o.file = f.file
      /\ o.buffer = f.buffer
      /\ DOMAIN o.disk = DOMAIN f.disk \union {name}
      /\ \A n \in DOMAIN o.disk :
            o.disk[n] = IF n \in DOMAIN f.disk THEN f.disk[n] ELSE <<>>
  BY <1>0, OpenedIs
<1> HIDE DEF o
<1>2. /\ c \in ALogFile /\ c.closed = f.closed /\ c.file = f.file
      /\ c.buffer = <<>> /\ DOMAIN c.disk = DOMAIN f.disk \union {name}
      /\ \A n \in DOMAIN c.disk : c.disk[n] = o.disk[n] \o File!Buffered(f, n)
  <2>1. o.file.name \in DOMAIN o.disk
    BY <1>0, <1>1
  <2>2. \A n : File!Buffered(o, n) = File!Buffered(f, n)
    BY <1>1 DEF File!Buffered
  <2> QED BY <1>1, <2>1, <2>2, FlushIs
<1> HIDE DEF c
<1>3. Append(f.closed, f.file) \in Seq(AFile)
  <2>1. f.closed \in Seq(AFile) /\ f.file \in AFile
    BY <1>0, Fields
  <2> QED BY <2>1
<1>4. c \in [closed : Seq(AFile), file : AFile, buffer : Seq(Entries),
             disk : Disks, count : Nat, startOfPeriod : Nat, lastRoll : Nat, lastFlush : Nat]
  BY <1>2 DEF ALogFile
<1>5. g = [closed |-> Append(f.closed, f.file), file |-> file, buffer |-> c.buffer,
           disk |-> c.disk, count |-> c.count, startOfPeriod |-> File!StartOfPeriod(now),
           lastRoll |-> now, lastFlush |-> now]
  BY <1>2, <1>4, <1>g, <1>f
<1>6. g \in ALogFile
  BY <1>0, <1>3, <1>4, <1>5, <1>f, PeriodIsNatural DEF ALogFile
<1>7. \A n \in DOMAIN f.disk : g.disk[n] = f.disk[n] \o File!Buffered(f, n)
  BY <1>1, <1>2, <1>5
<1>8. name \notin DOMAIN f.disk => g.disk[name] = <<>>
  <2>1. name \notin DOMAIN f.disk => File!Buffered(f, name) = <<>>
    BY <1>0 DEF File!Buffered
  <2> QED BY <1>1, <1>2, <1>5, <2>1
<1> QED BY <1>2, <1>5, <1>6, <1>7, <1>8 DEF g, name, file

(* rollFile loses nothing, wherever the clock is. *)
LEMMA RollKeeps ==
    ASSUME NEW f, FileInv(f), NEW now \in Times
    PROVE  /\ FileInv(File!RollFile(f, now))
           /\ File!Contents(File!RollFile(f, now)) = File!Contents(f)
<1>1. CASE ~(now > f.lastRoll)
  BY <1>1 DEF File!RollFile
<1>2. CASE now > f.lastRoll
  <2> DEFINE g == File!RollFile(f, now)
             n == Len(f.closed)
             name == LocalTime[now]
  <2>0. /\ f \in ALogFile /\ f.file \in AFile /\ f.closed \in Seq(AFile)
        /\ n \in Nat /\ f.file.data \in Seq(Entries) /\ now \in Nat
        /\ f.lastRoll = f.file.opened /\ f.file.opened \in Nat
    <3>1. f \in ALogFile /\ f.lastRoll = f.file.opened
      BY DEF FileInv
    <3>2. now \in Nat
      BY LinesAssumption DEF Times
    <3> QED BY <3>1, <3>2, Fields
  <2>g. g = File!NextFile(f, now)
    BY <1>2 DEF File!RollFile
  <2>1. /\ g \in ALogFile /\ g.closed = Append(f.closed, f.file)
        /\ g.file = [name |-> name, opened |-> now, data |-> <<>>]
        /\ g.buffer = <<>> /\ g.lastRoll = now
        /\ DOMAIN g.disk = DOMAIN f.disk \union {name}
        /\ \A m \in DOMAIN f.disk : g.disk[m] = f.disk[m] \o File!Buffered(f, m)
        /\ name \notin DOMAIN f.disk => g.disk[name] = <<>>
    BY <2>g, NextFileIs
  <2> HIDE DEF g, name
  <2>2. g.file.name = name /\ g.file.opened = now /\ g.file.data = <<>>
    BY <2>1
  <2>8. /\ Len(g.closed) = n + 1 /\ g.closed[n + 1] = f.file
        /\ \A i \in 1..n : g.closed[i] = f.closed[i]
    BY <2>0, <2>1
  <2>d. \A i \in 1..n + 1 : i \in 1..n \/ i = n + 1
    BY <2>0
  <2>e. f.closed # <<>> <=> n # 0
    BY <2>0
  <2> HIDE DEF n
  <2>3. \A i \in 1..Len(g.closed) - 1 : g.closed[i].opened < g.closed[i + 1].opened
    <3> SUFFICES ASSUME NEW i \in 1..n
                 PROVE  g.closed[i].opened < g.closed[i + 1].opened
      BY <2>0, <2>8
    <3>1. CASE i = n
      <4>1. f.closed[n].opened < f.file.opened
        BY <2>0, <2>e, <3>1 DEF FileInv, n
      <4> QED BY <2>8, <3>1, <4>1
    <3>2. CASE i # n
      <4>1. i \in 1..n - 1 /\ i \in 1..n /\ i + 1 \in 1..n
        BY <2>0, <3>2
      <4>2. f.closed[i].opened < f.closed[i + 1].opened
        BY <4>1 DEF FileInv, n
      <4> QED BY <2>8, <4>1, <4>2
    <3> QED BY <3>1, <3>2
  <2>4. g.closed[Len(g.closed)].opened < g.file.opened
    BY <1>2, <2>0, <2>2, <2>8
  <2>5. NamesInv(g)
    <3>1. DOMAIN f.disk = {f.closed[i].name : i \in 1..n} \union {f.file.name}
      BY DEF FileInv, NamesInv, n
    <3>2. {g.closed[i].name : i \in 1..n + 1}
            = {f.closed[i].name : i \in 1..n} \union {f.file.name}
      <4>1. \A i \in 1..n : i \in 1..n + 1 /\ g.closed[i].name = f.closed[i].name
        BY <2>0, <2>8
      <4>2. n + 1 \in 1..n + 1 /\ g.closed[n + 1].name = f.file.name
        BY <2>0, <2>8
      <4> QED BY <2>d, <4>1, <4>2
    <3> QED BY <2>1, <2>2, <2>8, <3>1, <3>2 DEF NamesInv
  <2>u. ASSUME NEW m
        PROVE  FlattenSeq(ClosedUnder(g, m)) = FlattenSeq(ClosedUnder(f, m)) \o Under(f.file, m)
               /\ Under(g.file, m) = <<>>
               /\ FlattenSeq(ClosedUnder(g, m)) \in Seq(Entries)
    <3>1. /\ ClosedUnder(f, m) \in Seq(Seq(Entries)) /\ Len(ClosedUnder(f, m)) = n
          /\ \A i \in 1..n : ClosedUnder(f, m)[i] = Under(f.closed[i], m)
      BY <2>0, ClosedUnderIs DEF n
    <3>2. Under(f.file, m) \in Seq(Entries)
      BY <2>0 DEF Under
    <3>3. ClosedUnder(g, m) = Append(ClosedUnder(f, m), Under(f.file, m))
      <4> DEFINE h == ClosedUnder(g, m)
      <4>1. h = [i \in 1..n + 1 |-> Under(g.closed[i], m)]
        BY <2>8 DEF ClosedUnder
      <4> HIDE DEF h
      <4>2. DOMAIN h = 1..n + 1 /\ h = [i \in 1..n + 1 |-> h[i]]
            /\ \A i \in 1..n + 1 : h[i] = Under(g.closed[i], m)
        BY <4>1
      <4>3. \A i \in 1..n : i \in 1..n + 1
        BY <2>0
      <4>4. n + 1 \in 1..n + 1
        BY <2>0
      <4>5. (\A i \in 1..n : h[i] = ClosedUnder(f, m)[i]) /\ h[n + 1] = Under(f.file, m)
        BY <2>8, <3>1, <4>2, <4>3, <4>4
      <4>6. h \in [1..n + 1 -> Seq(Entries)]
        <5>1. \A i \in 1..n + 1 : h[i] \in Seq(Entries)
          BY <2>d, <3>1, <3>2, <4>5
        <5> QED BY <4>2, <5>1
      <4>7. h = Append(ClosedUnder(f, m), Under(f.file, m))
        BY <2>0, <3>1, <3>2, <4>5, <4>6, OneMore
      <4> QED BY <4>7 DEF h
    <3>4. Under(g.file, m) = <<>>
      BY <2>2 DEF Under
    <3> QED BY <2>1, <3>1, <3>2, <3>3, <3>4, FlattenAppend, NameContents
  <2>6. DiskInv(g)
    <3> SUFFICES ASSUME NEW m \in DOMAIN g.disk
                 PROVE  g.disk[m] \o File!Buffered(g, m)
                          = FlattenSeq(ClosedUnder(g, m)) \o Under(g.file, m)
      BY DEF DiskInv
    <3>1. File!Buffered(g, m) = <<>>
      BY <2>1 DEF File!Buffered
    <3>2. g.disk[m] \o <<>> = g.disk[m]
      <4>1. g.disk[m] \in Seq(Entries)
        BY <2>1, Fields
      <4> QED BY <4>1
    <3>3. FlattenSeq(ClosedUnder(g, m)) \o <<>> = FlattenSeq(ClosedUnder(g, m))
      BY <2>u
    <3>4. CASE m \in DOMAIN f.disk
      <4>1. f.disk[m] \o File!Buffered(f, m)
              = FlattenSeq(ClosedUnder(f, m)) \o Under(f.file, m)
        BY <3>4 DEF FileInv, DiskInv
      <4> QED BY <2>1, <2>u, <3>1, <3>2, <3>3, <3>4, <4>1
    <3>5. CASE m \notin DOMAIN f.disk
      <4>1. m = name /\ g.disk[m] = <<>>
        BY <2>1, <3>5
      <4>2. Under(f.file, m) = <<>> /\ \A i \in 1..n : Under(f.closed[i], m) = <<>>
        BY <3>5 DEF FileInv, NamesInv, Under, n
      <4>3. FlattenSeq(ClosedUnder(f, m)) = <<>>
        <5>1. ClosedUnder(f, m) \in Seq(Seq(Entries)) /\ Len(ClosedUnder(f, m)) = n
              /\ \A i \in 1..n : ClosedUnder(f, m)[i] = <<>>
          BY <2>0, <4>2, ClosedUnderIs DEF n
        <5> QED BY <5>1, FlattenEmpties
      <4>4. <<>> \o <<>> = <<>>
        OBVIOUS
      <4> QED BY <2>u, <3>1, <4>1, <4>2, <4>3, <4>4
    <3> QED BY <3>4, <3>5
  <2>12. FileInv(g)
    BY <2>1, <2>2, <2>3, <2>4, <2>5, <2>6 DEF FileInv
  <2>13. ClosedData(g) = Append(ClosedData(f), f.file.data)
    <3> DEFINE h == ClosedData(g)
    <3>1. ClosedData(f) \in Seq(Seq(Entries)) /\ Len(ClosedData(f)) = n
          /\ \A i \in 1..n : ClosedData(f)[i] = f.closed[i].data
      BY <2>0, ClosedDataIs DEF n
    <3>2. h = [i \in 1..n + 1 |-> g.closed[i].data]
      BY <2>8 DEF ClosedData
    <3> HIDE DEF h
    <3>3. DOMAIN h = 1..n + 1 /\ h = [i \in 1..n + 1 |-> h[i]]
          /\ \A i \in 1..n + 1 : h[i] = g.closed[i].data
      BY <3>2
    <3>4. (\A i \in 1..n : i \in 1..n + 1) /\ n + 1 \in 1..n + 1
      BY <2>0
    <3>5. (\A i \in 1..n : h[i] = ClosedData(f)[i]) /\ h[n + 1] = f.file.data
      <4>1. ASSUME NEW i \in 1..n PROVE h[i] = ClosedData(f)[i]
        <5>1. h[i] = g.closed[i].data
          BY <3>3, <3>4
        <5>2. g.closed[i] = f.closed[i] /\ ClosedData(f)[i] = f.closed[i].data
          BY <2>8, <3>1
        <5> QED BY <5>1, <5>2
      <4>2. h[n + 1] = f.file.data
        BY <2>8, <3>3, <3>4
      <4> QED BY <4>1, <4>2
    <3>6. h \in [1..n + 1 -> Seq(Entries)]
      <4>0. f.file.data \in Seq(Entries) /\ \A i \in 1..n : ClosedData(f)[i] \in Seq(Entries)
        BY <2>0, <3>1
      <4>1. \A i \in 1..n + 1 : h[i] \in Seq(Entries)
        BY <2>d, <3>5, <4>0
      <4> QED BY <3>3, <4>1
    <3>7. h = Append(ClosedData(f), f.file.data)
      BY <2>0, <3>1, <3>5, <3>6, OneMore
    <3> QED BY <3>7 DEF h
  <2>14. File!Contents(g) = File!Contents(f)
    <3>1. ClosedData(f) \in Seq(Seq(Entries))
          /\ File!Contents(f) = FlattenSeq(ClosedData(f)) \o f.file.data
          /\ File!Contents(f) \in Seq(Entries)
      BY <2>0, FileContents
    <3>2. File!Contents(g) = FlattenSeq(ClosedData(g)) \o <<>>
      BY <2>1, <2>2, FileContents
    <3>3. FlattenSeq(ClosedData(g)) = File!Contents(f)
      BY <2>0, <2>13, <3>1, FlattenAppend
    <3> QED BY <3>1, <3>2, <3>3
  <2> QED BY <2>12, <2>14 DEF g
<1> QED BY <1>1, <1>2

(* The members append sets besides the files. *)
LEMMA CountersKeep ==
    ASSUME NEW f, FileInv(f), NEW g \in ALogFile, g.closed = f.closed,
           g.file = f.file, g.buffer = f.buffer, g.disk = f.disk,
           g.lastRoll = f.lastRoll
    PROVE  FileInv(g) /\ File!Contents(g) = File!Contents(f)
<1>1. f \in ALogFile
  BY DEF FileInv
<1>2. File!Contents(g) = File!Contents(f)
      /\ \A n : ClosedUnder(g, n) = ClosedUnder(f, n) /\ Under(g.file, n) = Under(f.file, n)
  BY <1>1, SameFiles
<1>3. DiskInv(g)
  BY <1>2 DEF FileInv, DiskInv, File!Buffered
<1>4. NamesInv(g)
  BY DEF FileInv, NamesInv
<1> QED BY <1>2, <1>3, <1>4 DEF FileInv

(* The check every checkEveryN_ lines may roll or flush, and loses nothing. *)
LEMMA CheckKeeps ==
    ASSUME NEW f, FileInv(f), NEW now \in Times, NEW rollNow \in Times
    PROVE  /\ FileInv(File!Check(f, now, rollNow))
           /\ File!Contents(File!Check(f, now, rollNow)) = File!Contents(f)
<1>0. f \in ALogFile /\ f.count \in Nat /\ now \in Nat
  BY LinesAssumption DEF FileInv, ALogFile, Times
<1>1. CASE f.count + 1 < CheckEveryN
  <2> DEFINE g == [f EXCEPT !.count = @ + 1]
  <2>1. g \in ALogFile /\ g.closed = f.closed /\ g.file = f.file
        /\ g.buffer = f.buffer /\ g.disk = f.disk /\ g.lastRoll = f.lastRoll
    BY <1>0 DEF ALogFile
  <2>2. File!Check(f, now, rollNow) = g
    BY <1>1 DEF File!Check
  <2> HIDE DEF g
  <2> QED BY <2>1, <2>2, CountersKeep
<1>2. CASE ~(f.count + 1 < CheckEveryN)
  <2> DEFINE g == [f EXCEPT !.count = 0]
             h == [g EXCEPT !.lastFlush = now]
  <2>1. g \in ALogFile /\ g.closed = f.closed /\ g.file = f.file
        /\ g.buffer = f.buffer /\ g.disk = f.disk /\ g.lastRoll = f.lastRoll
    BY <1>0 DEF ALogFile
  <2>2. h \in ALogFile /\ h.closed = f.closed /\ h.file = f.file
        /\ h.buffer = f.buffer /\ h.disk = f.disk /\ h.lastRoll = f.lastRoll
    BY <1>0 DEF ALogFile
  <2>3. \/ File!Check(f, now, rollNow) = File!RollFile(g, rollNow)
        \/ File!Check(f, now, rollNow) = File!Flush(h)
        \/ File!Check(f, now, rollNow) = g
    <3> HIDE DEF h
    <3>1. File!Check(f, now, rollNow) =
            CASE File!StartOfPeriod(now) # f.startOfPeriod -> File!RollFile(g, rollNow)
              [] File!StartOfPeriod(now) = f.startOfPeriod /\ now > f.lastFlush + FlushSeconds ->
                   File!Flush(h)
              [] OTHER -> g
      BY <1>2 DEF File!Check, h
    <3> HIDE DEF g
    <3>2. CASE File!StartOfPeriod(now) # f.startOfPeriod
      BY <3>1, <3>2
    <3>3. CASE File!StartOfPeriod(now) = f.startOfPeriod /\ now > f.lastFlush + FlushSeconds
      BY <3>1, <3>3
    <3>4. CASE File!StartOfPeriod(now) = f.startOfPeriod /\ ~(now > f.lastFlush + FlushSeconds)
      BY <3>1, <3>4
    <3> QED BY <3>2, <3>3, <3>4
  <2> HIDE DEF g, h
  <2>4. FileInv(g) /\ File!Contents(g) = File!Contents(f)
    BY <2>1, CountersKeep
  <2>5. FileInv(h) /\ File!Contents(h) = File!Contents(f)
    BY <2>2, CountersKeep
  <2>6. CASE File!Check(f, now, rollNow) = File!RollFile(g, rollNow)
    BY <2>4, <2>6, RollKeeps
  <2>7. CASE File!Check(f, now, rollNow) = File!Flush(h)
    BY <2>5, <2>7, FlushKeeps
  <2> QED BY <2>3, <2>4, <2>6, <2>7
<1> QED BY <1>1, <1>2

(* append adds the data behind all there is, whatever it closes or flushes. *)
LEMMA AppendUnlockedKeeps ==
    ASSUME NEW f, FileInv(f), NEW data \in Seq(Entries),
           NEW now \in Times, NEW rollNow \in Times
    PROVE  /\ FileInv(File!AppendUnlocked(f, data, now, rollNow))
           /\ File!Contents(File!AppendUnlocked(f, data, now, rollNow))
                = File!Contents(f) \o data
<1> DEFINE g == [f EXCEPT !.file.data = @ \o data, !.buffer = @ \o data]
<1>0. /\ f \in ALogFile /\ f.file \in AFile /\ f.file.data \in Seq(Entries)
      /\ f.buffer \in Seq(Entries)
  BY Fields DEF FileInv
<1>2. f.file.data \o data \in Seq(Entries) /\ f.buffer \o data \in Seq(Entries)
  BY <1>0
<1>f. [f.file EXCEPT !.data = @ \o data] \in AFile
  BY <1>0, <1>2 DEF AFile
<1>g. g = [closed |-> f.closed, file |-> [f.file EXCEPT !.data = @ \o data],
           buffer |-> f.buffer \o data, disk |-> f.disk, count |-> f.count,
           startOfPeriod |-> f.startOfPeriod, lastRoll |-> f.lastRoll,
           lastFlush |-> f.lastFlush]
  <2> DEFINE file == [f.file EXCEPT !.data = @ \o data]
             buffer == f.buffer \o data
  <2>1. g = [f EXCEPT !.file = file, !.buffer = buffer]
    OBVIOUS
  <2> HIDE DEF g, file, buffer
  <2>2. g = [closed |-> f.closed, file |-> file, buffer |-> buffer, disk |-> f.disk,
             count |-> f.count, startOfPeriod |-> f.startOfPeriod,
             lastRoll |-> f.lastRoll, lastFlush |-> f.lastFlush]
    BY <1>0, <2>1 DEF ALogFile
  <2> QED BY <2>2 DEF file, buffer
<1>4. g \in ALogFile
  BY <1>0, <1>2, <1>f, <1>g, Fields DEF ALogFile
<1>1. g.closed = f.closed /\ g.lastRoll = f.lastRoll /\ g.disk = f.disk
      /\ g.buffer = f.buffer \o data /\ g.file = [f.file EXCEPT !.data = @ \o data]
  BY <1>g
<1>3. g.file.name = f.file.name /\ g.file.data = f.file.data \o data
      /\ g.file.opened = f.file.opened
  BY <1>0, <1>1 DEF AFile
<1> HIDE DEF g
<1>5. DiskInv(g)
  <2> SUFFICES ASSUME NEW n \in DOMAIN f.disk
               PROVE  f.disk[n] \o File!Buffered(g, n)
                        = FlattenSeq(ClosedUnder(g, n)) \o Under(g.file, n)
    BY <1>1 DEF DiskInv
  <2>1. ClosedUnder(g, n) = ClosedUnder(f, n)
    BY <1>1 DEF ClosedUnder
  <2>2. f.disk[n] \o File!Buffered(f, n)
          = FlattenSeq(ClosedUnder(f, n)) \o Under(f.file, n)
    BY DEF FileInv, DiskInv
  <2>3. f.disk[n] \in Seq(Entries) /\ FlattenSeq(ClosedUnder(f, n)) \in Seq(Entries)
    BY <1>0, Fields, NameContents
  <2>4. CASE f.file.name # n
    BY <1>3, <2>1, <2>2, <2>4 DEF File!Buffered, Under
  <2>5. CASE f.file.name = n
    <3>1. File!Buffered(g, n) = f.buffer \o data /\ Under(g.file, n) = f.file.data \o data
          /\ File!Buffered(f, n) = f.buffer /\ Under(f.file, n) = f.file.data
      BY <1>1, <1>3, <2>5 DEF File!Buffered, Under
    <3> DEFINE c == FlattenSeq(ClosedUnder(f, n))
               d == f.disk[n]
    <3>2. c \in Seq(Entries) /\ d \in Seq(Entries) /\ d \o f.buffer = c \o f.file.data
      BY <2>2, <2>3, <3>1
    <3> HIDE DEF c, d
    <3>a. \A x, y, z \in Seq(Entries) : x \o (y \o z) = (x \o y) \o z
      BY ConcatAssociative
    <3>3. d \o (f.buffer \o data) = (d \o f.buffer) \o data
      BY <1>0, <3>2, <3>a
    <3>4. c \o (f.file.data \o data) = (c \o f.file.data) \o data
      BY <1>0, <3>2, <3>a
    <3>5. d \o (f.buffer \o data) = c \o (f.file.data \o data)
      BY <3>2, <3>3, <3>4
    <3> QED BY <2>1, <3>1, <3>5 DEF c, d
  <2> QED BY <2>4, <2>5
<1>6. FileInv(g)
  <2>1. NamesInv(g)
    BY <1>1, <1>3 DEF FileInv, NamesInv
  <2> QED BY <1>1, <1>3, <1>4, <1>5, <2>1 DEF FileInv
<1>7. File!Contents(g) = File!Contents(f) \o data
  <2>1. ClosedData(g) = ClosedData(f)
    BY <1>1 DEF ClosedData
  <2>2. FlattenSeq(ClosedData(f)) \in Seq(Entries)
    BY <1>0, FileContents, FlattenAppend
  <2>3. File!Contents(f) = FlattenSeq(ClosedData(f)) \o f.file.data
    BY <1>0, FileContents
  <2>4. File!Contents(g) = FlattenSeq(ClosedData(f)) \o (f.file.data \o data)
    BY <1>3, <1>4, <2>1, FileContents
  <2>5. \A a, b, c \in Seq(Entries) : a \o (b \o c) = (a \o b) \o c
    BY ConcatAssociative
  <2>6. FlattenSeq(ClosedData(f)) \o (f.file.data \o data)
          = (FlattenSeq(ClosedData(f)) \o f.file.data) \o data
    BY <1>0, <2>2, <2>5
  <2> QED BY <2>3, <2>4, <2>6
<1>8. File!AppendUnlocked(f, data, now, rollNow) =
        IF Bytes(g.file.data) > RollSize THEN File!RollFile(g, rollNow)
        ELSE File!Check(g, now, rollNow)
  BY Zenon DEF File!AppendUnlocked, g
<1>9. CASE Bytes(g.file.data) > RollSize
  BY <1>6, <1>7, <1>8, <1>9, RollKeeps
<1>10. CASE ~(Bytes(g.file.data) > RollSize)
  BY <1>6, <1>7, <1>8, <1>10, CheckKeeps
<1> QED BY <1>9, <1>10

(* A function on D that is defined by its value at another member of D,     *)
(* which is nearer to the end by measure, exists.                           *)
Obeys(f, D, measure, more, next, start, step, n) ==
    \A d \in D : measure[d] < n =>
        f[d] = IF d \in more THEN step[d][f[next[d]]] ELSE start[d]

Solves(f, D, more, next, start, step) ==
    \A d \in D : f[d] = IF d \in more THEN step[d][f[next[d]]] ELSE start[d]

(* next leads to the end. *)
Descends(D, measure, more, next) ==
    /\ measure \in [D -> Nat] /\ more \in SUBSET D /\ next \in [D -> D]
    /\ \A d \in D : d \in more => measure[next[d]] < measure[d]

Agree(f, g, D, measure, n) == \A d \in D : measure[d] < n => f[d] = g[d]

(* As far as they obey the definition two functions are the same. *)
LEMMA RecursionUnique ==
    ASSUME NEW D, NEW measure, NEW more, NEW next, NEW start, NEW step,
           Descends(D, measure, more, next),
           NEW f, NEW g, NEW k \in Nat,
           Obeys(f, D, measure, more, next, start, step, k),
           Obeys(g, D, measure, more, next, start, step, k)
    PROVE  Agree(f, g, D, measure, k)
<1> USE DEF Descends
<1> DEFINE N == {n \in Nat : \A d \in D : measure[d] < n /\ measure[d] < k => f[d] = g[d]}
<1>1. 0 \in N
  OBVIOUS
<1>2. ASSUME NEW n \in Nat, n \in N,
             NEW d \in D, measure[d] < n + 1, measure[d] < k
      PROVE  f[d] = g[d]
  <2>1. /\ f[d] = IF d \in more THEN step[d][f[next[d]]] ELSE start[d]
        /\ g[d] = IF d \in more THEN step[d][g[next[d]]] ELSE start[d]
    BY <1>2 DEF Obeys
  <2>2. ASSUME d \in more PROVE f[next[d]] = g[next[d]]
    <3>1. /\ next[d] \in D /\ measure[next[d]] \in Nat /\ measure[d] \in Nat
          /\ measure[next[d]] < measure[d]
      BY <2>2
    <3>2. measure[next[d]] < n /\ measure[next[d]] < k
      BY <1>2, <3>1
    <3> QED BY <1>2, <3>1, <3>2
  <2> QED BY <2>1, <2>2
<1>3. \A n \in Nat : n \in N => n + 1 \in N
  BY <1>2
<1> HIDE DEF N
<1>4. k \in N
  BY <1>1, <1>3, Induction
<1> QED BY <1>4 DEF N, Agree

(* There is one that obeys it everywhere. *)
LEMMA Recursion ==
    ASSUME NEW D, NEW measure, NEW more, NEW next, Descends(D, measure, more, next),
           NEW U, NEW start \in [D -> U], NEW step \in [D -> [U -> U]]
    PROVE  \E f \in [D -> U] : Solves(f, D, more, next, start, step)
<1>0. Descends(D, measure, more, next)
  OBVIOUS
<1> USE DEF Descends
<1> DEFINE Good(f, n) == Obeys(f, D, measure, more, next, start, step, n)
           N == {n \in Nat : \E f \in [D -> U] : Good(f, n)}
<1>1. 0 \in N
  <2>1. Good(start, 0)
    BY DEF Obeys
  <2> QED BY <2>1
<1>2. ASSUME NEW n \in Nat, n \in N PROVE n + 1 \in N
  <2>1. PICK f \in [D -> U] : Good(f, n)
    BY <1>2
  <2> DEFINE g == [d \in D |-> IF d \in more THEN step[d][f[next[d]]] ELSE start[d]]
  <2>2. g \in [D -> U]
    <3>1. ASSUME NEW d \in D PROVE step[d][f[next[d]]] \in U /\ start[d] \in U
      <4>1. next[d] \in D /\ step[d] \in [U -> U]
        OBVIOUS
      <4>2. f[next[d]] \in U
        BY <4>1
      <4> QED BY <4>1, <4>2
    <3> QED BY <3>1
  <2>3. \A d \in D : g[d] = IF d \in more THEN step[d][f[next[d]]] ELSE start[d]
    OBVIOUS
  <2> HIDE DEF g
  <2>4. ASSUME NEW d \in D, measure[d] < n + 1
        PROVE  g[d] = IF d \in more THEN step[d][g[next[d]]] ELSE start[d]
    <3>1. ASSUME d \in more PROVE g[next[d]] = f[next[d]]
      <4>1. /\ next[d] \in D /\ measure[next[d]] \in Nat /\ measure[d] \in Nat
            /\ measure[next[d]] < measure[d]
        BY <3>1
      <4>2. measure[next[d]] < n
        BY <2>4, <4>1
      <4>3. f[next[d]] = IF next[d] \in more THEN step[next[d]][f[next[next[d]]]] ELSE start[next[d]]
        BY <2>1, <4>1, <4>2 DEF Obeys
      <4>4. g[next[d]] = IF next[d] \in more THEN step[next[d]][f[next[next[d]]]] ELSE start[next[d]]
        BY <2>3, <4>1
      <4> QED BY <4>3, <4>4
    <3> QED BY <2>3, <3>1
  <2>5. Good(g, n + 1)
    BY <2>4 DEF Obeys
  <2> HIDE DEF Good
  <2> QED BY <2>2, <2>5
<1>3. \A n \in Nat : n \in N => n + 1 \in N
  BY <1>2
<1>4. \A n \in Nat : n \in N
  <2> HIDE DEF N
  <2> QED BY <1>1, <1>3, Induction
<1>5. \A n \in Nat : \E f \in [D -> U] : Good(f, n)
  BY <1>4
<1> HIDE DEF N
<1> DEFINE F == [n \in Nat |-> CHOOSE f \in [D -> U] : Good(f, n)]
<1>6. \A n \in Nat : F[n] \in [D -> U] /\ Good(F[n], n)
  <2> SUFFICES ASSUME NEW n \in Nat PROVE F[n] \in [D -> U] /\ Good(F[n], n)
    OBVIOUS
  <2> HIDE DEF Good
  <2>1. \E f \in [D -> U] : Good(f, n)
    BY <1>5
  <2> QED BY <2>1
<1> HIDE DEF F
<1>10. ASSUME NEW k \in Nat, NEW n \in Nat, k <= n, NEW d \in D, measure[d] < k
       PROVE  F[n][d] = F[k][d]
  <2>1. Obeys(F[k], D, measure, more, next, start, step, k)
    BY <1>6
  <2>2. Obeys(F[n], D, measure, more, next, start, step, n)
    BY <1>6
  <2>3. Obeys(F[n], D, measure, more, next, start, step, k)
    <3>1. ASSUME NEW e \in D, measure[e] < k PROVE measure[e] < n
      <4>1. measure[e] \in Nat
        OBVIOUS
      <4> QED BY <1>10, <3>1, <4>1
    <3> QED BY <2>2, <3>1 DEF Obeys
  <2> HIDE DEF Descends
  <2>4. Agree(F[n], F[k], D, measure, k)
    BY <1>0, <2>1, <2>3, RecursionUnique
  <2> QED BY <1>10, <2>4 DEF Agree
<1> DEFINE h == [d \in D |-> F[measure[d] + 1][d]]
<1>7. h \in [D -> U]
  <2>1. ASSUME NEW d \in D PROVE F[measure[d] + 1][d] \in U
    <3>1. measure[d] + 1 \in Nat
      OBVIOUS
    <3>2. F[measure[d] + 1] \in [D -> U]
      BY <1>6, <3>1
    <3> QED BY <3>2
  <2> QED BY <2>1
<1>8. \A d \in D : h[d] = F[measure[d] + 1][d]
  OBVIOUS
<1> HIDE DEF h
<1>9. ASSUME NEW d \in D
      PROVE  h[d] = IF d \in more THEN step[d][h[next[d]]] ELSE start[d]
  <2> DEFINE n == measure[d] + 1
             f == F[n]
  <2>1. n \in Nat /\ measure[d] < n /\ measure[d] \in Nat
    OBVIOUS
  <2>2. Good(f, n)
    BY <1>6, <2>1
  <2>3. f[d] = IF d \in more THEN step[d][f[next[d]]] ELSE start[d]
    BY <2>1, <2>2 DEF Obeys
  <2>4. h[d] = f[d]
    BY <1>8
  <2>5. ASSUME d \in more PROVE f[next[d]] = h[next[d]]
    <3> DEFINE k == measure[next[d]] + 1
    <3>1. next[d] \in D /\ k \in Nat /\ measure[next[d]] < k /\ k <= n
      <4>1. /\ next[d] \in D /\ measure[next[d]] \in Nat
            /\ measure[next[d]] < measure[d]
        BY <2>5
      <4> QED BY <2>1, <4>1
    <3>2. h[next[d]] = F[k][next[d]]
      BY <1>8, <3>1
    <3> HIDE DEF k, n
    <3> QED BY <1>10, <2>1, <3>1, <3>2
  <2> HIDE DEF f, n
  <2> QED BY <2>3, <2>4, <2>5
<1> QED BY <1>7, <1>9 DEF Solves

(* A sequence of values, each found from the one before. *)
Runs(f, n, x, g) == f[0] = x /\ \A i \in 1..n : f[i] = g[i][f[i - 1]]

(* It exists. *)
LEMMA SequenceRecursion ==
    ASSUME NEW n \in Nat, NEW U, NEW x \in U, NEW g \in [1..n -> [U -> U]]
    PROVE  \E f \in [0..n -> U] : Runs(f, n, x, g)
<1> DEFINE D == 0..n
           measure == [i \in D |-> i]
           more == 1..n
           next == [i \in D |-> IF i = 0 THEN 0 ELSE i - 1]
           start == [i \in D |-> x]
           step == [i \in D |-> IF i = 0 THEN [u \in U |-> u] ELSE g[i]]
<1>1. /\ measure \in [D -> Nat] /\ more \in SUBSET D /\ next \in [D -> D]
      /\ start \in [D -> U]
  OBVIOUS
<1>2. step \in [D -> [U -> U]]
  <2>1. ASSUME NEW i \in D, i # 0 PROVE g[i] \in [U -> U]
    BY <2>1
  <2>2. [u \in U |-> u] \in [U -> U]
    OBVIOUS
  <2> QED BY <2>1, <2>2
<1>3. \A d \in D : d \in more => measure[next[d]] < measure[d]
  OBVIOUS
<1>4. /\ 0 \in D /\ 0 \notin more /\ start[0] = x
      /\ \A i \in 1..n : i \in D /\ i \in more /\ next[i] = i - 1 /\ step[i] = g[i]
  OBVIOUS
<1> HIDE DEF D, measure, more, next, start, step
<1>0. Descends(D, measure, more, next)
  BY <1>1, <1>3 DEF Descends
<1>5. PICK f \in [D -> U] : Solves(f, D, more, next, start, step)
  BY <1>0, <1>1, <1>2, Recursion
<1>6. f[0] = x /\ \A i \in 1..n : f[i] = g[i][f[i - 1]]
  BY <1>4, <1>5 DEF Solves
<1> QED BY <1>5, <1>6 DEF D, Runs

(* What holds of d when it holds of what follows d holds everywhere. *)
LEMMA DownInduction ==
    ASSUME NEW D, NEW measure, NEW more, NEW next, Descends(D, measure, more, next),
           NEW P, \A d \in D : (d \in more => next[d] \in P) => d \in P
    PROVE  D \subseteq P
<1> USE DEF Descends
<1> DEFINE N == {n \in Nat : \A d \in D : measure[d] < n => d \in P}
<1>1. 0 \in N
  OBVIOUS
<1>2. ASSUME NEW n \in Nat, n \in N, NEW d \in D, measure[d] < n + 1
      PROVE  d \in P
  <2>1. ASSUME d \in more PROVE next[d] \in P
    <3>1. next[d] \in D /\ measure[next[d]] \in Nat /\ measure[d] \in Nat
          /\ measure[next[d]] < measure[d]
      BY <2>1
    <3> QED BY <1>2, <3>1
  <2> QED BY <2>1
<1>3. \A n \in Nat : n \in N => n + 1 \in N
  BY <1>2
<1>4. \A n \in Nat : n \in N
  <2> HIDE DEF N
  <2> QED BY <1>1, <1>3, Induction
<1>5. ASSUME NEW d \in D PROVE d \in P
  <2>1. measure[d] \in Nat /\ measure[d] + 1 \in N
    BY <1>4
  <2> QED BY <2>1
<1> QED BY <1>5

-----------------------------------------------------------------------------
(* convert and convertHex.                                                  *)

Abs(i) == IF i < 0 THEN -i ELSE i

(* A turn of convert's loop takes the last digit off, whatever the sign. *)
LEMMA TurnDecimal ==
    ASSUME NEW i \in Int
    PROVE  /\ Quotient(i, 10) \in Int /\ Remainder(i, 10) \in -9..9 /\ Abs(i) \in Nat
           /\ Abs(i) = 10 * Abs(Quotient(i, 10)) + Abs(Remainder(i, 10))
           /\ Quotient(i, 10) # 0 => Abs(Quotient(i, 10)) < Abs(i)
<1>1. CASE i < 0
  <2> DEFINE k == -i
             q == k \div 10
  <2>1. k \in Nat /\ q \in Nat /\ 10 * q <= k /\ k < 10 * q + 10
    BY <1>1
  <2>2. Quotient(i, 10) = -q
    BY <1>1 DEF Quotient
  <2> HIDE DEF q
  <2>3. Remainder(i, 10) = 10 * q - k
    BY <2>1, <2>2 DEF Remainder
  <2>4. Abs(i) = k /\ Abs(-q) = q /\ Abs(10 * q - k) = k - 10 * q
    BY <1>1, <2>1 DEF Abs
  <2> HIDE DEF k
  <2>5. 10 * q - k \in -9..9 /\ -q \in Int /\ k = 10 * q + (k - 10 * q)
    BY <2>1
  <2>6. -q # 0 => q < k
    BY <2>1
  <2> QED BY <2>1, <2>2, <2>3, <2>4, <2>5, <2>6
<1>2. CASE ~(i < 0)
  <2> DEFINE q == i \div 10
  <2>1. i \in Nat /\ q \in Nat /\ 10 * q <= i /\ i < 10 * q + 10
    BY <1>2
  <2>2. Quotient(i, 10) = q
    BY <1>2 DEF Quotient
  <2> HIDE DEF q
  <2>3. Remainder(i, 10) = i - 10 * q
    BY <2>1, <2>2 DEF Remainder
  <2>4. Abs(i) = i /\ Abs(q) = q /\ Abs(i - 10 * q) = i - 10 * q
    BY <1>2, <2>1 DEF Abs
  <2>5. i - 10 * q \in -9..9 /\ i = 10 * q + (i - 10 * q)
    BY <2>1
  <2>6. q # 0 => q < i
    BY <2>1
  <2> QED BY <2>1, <2>2, <2>3, <2>4, <2>5, <2>6
<1> QED BY <1>1, <1>2

(* The digits of one base, as strings. *)
DigitSet(base) == {DigitsHex[n + 1] : n \in 0..base - 1}

(* The bytes of a record; the provers do not know which strings there are.  *)
Chars == STRING \union DigitSet(16) \union Levels
    \union {"-", "0", "x", "time", "us", "tid ", " ", "strerror", " (errno=", ") ", "func",
            " - ", "basename", ":", "\n"}

(* The table convertHex uses has a digit for each number. *)
LEMMA HexDigits ==
    ASSUME NEW base \in {10, 16}, NEW n \in 0..base - 1
    PROVE  /\ DigitsHex[n + 1] \in DigitSet(base)
           /\ DigitsHex[n + 1] \in Chars
           /\ DigitValue(DigitsHex[n + 1], base) = n
<1>0. /\ DigitsHex[1] = "0" /\ DigitsHex[2] = "1" /\ DigitsHex[3] = "2" /\ DigitsHex[4] = "3"
      /\ DigitsHex[5] = "4" /\ DigitsHex[6] = "5" /\ DigitsHex[7] = "6" /\ DigitsHex[8] = "7"
      /\ DigitsHex[9] = "8" /\ DigitsHex[10] = "9" /\ DigitsHex[11] = "A" /\ DigitsHex[12] = "B"
      /\ DigitsHex[13] = "C" /\ DigitsHex[14] = "D" /\ DigitsHex[15] = "E" /\ DigitsHex[16] = "F"
  BY DEF DigitsHex
<1> HIDE DEF DigitsHex
<1>1. \A i, j \in 1..16 : DigitsHex[i] = DigitsHex[j] => i = j
  <2> DEFINE place(d) ==
            CASE d = "0" -> 1 [] d = "1" -> 2 [] d = "2" -> 3 [] d = "3" -> 4
            [] d = "4" -> 5 [] d = "5" -> 6 [] d = "6" -> 7 [] d = "7" -> 8
            [] d = "8" -> 9 [] d = "9" -> 10 [] d = "A" -> 11 [] d = "B" -> 12
            [] d = "C" -> 13 [] d = "D" -> 14 [] d = "E" -> 15 [] d = "F" -> 16
  <2>1. \A i \in 1..16 : place(DigitsHex[i]) = i
    BY <1>0
  <2> HIDE DEF place
  <2> QED BY <2>1
<1>3. n \in 0..15
  OBVIOUS
<1>4. \E m \in 0..base - 1 : DigitsHex[m + 1] = DigitsHex[n + 1]
  OBVIOUS
<1>5. PICK m \in 0..base - 1 : m = DigitValue(DigitsHex[n + 1], base)
                               /\ DigitsHex[m + 1] = DigitsHex[n + 1]
  BY <1>4 DEF DigitValue
<1>6. m + 1 \in 1..16 /\ n + 1 \in 1..16
  OBVIOUS
<1>7. DigitsHex[n + 1] \in DigitSet(base) /\ DigitsHex[n + 1] \in DigitSet(16)
  BY <1>3 DEF DigitSet
<1>8. m = n
  BY <1>1, <1>5, <1>6
<1> QED BY <1>5, <1>7, <1>8 DEF Chars

(* zero's table has, on either side, the digits of the numbers. *)
LEMMA DecimalDigits ==
    ASSUME NEW r \in -9..9
    PROVE  Zero(r) = DigitsHex[Abs(r) + 1] /\ Abs(r) \in 0..9
<1>1. r \in {-9, -8, -7, -6, -5, -4, -3, -2, -1, 0, 1, 2, 3, 4, 5, 6, 7, 8, 9}
  OBVIOUS
<1>2. ASSUME r < 0 PROVE Zero(r) = DigitsHex[-r + 1]
  BY <1>1, <1>2 DEF Zero, Digits, DigitsHex
<1>3. ASSUME ~(r < 0) PROVE Zero(r) = DigitsHex[r + 1]
  BY <1>1, <1>3 DEF Zero, Digits, DigitsHex
<1> QED BY <1>2, <1>3 DEF Abs

(* convert's function of what is left of the number, turn by turn.          *)
LEMMA ReversedIs ==
    /\ Reversed \in [Int -> Seq(Chars)]
    /\ \A i \in Int : Reversed[i] =
          <<Zero(Remainder(i, 10))>>
            \o (IF Quotient(i, 10) # 0 THEN Reversed[Quotient(i, 10)] ELSE <<>>)
<1> DEFINE first(i) == <<Zero(Remainder(i, 10))>>
           more == {i \in Int : Quotient(i, 10) # 0}
           measure == [i \in Int |-> Abs(i)]
           next == [i \in Int |-> Quotient(i, 10)]
           start == [i \in Int |-> first(i) \o <<>>]
           step == [i \in Int |-> [u \in Seq(Chars) |-> first(i) \o u]]
           Is(h) == h = [i \in Int |-> LET rest == Quotient(i, 10) IN
                           <<Zero(Remainder(i, 10))>> \o (IF More(rest) THEN h[rest] ELSE <<>>)]
<1>1. \A i \in Int : first(i) \in Seq(Chars)
  <2> SUFFICES ASSUME NEW i \in Int PROVE Zero(Remainder(i, 10)) \in Chars
    OBVIOUS
  <2>1. Remainder(i, 10) \in -9..9
    BY TurnDecimal
  <2>2. Zero(Remainder(i, 10)) = DigitsHex[Abs(Remainder(i, 10)) + 1]
        /\ Abs(Remainder(i, 10)) \in 0..10 - 1
    BY <2>1, DecimalDigits
  <2> QED BY <2>2, HexDigits
<1>2. /\ \A i \in Int : Quotient(i, 10) \in Int /\ Abs(i) \in Nat
      /\ \A i \in Int : Quotient(i, 10) # 0 => Abs(Quotient(i, 10)) < Abs(i)
  BY TurnDecimal
<1> HIDE DEF first
<1>3. start \in [Int -> Seq(Chars)] /\ step \in [Int -> [Seq(Chars) -> Seq(Chars)]]
  <2>1. \A s, t \in Seq(Chars) : s \o t \in Seq(Chars)
    OBVIOUS
  <2>2. <<>> \in Seq(Chars)
    OBVIOUS
  <2> QED BY <1>1, <2>1, <2>2
<1>4. Descends(Int, measure, more, next)
  BY <1>2 DEF Descends
<1>5. \A i \in Int : /\ start[i] = first(i) \o <<>>
                     /\ \A u \in Seq(Chars) : step[i][u] = first(i) \o u
                     /\ next[i] = Quotient(i, 10)
                     /\ i \in more <=> Quotient(i, 10) # 0
  OBVIOUS
<1> HIDE DEF more, measure, next, start, step
<1>6. PICK f \in [Int -> Seq(Chars)] : Solves(f, Int, more, next, start, step)
  BY <1>3, <1>4, Recursion
<1>7. \A i \in Int : f[i] = first(i) \o (IF More(Quotient(i, 10)) THEN f[Quotient(i, 10)] ELSE <<>>)
  <2> SUFFICES ASSUME NEW i \in Int
               PROVE  f[i] = first(i) \o (IF More(Quotient(i, 10)) THEN f[Quotient(i, 10)] ELSE <<>>)
    OBVIOUS
  <2>1. f[i] = IF i \in more THEN step[i][f[next[i]]] ELSE start[i]
    BY <1>6 DEF Solves
  <2>2. f[Quotient(i, 10)] \in Seq(Chars)
    BY <1>2, <1>6
  <2>3. CASE i \in more
    <3>1. f[i] = step[i][f[Quotient(i, 10)]] /\ Quotient(i, 10) # 0
      BY <1>5, <2>1, <2>3
    <3>2. step[i][f[Quotient(i, 10)]] = first(i) \o f[Quotient(i, 10)]
      BY <1>5, <2>2
    <3> QED BY <3>1, <3>2 DEF More
  <2>4. CASE i \notin more
    <3>1. f[i] = first(i) \o <<>> /\ ~(Quotient(i, 10) # 0)
      BY <1>5, <2>1, <2>4
    <3> QED BY <3>1 DEF More
  <2> QED BY <2>3, <2>4
<1>8. Is(f)
  BY <1>6, <1>7 DEF first
<1>9. Reversed = CHOOSE h : Is(h)
  BY DEF Reversed
<1>10. Is(Reversed)
  BY <1>8, <1>9, Zenon
<1>11. \A i \in Int : Reversed[i] =
          first(i) \o (IF Quotient(i, 10) # 0 THEN Reversed[Quotient(i, 10)] ELSE <<>>)
  <2>1. Reversed = [i \in Int |->
          first(i) \o (IF More(Quotient(i, 10)) THEN Reversed[Quotient(i, 10)] ELSE <<>>)]
    BY <1>10 DEF first
  <2>2. \A i \in Int : Reversed[i] =
          first(i) \o (IF More(Quotient(i, 10)) THEN Reversed[Quotient(i, 10)] ELSE <<>>)
    BY <2>1, Zenon
  <2> QED BY <2>2 DEF More
<1>13. \A s, t \in Seq(Chars) : s \o t \in Seq(Chars) /\ s \o <<>> \in Seq(Chars)
  OBVIOUS
<1> DEFINE P == {i \in Int : Reversed[i] \in Seq(Chars)}
<1>12. ASSUME NEW i \in Int, i \in more => next[i] \in P
       PROVE  i \in P
  <2>1. CASE Quotient(i, 10) # 0
    <3>1. Reversed[i] = first(i) \o Reversed[Quotient(i, 10)]
      BY <1>11, <2>1
    <3>2. Reversed[Quotient(i, 10)] \in Seq(Chars)
      BY <1>5, <1>12, <2>1
    <3> QED BY <1>1, <1>12, <1>13, <3>1, <3>2
  <2>2. CASE ~(Quotient(i, 10) # 0)
    <3>1. Reversed[i] = first(i) \o <<>>
      BY <1>11, <2>2
    <3> QED BY <1>1, <1>12, <1>13, <3>1
  <2> QED BY <2>1, <2>2
<1>16. \A i \in Int : Reversed[i] \in Seq(Chars)
  <2>1. \A i \in Int : (i \in more => next[i] \in P) => i \in P
    BY <1>12
  <2>2. Int \subseteq P
    <3> HIDE DEF P
    <3> QED BY <1>4, <2>1, DownInduction
  <2> QED BY <2>2
<1>17. Reversed \in [Int -> Seq(Chars)]
  <2>1. Reversed = [i \in Int |->
          first(i) \o (IF More(Quotient(i, 10)) THEN Reversed[Quotient(i, 10)] ELSE <<>>)]
    BY <1>10 DEF first
  <2> DEFINE e(i) == first(i) \o (IF More(Quotient(i, 10)) THEN Reversed[Quotient(i, 10)] ELSE <<>>)
  <2>2. Reversed = [i \in Int |-> e(i)]
    BY <2>1
  <2> HIDE DEF e
  <2>3. \A i \in Int : e(i) \in Seq(Chars)
    BY <1>16, <2>2
  <2> QED BY <2>2, <2>3
<1> QED BY <1>11, <1>17 DEF first

(* convertHex's, likewise. *)
LEMMA ReversedHexIs ==
    /\ ReversedHex \in [Nat -> Seq(Chars)]
    /\ \A i \in Nat : ReversedHex[i] =
          <<DigitsHex[(i % 16) + 1]>>
            \o (IF (i \div 16) # 0 THEN ReversedHex[(i \div 16)] ELSE <<>>)
<1> DEFINE first(i) == <<DigitsHex[(i % 16) + 1]>>
           more == {i \in Nat : (i \div 16) # 0}
           measure == [i \in Nat |-> i]
           next == [i \in Nat |-> (i \div 16)]
           start == [i \in Nat |-> first(i) \o <<>>]
           step == [i \in Nat |-> [u \in Seq(Chars) |-> first(i) \o u]]
           Is(h) == h = [i \in Nat |-> LET rest == i \div 16 IN
                           <<DigitsHex[(i % 16) + 1]>> \o (IF More(rest) THEN h[rest] ELSE <<>>)]
<1>1. \A i \in Nat : first(i) \in Seq(Chars)
  <2> SUFFICES ASSUME NEW i \in Nat PROVE DigitsHex[(i % 16) + 1] \in Chars
    OBVIOUS
  <2>1. i % 16 \in 0..16 - 1
    OBVIOUS
  <2> QED BY <2>1, HexDigits
<1>2. /\ \A i \in Nat : (i \div 16) \in Nat /\ i \in Nat
      /\ \A i \in Nat : (i \div 16) # 0 => (i \div 16) < i
  OBVIOUS
<1> HIDE DEF first
<1>3. start \in [Nat -> Seq(Chars)] /\ step \in [Nat -> [Seq(Chars) -> Seq(Chars)]]
  <2>1. \A s, t \in Seq(Chars) : s \o t \in Seq(Chars)
    OBVIOUS
  <2>2. <<>> \in Seq(Chars)
    OBVIOUS
  <2> QED BY <1>1, <2>1, <2>2
<1>4. Descends(Nat, measure, more, next)
  BY <1>2 DEF Descends
<1>5. \A i \in Nat : /\ start[i] = first(i) \o <<>>
                     /\ \A u \in Seq(Chars) : step[i][u] = first(i) \o u
                     /\ next[i] = (i \div 16)
                     /\ i \in more <=> (i \div 16) # 0
  OBVIOUS
<1> HIDE DEF more, measure, next, start, step
<1>6. PICK f \in [Nat -> Seq(Chars)] : Solves(f, Nat, more, next, start, step)
  BY <1>3, <1>4, Recursion
<1>7. \A i \in Nat : f[i] = first(i) \o (IF More((i \div 16)) THEN f[(i \div 16)] ELSE <<>>)
  <2> SUFFICES ASSUME NEW i \in Nat
               PROVE  f[i] = first(i) \o (IF More((i \div 16)) THEN f[(i \div 16)] ELSE <<>>)
    OBVIOUS
  <2>1. f[i] = IF i \in more THEN step[i][f[next[i]]] ELSE start[i]
    BY <1>6 DEF Solves
  <2>2. f[(i \div 16)] \in Seq(Chars)
    BY <1>2, <1>6
  <2>3. CASE i \in more
    <3>1. f[i] = step[i][f[(i \div 16)]] /\ (i \div 16) # 0
      BY <1>5, <2>1, <2>3
    <3>2. step[i][f[(i \div 16)]] = first(i) \o f[(i \div 16)]
      BY <1>5, <2>2
    <3> QED BY <3>1, <3>2 DEF More
  <2>4. CASE i \notin more
    <3>1. f[i] = first(i) \o <<>> /\ ~((i \div 16) # 0)
      BY <1>5, <2>1, <2>4
    <3> QED BY <3>1 DEF More
  <2> QED BY <2>3, <2>4
<1>8. Is(f)
  BY <1>6, <1>7 DEF first
<1>9. ReversedHex = CHOOSE h : Is(h)
  BY DEF ReversedHex
<1>10. Is(ReversedHex)
  BY <1>8, <1>9, Zenon
<1>11. \A i \in Nat : ReversedHex[i] =
          first(i) \o (IF (i \div 16) # 0 THEN ReversedHex[(i \div 16)] ELSE <<>>)
  <2>1. ReversedHex = [i \in Nat |->
          first(i) \o (IF More((i \div 16)) THEN ReversedHex[(i \div 16)] ELSE <<>>)]
    BY <1>10 DEF first
  <2>2. \A i \in Nat : ReversedHex[i] =
          first(i) \o (IF More((i \div 16)) THEN ReversedHex[(i \div 16)] ELSE <<>>)
    BY <2>1, Zenon
  <2> QED BY <2>2 DEF More
<1>13. \A s, t \in Seq(Chars) : s \o t \in Seq(Chars) /\ s \o <<>> \in Seq(Chars)
  OBVIOUS
<1> DEFINE P == {i \in Nat : ReversedHex[i] \in Seq(Chars)}
<1>12. ASSUME NEW i \in Nat, i \in more => next[i] \in P
       PROVE  i \in P
  <2>1. CASE (i \div 16) # 0
    <3>1. ReversedHex[i] = first(i) \o ReversedHex[(i \div 16)]
      BY <1>11, <2>1
    <3>2. ReversedHex[(i \div 16)] \in Seq(Chars)
      BY <1>5, <1>12, <2>1
    <3> QED BY <1>1, <1>12, <1>13, <3>1, <3>2
  <2>2. CASE ~((i \div 16) # 0)
    <3>1. ReversedHex[i] = first(i) \o <<>>
      BY <1>11, <2>2
    <3> QED BY <1>1, <1>12, <1>13, <3>1
  <2> QED BY <2>1, <2>2
<1>16. \A i \in Nat : ReversedHex[i] \in Seq(Chars)
  <2>1. \A i \in Nat : (i \in more => next[i] \in P) => i \in P
    BY <1>12
  <2>2. Nat \subseteq P
    <3> HIDE DEF P
    <3> QED BY <1>4, <2>1, DownInduction
  <2> QED BY <2>2
<1>17. ReversedHex \in [Nat -> Seq(Chars)]
  <2>1. ReversedHex = [i \in Nat |->
          first(i) \o (IF More((i \div 16)) THEN ReversedHex[(i \div 16)] ELSE <<>>)]
    BY <1>10 DEF first
  <2> DEFINE e(i) == first(i) \o (IF More((i \div 16)) THEN ReversedHex[(i \div 16)] ELSE <<>>)
  <2>2. ReversedHex = [i \in Nat |-> e(i)]
    BY <2>1
  <2> HIDE DEF e
  <2>3. \A i \in Nat : e(i) \in Seq(Chars)
    BY <1>16, <2>2
  <2> QED BY <2>2, <2>3
<1> QED BY <1>11, <1>17 DEF first

(* What reversing does to one end comes to the other. *)
LEMMA ReverseEnds ==
    ASSUME NEW S, NEW s \in Seq(S), NEW d \in S
    PROVE  /\ Reverse(s) \in Seq(S) /\ Len(Reverse(s)) = Len(s)
           /\ Reverse(<<d>> \o s) = Append(Reverse(s), d)
           /\ Reverse(s \o <<d>>) = <<d>> \o Reverse(s)
<1> DEFINE n == Len(s)
<1>0. n \in Nat /\ \A i \in 1..n : s[i] \in S
  OBVIOUS
<1>1. \A t \in Seq(S) : /\ Reverse(t) = [i \in 1..Len(t) |-> t[Len(t) - i + 1]]
                        /\ Reverse(t) \in Seq(S) /\ Len(Reverse(t)) = Len(t)
                        /\ \A i \in 1..Len(t) : Reverse(t)[i] = t[Len(t) - i + 1]
  <2> SUFFICES ASSUME NEW t \in Seq(S)
               PROVE  /\ Reverse(t) = [i \in 1..Len(t) |-> t[Len(t) - i + 1]]
                      /\ Reverse(t) \in Seq(S) /\ Len(Reverse(t)) = Len(t)
                      /\ \A i \in 1..Len(t) : Reverse(t)[i] = t[Len(t) - i + 1]
    OBVIOUS
  <2> DEFINE k == Len(t)
             r == [i \in 1..k |-> t[k - i + 1]]
  <2>1. Reverse(t) = r
    BY DEF Reverse
  <2>2. k \in Nat /\ \A i \in 1..k : t[k - i + 1] \in S
    OBVIOUS
  <2>3. r \in [1..k -> S]
    BY <2>2
  <2>4. \A i \in 1..k : r[i] = t[k - i + 1]
    OBVIOUS
  <2> HIDE DEF r
  <2>5. r \in Seq(S) /\ Len(r) = k
    BY <2>2, <2>3
  <2> QED BY <2>1, <2>4, <2>5 DEF r
<1>2. Reverse(<<d>> \o s) = Append(Reverse(s), d)
  <2> DEFINE t == <<d>> \o s
  <2>1. t \in Seq(S) /\ Len(t) = n + 1 /\ t[1] = d /\ \A i \in 2..n + 1 : t[i] = s[i - 1]
    OBVIOUS
  <2> HIDE DEF t
  <2>2. Reverse(t) \in Seq(S) /\ Len(Reverse(t)) = n + 1
        /\ \A i \in 1..n + 1 : Reverse(t)[i] = t[n + 1 - i + 1]
    BY <1>1, <2>1
  <2>3. Reverse(s) \in Seq(S) /\ Len(Reverse(s)) = n
        /\ \A i \in 1..n : Reverse(s)[i] = s[n - i + 1]
    BY <1>1
  <2> HIDE DEF n
  <2> DEFINE u == Append(Reverse(s), d)
  <2>4. u \in Seq(S) /\ Len(u) = n + 1 /\ u[n + 1] = d /\ \A i \in 1..n : u[i] = Reverse(s)[i]
    BY <1>0, <2>3
  <2> HIDE DEF u
  <2>5. ASSUME NEW i \in 1..n + 1 PROVE Reverse(t)[i] = u[i]
    <3>1. CASE i = n + 1
      <4>1. u[i] = d /\ n + 1 - i + 1 = 1
        BY <1>0, <2>4, <3>1
      <4> QED BY <2>1, <2>2, <4>1
    <3>2. CASE i \in 1..n
      <4>1. u[i] = s[n - i + 1]
        BY <2>3, <2>4, <3>2
      <4> DEFINE j == n + 1 - i + 1
      <4>2. j \in 2..n + 1 /\ j - 1 = n - i + 1
        BY <1>0, <3>2
      <4>3. Reverse(t)[i] = t[j]
        BY <2>2
      <4> HIDE DEF j
      <4>4. t[j] = s[j - 1]
        BY <2>1, <4>2
      <4> QED BY <4>1, <4>2, <4>3, <4>4
    <3> QED BY <1>0, <3>1, <3>2
  <2> QED BY <2>2, <2>4, <2>5, SeqEqual DEF t, u
<1>3. Reverse(s \o <<d>>) = <<d>> \o Reverse(s)
  <2> DEFINE t == s \o <<d>>
             u == <<d>> \o Reverse(s)
  <2>1. t \in Seq(S) /\ Len(t) = n + 1 /\ t[n + 1] = d /\ \A i \in 1..n : t[i] = s[i]
    OBVIOUS
  <2> HIDE DEF t
  <2>2. Reverse(t) \in Seq(S) /\ Len(Reverse(t)) = n + 1
        /\ \A i \in 1..n + 1 : Reverse(t)[i] = t[n + 1 - i + 1]
    BY <1>1, <2>1
  <2>3. Reverse(s) \in Seq(S) /\ Len(Reverse(s)) = n
        /\ \A i \in 1..n : Reverse(s)[i] = s[n - i + 1]
    BY <1>1
  <2> HIDE DEF n
  <2>4. u \in Seq(S) /\ Len(u) = n + 1 /\ u[1] = d /\ \A i \in 2..n + 1 : u[i] = Reverse(s)[i - 1]
    BY <1>0, <2>3
  <2> HIDE DEF u
  <2>5. ASSUME NEW i \in 1..n + 1 PROVE Reverse(t)[i] = u[i]
    <3>1. CASE i = 1
      <4>1. n + 1 - i + 1 = n + 1
        BY <1>0, <3>1
      <4> QED BY <2>1, <2>2, <2>4, <3>1, <4>1
    <3>2. CASE i \in 2..n + 1
      <4>1. i - 1 \in 1..n /\ n - (i - 1) + 1 = n + 1 - i + 1 /\ n + 1 - i + 1 \in 1..n
        BY <1>0, <3>2
      <4>2. u[i] = s[n + 1 - i + 1]
        BY <2>3, <2>4, <3>2, <4>1
      <4> QED BY <2>1, <2>2, <4>1, <4>2
    <3> QED BY <1>0, <3>1, <3>2
  <2> QED BY <2>2, <2>4, <2>5, SeqEqual DEF t, u
<1> QED BY <1>1, <1>2, <1>3

(* What digits stand for, digit by digit. *)
LEMMA ValueIs ==
    ASSUME NEW base \in {10, 16}, NEW s \in Seq(DigitSet(base))
    PROVE  \E f \in [0..Len(s) -> Nat] :
              /\ Value(s, base) = f[Len(s)] /\ f[0] = 0
              /\ \A i \in 1..Len(s) : f[i] = base * f[i - 1] + DigitValue(s[i], base)
<1> DEFINE n == Len(s)
           dv(i) == DigitValue(s[i], base)
           g == [i \in 1..n |-> [u \in Nat |-> base * u + dv(i)]]
           Is(h) == h = [i \in 0..n |-> IF i = 0 THEN 0 ELSE base * h[i - 1] + dv(i)]
<1>1. n \in Nat
  OBVIOUS
<1>2. \A i \in 1..n : dv(i) \in Nat
  <2> SUFFICES ASSUME NEW i \in 1..n PROVE dv(i) \in Nat
    OBVIOUS
  <2>1. s[i] \in DigitSet(base)
    OBVIOUS
  <2>2. PICK k \in 0..base - 1 : s[i] = DigitsHex[k + 1]
    BY <2>1 DEF DigitSet
  <2>3. dv(i) = k
    BY <2>2, HexDigits
  <2> QED BY <2>3
<1>3. Value(s, base) = (CHOOSE h : Is(h))[n]
  BY DEF Value
<1> HIDE DEF dv
<1>4. \A u \in Nat, i \in 1..n : base * u + dv(i) \in Nat
  <2>1. CASE base = 10
    BY <1>2, <2>1
  <2>2. CASE base = 16
    BY <1>2, <2>2
  <2> QED BY <2>1, <2>2
<1>5. g \in [1..n -> [Nat -> Nat]]
  BY <1>4
<1>6. \A i \in 1..n, u \in Nat : g[i][u] = base * u + dv(i)
  OBVIOUS
<1> HIDE DEF g, n
<1>16. 0 \in Nat
  OBVIOUS
<1>17. PICK f \in [0..n -> Nat] : Runs(f, n, 0, g)
  BY <1>1, <1>5, <1>16, SequenceRecursion
<1>7. f[0] = 0 /\ \A i \in 1..n : f[i] = g[i][f[i - 1]]
  BY <1>17 DEF Runs
<1>8. \A i \in 1..n : f[i] = base * f[i - 1] + dv(i)
  <2> SUFFICES ASSUME NEW i \in 1..n PROVE f[i] = base * f[i - 1] + dv(i)
    OBVIOUS
  <2>1. i - 1 \in 0..n
    BY <1>1
  <2>2. f[i - 1] \in Nat
    BY <1>17, <2>1
  <2> QED BY <1>6, <1>7, <2>2
<1>9. Is(f)
  BY <1>1, <1>7, <1>8, <1>17
<1>10. PICK h : Is(h) /\ h = CHOOSE k : Is(k)
  BY <1>9, Zenon
<1>11. h[0] = 0 /\ \A i \in 1..n : h[i] = base * h[i - 1] + dv(i)
  BY <1>1, <1>10
<1> HIDE DEF Is
<1> DEFINE N == {k \in Nat : k <= n => h[k] = f[k]}
<1>12. 0 \in N
  BY <1>7, <1>11
<1>13. \A k \in Nat : k \in N => k + 1 \in N
  <2> SUFFICES ASSUME NEW k \in Nat, k \in N, k + 1 <= n PROVE h[k + 1] = f[k + 1]
    OBVIOUS
  <2>1. k + 1 \in 1..n /\ k + 1 - 1 = k /\ h[k] = f[k]
    BY <1>1
  <2> QED BY <1>8, <1>11, <2>1
<1>14. n \in N
  <2> HIDE DEF N
  <2> QED BY <1>1, <1>12, <1>13, Induction
<1>15. Value(s, base) = f[n]
  BY <1>3, <1>10, <1>14
<1> QED BY <1>7, <1>8, <1>15, <1>17 DEF dv, n

(* A digit more multiplies by the base. *)
LEMMA ValueAppend ==
    ASSUME NEW base \in {10, 16}, NEW s \in Seq(DigitSet(base)), NEW d \in DigitSet(base)
    PROVE  /\ Value(Append(s, d), base) = base * Value(s, base) + DigitValue(d, base)
           /\ Value(s, base) \in Nat
<1> DEFINE t == Append(s, d)
           n == Len(s)
<1>1. n \in Nat /\ t \in Seq(DigitSet(base)) /\ Len(t) = n + 1 /\ t[n + 1] = d
      /\ \A i \in 1..n : t[i] = s[i]
  OBVIOUS
<1> HIDE DEF t
<1>2. PICK f \in [0..n -> Nat] :
         /\ Value(s, base) = f[n] /\ f[0] = 0
         /\ \A i \in 1..n : f[i] = base * f[i - 1] + DigitValue(s[i], base)
  BY ValueIs
<1>3. PICK g \in [0..n + 1 -> Nat] :
         /\ Value(t, base) = g[n + 1] /\ g[0] = 0
         /\ \A i \in 1..n + 1 : g[i] = base * g[i - 1] + DigitValue(t[i], base)
  <2>1. \E g \in [0..Len(t) -> Nat] :
         /\ Value(t, base) = g[Len(t)] /\ g[0] = 0
         /\ \A i \in 1..Len(t) : g[i] = base * g[i - 1] + DigitValue(t[i], base)
    BY <1>1, ValueIs
  <2> QED BY <1>1, <2>1
<1> HIDE DEF n
<1> DEFINE N == {k \in Nat : k <= n => f[k] = g[k]}
<1>4. 0 \in N
  BY <1>2, <1>3
<1>5. \A k \in Nat : k \in N => k + 1 \in N
  <2> SUFFICES ASSUME NEW k \in Nat, k \in N, k + 1 <= n PROVE f[k + 1] = g[k + 1]
    OBVIOUS
  <2>1. k + 1 \in 1..n /\ k + 1 \in 1..n + 1 /\ k + 1 - 1 = k /\ f[k] = g[k]
    BY <1>1
  <2>2. f[k + 1] = base * f[k] + DigitValue(s[k + 1], base)
    BY <1>2, <2>1
  <2>3. g[k + 1] = base * g[k] + DigitValue(t[k + 1], base)
    BY <1>3, <2>1
  <2> QED BY <1>1, <2>1, <2>2, <2>3
<1>6. f[n] = g[n]
  <2>1. n \in N
    <3> HIDE DEF N
    <3> QED BY <1>1, <1>4, <1>5, Induction
  <2> QED BY <1>1, <2>1
<1>7. g[n + 1] = base * g[n] + DigitValue(d, base)
  <2>1. n + 1 \in 1..n + 1 /\ n + 1 - 1 = n
    BY <1>1
  <2> QED BY <1>1, <1>3, <2>1
<1>8. f[n] \in Nat
  BY <1>1
<1> QED BY <1>2, <1>3, <1>6, <1>7, <1>8 DEF t

(* No digits stand for nothing. *)
LEMMA ValueEmpty == \A base \in {10, 16} : Value(<<>>, base) = 0
<1> SUFFICES ASSUME NEW base \in {10, 16} PROVE Value(<<>>, base) = 0
  OBVIOUS
<1>1. <<>> \in Seq(DigitSet(base)) /\ Len(<<>>) = 0
  OBVIOUS
<1>2. PICK f \in [0..Len(<<>>) -> Nat] : Value(<<>>, base) = f[Len(<<>>)] /\ f[0] = 0
  BY <1>1, ValueIs
<1> QED BY <1>1, <1>2

(* What convert finds, put in order, is the number without its sign. *)
LEMMA DecimalReadBack ==
    \A i \in Int : /\ Reversed[i] \in Seq(DigitSet(10))
                   /\ Value(Reverse(Reversed[i]), 10) = Abs(i)
<1> DEFINE more == {i \in Int : Quotient(i, 10) # 0}
           measure == [i \in Int |-> Abs(i)]
           next == [i \in Int |-> Quotient(i, 10)]
           Good(i) == /\ Reversed[i] \in Seq(DigitSet(10))
                      /\ Value(Reverse(Reversed[i]), 10) = Abs(i)
           P == {i \in Int : Good(i)}
<1>1. Descends(Int, measure, more, next)
  BY TurnDecimal DEF Descends
<1>2. ASSUME NEW i \in Int, i \in more => next[i] \in P PROVE i \in P
  <2> DEFINE r == Remainder(i, 10)
             q == Quotient(i, 10)
             rest == IF q # 0 THEN Reversed[q] ELSE <<>>
             z == Zero(r)
  <2>1. /\ q \in Int /\ r \in -9..9 /\ Abs(i) \in Nat
        /\ Abs(i) = 10 * Abs(q) + Abs(r)
    BY TurnDecimal
  <2>2. z = DigitsHex[Abs(r) + 1] /\ Abs(r) \in 0..10 - 1
    BY <2>1, DecimalDigits
  <2>3. z \in DigitSet(10) /\ DigitValue(z, 10) = Abs(r)
    BY <2>2, HexDigits
  <2>4. Reversed[i] = <<z>> \o rest
    BY ReversedIs
  <2>5. rest \in Seq(DigitSet(10)) /\ Value(Reverse(rest), 10) = Abs(q)
    <3>1. CASE q # 0
      BY <1>2, <3>1
    <3>2. CASE q = 0
      <4>1. rest = <<>> /\ <<>> \in Seq(DigitSet(10)) /\ Abs(q) = 0
        BY <3>2 DEF Abs
      <4>2. Reverse(<<>>) = <<>>
        BY DEF Reverse
      <4> QED BY <4>1, <4>2, ValueEmpty
    <3> QED BY <3>1, <3>2
  <2> HIDE DEF rest, z, r, q
  <2>6. /\ Reverse(<<z>> \o rest) = Append(Reverse(rest), z)
        /\ Reverse(rest) \in Seq(DigitSet(10))
    BY <2>3, <2>5, ReverseEnds
  <2>7. Value(Append(Reverse(rest), z), 10) = 10 * Abs(q) + Abs(r)
    BY <2>3, <2>5, <2>6, ValueAppend
  <2>8. Value(Reverse(Reversed[i]), 10) = Abs(i)
    BY <2>1, <2>4, <2>6, <2>7
  <2>9. Reversed[i] \in Seq(DigitSet(10))
    <3>1. \A s \in Seq(DigitSet(10)), e \in DigitSet(10) : <<e>> \o s \in Seq(DigitSet(10))
      OBVIOUS
    <3> QED BY <2>3, <2>4, <2>5, <3>1
  <2> QED BY <2>8, <2>9
<1> HIDE DEF more, measure, next
<1>3. Int \subseteq P
  <2>1. \A i \in Int : (i \in more => next[i] \in P) => i \in P
    BY <1>2
  <2> HIDE DEF P
  <2> QED BY <1>1, <2>1, DownInduction
<1> QED BY <1>3

(* And likewise convertHex. *)
LEMMA HexReadBack ==
    \A i \in Nat : /\ ReversedHex[i] \in Seq(DigitSet(16))
                   /\ Value(Reverse(ReversedHex[i]), 16) = i
<1> DEFINE more == {i \in Nat : i \div 16 # 0}
           measure == [i \in Nat |-> i]
           next == [i \in Nat |-> i \div 16]
           Good(i) == /\ ReversedHex[i] \in Seq(DigitSet(16))
                      /\ Value(Reverse(ReversedHex[i]), 16) = i
           P == {i \in Nat : Good(i)}
<1>1. Descends(Nat, measure, more, next)
  BY DEF Descends
<1>2. ASSUME NEW i \in Nat, i \in more => next[i] \in P PROVE i \in P
  <2> DEFINE r == i % 16
             q == i \div 16
             rest == IF q # 0 THEN ReversedHex[q] ELSE <<>>
             z == DigitsHex[r + 1]
  <2>1. q \in Nat /\ r \in 0..16 - 1 /\ i = 16 * q + r
    OBVIOUS
  <2>3. z \in DigitSet(16) /\ DigitValue(z, 16) = r
    BY <2>1, HexDigits
  <2>4. ReversedHex[i] = <<z>> \o rest
    BY ReversedHexIs
  <2>5. rest \in Seq(DigitSet(16)) /\ Value(Reverse(rest), 16) = q
    <3>1. CASE q # 0
      BY <1>2, <3>1
    <3>2. CASE q = 0
      <4>1. rest = <<>> /\ <<>> \in Seq(DigitSet(16))
        BY <3>2
      <4>2. Reverse(<<>>) = <<>>
        BY DEF Reverse
      <4> QED BY <3>2, <4>1, <4>2, ValueEmpty
    <3> QED BY <3>1, <3>2
  <2> HIDE DEF rest, z, r, q
  <2>6. /\ Reverse(<<z>> \o rest) = Append(Reverse(rest), z)
        /\ Reverse(rest) \in Seq(DigitSet(16))
    BY <2>3, <2>5, ReverseEnds
  <2>7. Value(Append(Reverse(rest), z), 16) = 16 * q + r
    BY <2>3, <2>5, <2>6, ValueAppend
  <2>8. Value(Reverse(ReversedHex[i]), 16) = i
    BY <2>1, <2>4, <2>6, <2>7
  <2>9. ReversedHex[i] \in Seq(DigitSet(16))
    <3>1. \A s \in Seq(DigitSet(16)), e \in DigitSet(16) : <<e>> \o s \in Seq(DigitSet(16))
      OBVIOUS
    <3> QED BY <2>3, <2>4, <2>5, <3>1
  <2> QED BY <2>8, <2>9
<1> HIDE DEF more, measure, next
<1>3. Nat \subseteq P
  <2>1. \A i \in Nat : (i \in more => next[i] \in P) => i \in P
    BY <1>2
  <2> HIDE DEF P
  <2> QED BY <1>1, <2>1, DownInduction
<1> QED BY <1>3

(* For every number, whatever its sign: its digits can be read back.        *)
LEMMA NumbersAreReadBack == NumbersReadBack
<1>1. ASSUME NEW v \in Int, v < 0
      PROVE  Head(Convert(v)) = "-" /\ Value(Tail(Convert(v)), 10) = -v
  <2> DEFINE s == Reverse(Reversed[v])
  <2>1. Convert(v) = Reverse(Reversed[v] \o <<"-">>)
    BY <1>1 DEF Convert
  <2>2. Reversed[v] \in Seq(Chars) /\ "-" \in Chars
    BY ReversedIs DEF Chars
  <2>3. Reverse(Reversed[v] \o <<"-">>) = <<"-">> \o s /\ s \in Seq(Chars)
    BY <2>2, ReverseEnds
  <2>4. Value(s, 10) = -v
    BY <1>1, DecimalReadBack DEF Abs
  <2> HIDE DEF s
  <2>5. Head(<<"-">> \o s) = "-" /\ Tail(<<"-">> \o s) = s
    BY <2>3
  <2> QED BY <2>1, <2>3, <2>4, <2>5
<1>2. ASSUME NEW v \in Int, ~(v < 0) PROVE Value(Convert(v), 10) = v
  <2>1. Reversed[v] \in Seq(Chars) /\ \A s \in Seq(Chars) : s \o <<>> = s
    BY ReversedIs
  <2>2. Convert(v) = Reverse(Reversed[v])
    BY <1>2, <2>1 DEF Convert
  <2> QED BY <1>2, <2>2, DecimalReadBack DEF Abs
<1>3. ASSUME NEW v \in Nat PROVE Value(ConvertHex(v), 16) = v
  BY HexReadBack DEF ConvertHex
<1>4. \A v \in -NumbersUpTo..NumbersUpTo : v \in Int
  OBVIOUS
<1>5. \A v \in 0..NumbersUpTo : v \in Nat
  OBVIOUS
<1> QED BY <1>1, <1>2, <1>3, <1>4, <1>5 DEF NumbersReadBack

-----------------------------------------------------------------------------
(* Records.                                                                 *)

(* The items with their bytes. *)
ItemKinds == [kind : {"text"}, bytes : Seq(Chars)] \union [kind : {"number"}, value : Int]
                \union [kind : {"pointer"}, value : Nat]

(* Sequences over a set are sequences over a larger one. *)
LEMMA SeqMonotone ==
    ASSUME NEW S, NEW T, S \subseteq T, NEW s \in Seq(S) PROVE s \in Seq(T)
<1>1. Len(s) \in Nat /\ DOMAIN s = 1..Len(s) /\ s = [i \in 1..Len(s) |-> s[i]]
  OBVIOUS
<1>2. \A i \in 1..Len(s) : s[i] \in T
  OBVIOUS
<1>3. [i \in 1..Len(s) |-> s[i]] \in Seq(T)
  BY <1>1, <1>2
<1> QED BY <1>1, <1>3

(* The texts of the head and the tail are items, and numbers are. *)
LEMMA ItemParts ==
    /\ \A c \in Chars : Text(<<c>>) \in ItemKinds
    /\ \A v \in Int : Number(v) \in ItemKinds
    /\ ItemSet \subseteq ItemKinds
<1>1. ASSUME NEW c \in Chars PROVE Text(<<c>>) \in ItemKinds
  <2>1. <<c>> \in Seq(Chars)
    OBVIOUS
  <2> QED BY <2>1 DEF Text, ItemKinds
<1>2. ASSUME NEW v \in Int PROVE Number(v) \in ItemKinds
  BY DEF Number, ItemKinds
<1>3. ItemSet \subseteq ItemKinds
  <2> SUFFICES ASSUME NEW e \in ItemSet PROVE e \in ItemKinds
    OBVIOUS
  <2>1. CASE e \in [kind : {"text"}, bytes : Seq(STRING)]
    <3>1. PICK b \in Seq(STRING) : e = [kind |-> "text", bytes |-> b]
      BY <2>1
    <3>2. STRING \subseteq Chars
      BY Zenon DEF Chars
    <3> DEFINE S == STRING
    <3>3. b \in Seq(S) /\ S \subseteq Chars
      BY <3>1, <3>2, Zenon
    <3> HIDE DEF S
    <3>5. b \in Seq(Chars)
      BY <3>3, SeqMonotone
    <3> QED BY <3>1, <3>5 DEF ItemKinds
  <2>2. CASE e \in [kind : {"number"}, value : Int] \union [kind : {"pointer"}, value : Nat]
    BY <2>2 DEF ItemKinds
  <2> QED BY <2>1, <2>2 DEF ItemSet
<1> QED BY <1>1, <1>2, <1>3

(* The items of a statement are. *)
LEMMA ItemsAre ==
    ASSUME NEW s \in StatementSet
    PROVE  Items(s) \in Seq(ItemKinds)
<1> DEFINE I == ItemKinds
           t(c) == Text(<<c>>)
           n(v) == Number(v)
<1>0. /\ s.level \in Levels /\ s.errno \in Int /\ s.line \in Int
      /\ s.items \in Seq(ItemSet)
  BY DEF StatementSet
<1>1. /\ t("time") \in I /\ t("us") \in I /\ t("tid ") \in I /\ t(" ") \in I
      /\ t("strerror") \in I /\ t(" (errno=") \in I /\ t(") ") \in I /\ t("func") \in I
      /\ t(" - ") \in I /\ t("basename") \in I /\ t(":") \in I /\ t("\n") \in I
  <2>1. /\ "time" \in Chars /\ "us" \in Chars /\ "tid " \in Chars /\ " " \in Chars
        /\ "strerror" \in Chars /\ " (errno=" \in Chars /\ ") " \in Chars /\ "func" \in Chars
        /\ " - " \in Chars /\ "basename" \in Chars /\ ":" \in Chars /\ "\n" \in Chars
    BY DEF Chars
  <2> QED BY <2>1, ItemParts
<1>2. t(s.level) \in I
  <2>1. s.level \in Chars
    BY <1>0 DEF Chars
  <2> QED BY <2>1, ItemParts
<1>3. n(s.errno) \in I /\ n(s.line) \in I
  BY <1>0, ItemParts
<1>4. s.items \in Seq(I)
  BY <1>0, ItemParts
<1> DEFINE a == <<t("time"), t("us"), t("tid "), t(s.level), t(" ")>>
           b == IF s.errno # 0
                  THEN <<t("strerror"), t(" (errno="), n(s.errno), t(") ")>> ELSE <<>>
           c == IF s.level \in {"TRACE", "DEBUG", "INFO"} THEN <<t("func"), t(" ")>> ELSE <<>>
           d == <<t(" - "), t("basename"), t(":"), n(s.line), t("\n")>>
<1>5. Items(s) = ((a \o b) \o c) \o s.items \o d
  BY DEF Items, Header, Finish
<1> HIDE DEF I, t, n
<1>6. a \in Seq(I) /\ b \in Seq(I) /\ c \in Seq(I) /\ d \in Seq(I)
  <2>1. \A p1, p2, p3, p4, p5 \in I : <<p1, p2, p3, p4, p5>> \in Seq(I)
    OBVIOUS
  <2>2. \A p1, p2, p3, p4 \in I : <<p1, p2, p3, p4>> \in Seq(I)
    OBVIOUS
  <2>3. \A p1, p2 \in I : <<p1, p2>> \in Seq(I)
    OBVIOUS
  <2>4. <<>> \in Seq(I)
    OBVIOUS
  <2>5. a \in Seq(I)
    BY <1>1, <1>2, <2>1
  <2>6. b \in Seq(I)
    BY <1>1, <1>3, <2>2, <2>4
  <2>7. c \in Seq(I)
    BY <1>1, <2>3, <2>4
  <2>8. d \in Seq(I)
    BY <1>1, <1>3, <2>1
  <2> QED BY <2>5, <2>6, <2>7, <2>8
<1> HIDE DEF a, b, c, d
<1>7. \A x, y \in Seq(I) : x \o y \in Seq(I)
  OBVIOUS
<1>8. ((a \o b) \o c) \o s.items \o d \in Seq(I)
  BY <1>4, <1>6, <1>7
<1> QED BY <1>5, <1>8 DEF I

(* What is printed are bytes. *)
LEMMA PrintedIs ==
    ASSUME NEW item \in ItemKinds
    PROVE  Printed(item) \in Seq(Chars)
<1>1. CASE item.kind = "text"
  <2>1. item.bytes \in Seq(Chars)
    BY <1>1 DEF ItemKinds
  <2> QED BY <1>1, <2>1 DEF Printed
<1>2. CASE item.kind = "number"
  <2>1. item.value \in Int
    BY <1>2 DEF ItemKinds
  <2> DEFINE v == item.value
             r == Reversed[v] \o (IF v < 0 THEN <<"-">> ELSE <<>>)
  <2>2. Reversed[v] \in Seq(Chars) /\ "-" \in Chars
    BY <2>1, ReversedIs DEF Chars
  <2>3. r \in Seq(Chars)
    BY <2>2
  <2>4. Reverse(r) \in Seq(Chars)
    BY <2>2, <2>3, ReverseEnds
  <2>5. Printed(item) = Reverse(r)
    BY <1>2 DEF Printed, Convert
  <2> QED BY <2>4, <2>5
<1>3. CASE item.kind = "pointer"
  <2>1. item.value \in Nat
    BY <1>3 DEF ItemKinds
  <2> DEFINE v == item.value
             x == <<"0", "x">>
  <2>2. ReversedHex[v] \in Seq(Chars) /\ "0" \in Chars /\ "x" \in Chars
    BY <2>1, ReversedHexIs DEF Chars
  <2> DEFINE r == ReversedHex[v]
             d == "0"
  <2>6. ConvertHex(v) = Reverse(r) /\ r \in Seq(Chars) /\ d \in Chars
    BY <2>2 DEF ConvertHex
  <2>7. x \in Seq(Chars)
    BY <2>2
  <2> HIDE DEF r, d
  <2>8. Reverse(r) \in Seq(Chars)
    BY <2>6, ReverseEnds
  <2>3. ConvertHex(v) \in Seq(Chars) /\ x \in Seq(Chars)
    BY <2>6, <2>7, <2>8
  <2>4. Printed(item) = x \o ConvertHex(v)
    BY <1>3 DEF Printed
  <2> HIDE DEF x, v
  <2>5. x \o ConvertHex(v) \in Seq(Chars)
    BY <2>3
  <2> QED BY <2>4, <2>5
<1>4. item.kind \in {"text", "number", "pointer"}
  BY DEF ItemKinds
<1> QED BY <1>1, <1>2, <1>3, <1>4

(* What is inserted is bytes. *)
LEMMA InsertIs ==
    ASSUME NEW item \in ItemKinds, NEW buf \in Seq(Chars)
    PROVE  /\ Insert(buf, item) \in Seq(Chars)
           /\ buf \o Printed(item) \in Seq(Chars)
           /\ Len(buf \o Printed(item)) = Len(buf) + Len(Printed(item))
           /\ Len(buf) \in Nat /\ Len(Printed(item)) \in Nat
<1> DEFINE p == Printed(item)
<1>1. p \in Seq(Chars)
  BY PrintedIs
<1>2. Insert(buf, item) \in {buf, buf \o p}
  BY DEF Insert, AppendText, AppendNumber
<1> HIDE DEF p
<1>3. buf \o p \in Seq(Chars) /\ Len(buf \o p) = Len(buf) + Len(p)
      /\ Len(buf) \in Nat /\ Len(p) \in Nat
  BY <1>1
<1> QED BY <1>2, <1>3 DEF p

(* A record, item by item. *)
LEMMA RecordIs ==
    ASSUME NEW s \in StatementSet
    PROVE  \E f \in [0..Len(Items(s)) -> Seq(Chars)] :
              /\ Record(s) = f[Len(Items(s))] /\ f[0] = <<>>
              /\ \A i \in 1..Len(Items(s)) : f[i] = Insert(f[i - 1], Items(s)[i])
<1> DEFINE n == Len(Items(s))
           item(i) == Items(s)[i]
           g == [i \in 1..n |-> [u \in Seq(Chars) |-> Insert(u, item(i))]]
           Is(h) == h = [i \in 0..n |-> IF i = 0 THEN <<>> ELSE Insert(h[i - 1], item(i))]
<1>1. n \in Nat /\ \A i \in 1..n : item(i) \in ItemKinds
  BY ItemsAre
<1>2. Record(s) = (CHOOSE h : Is(h))[n]
  BY DEF Record
<1> HIDE DEF item
<1>3. \A u \in Seq(Chars), i \in 1..n : Insert(u, item(i)) \in Seq(Chars)
  BY <1>1, InsertIs
<1>4. g \in [1..n -> [Seq(Chars) -> Seq(Chars)]]
  BY <1>3
<1>5. \A i \in 1..n, u \in Seq(Chars) : g[i][u] = Insert(u, item(i))
  OBVIOUS
<1> HIDE DEF g, n
<1>6. <<>> \in Seq(Chars)
  OBVIOUS
<1>7. PICK f \in [0..n -> Seq(Chars)] : Runs(f, n, <<>>, g)
  BY <1>1, <1>4, <1>6, SequenceRecursion
<1>8. f[0] = <<>> /\ \A i \in 1..n : f[i] = Insert(f[i - 1], item(i))
  <2> SUFFICES ASSUME NEW i \in 1..n PROVE f[i] = Insert(f[i - 1], item(i))
    BY <1>7 DEF Runs
  <2>1. i - 1 \in 0..n
    BY <1>1
  <2>2. f[i - 1] \in Seq(Chars)
    BY <1>7, <2>1
  <2> QED BY <1>5, <1>7, <2>2 DEF Runs
<1>9. Is(f)
  BY <1>1, <1>7, <1>8
<1>10. PICK h : Is(h) /\ h = CHOOSE k : Is(k)
  BY <1>9, Zenon
<1>11. h[0] = <<>> /\ \A i \in 1..n : h[i] = Insert(h[i - 1], item(i))
  BY <1>1, <1>10
<1> HIDE DEF Is
<1> DEFINE N == {k \in Nat : k <= n => h[k] = f[k]}
<1>12. 0 \in N
  BY <1>8, <1>11
<1>13. \A k \in Nat : k \in N => k + 1 \in N
  <2> SUFFICES ASSUME NEW k \in Nat, k \in N, k + 1 <= n PROVE h[k + 1] = f[k + 1]
    OBVIOUS
  <2>1. k + 1 \in 1..n /\ k + 1 - 1 = k /\ h[k] = f[k]
    BY <1>1
  <2> QED BY <1>8, <1>11, <2>1
<1>14. n \in N
  <2> HIDE DEF N
  <2> QED BY <1>1, <1>12, <1>13, Induction
<1>15. Record(s) = f[n]
  BY <1>2, <1>10, <1>14
<1> QED BY <1>7, <1>8, <1>15 DEF item, n

(* The same without a limit. *)
LEMMA WholeIs ==
    ASSUME NEW s \in StatementSet
    PROVE  \E f \in [0..Len(Items(s)) -> Seq(Chars)] :
              /\ Whole(s) = f[Len(Items(s))] /\ f[0] = <<>>
              /\ \A i \in 1..Len(Items(s)) : f[i] = f[i - 1] \o Printed(Items(s)[i])
<1> DEFINE n == Len(Items(s))
           item(i) == Items(s)[i]
           Longer(u, p) == u \o Printed(p)
           g == [i \in 1..n |-> [u \in Seq(Chars) |-> Longer(u, item(i))]]
           Is(h) == h = [i \in 0..n |-> IF i = 0 THEN <<>> ELSE Longer(h[i - 1], item(i))]
<1>1. n \in Nat /\ \A i \in 1..n : item(i) \in ItemKinds
  BY ItemsAre
<1>2. Whole(s) = (CHOOSE h : Is(h))[n]
  BY DEF Whole
<1> HIDE DEF item
<1>3. \A u \in Seq(Chars), i \in 1..n : Longer(u, item(i)) \in Seq(Chars)
  BY <1>1, InsertIs
<1>4. g \in [1..n -> [Seq(Chars) -> Seq(Chars)]]
  BY <1>3
<1>5. \A i \in 1..n, u \in Seq(Chars) : g[i][u] = Longer(u, item(i))
  OBVIOUS
<1> HIDE DEF g, n, Longer
<1>6. <<>> \in Seq(Chars)
  OBVIOUS
<1>7. PICK f \in [0..n -> Seq(Chars)] : Runs(f, n, <<>>, g)
  BY <1>1, <1>4, <1>6, SequenceRecursion
<1>8. f[0] = <<>> /\ \A i \in 1..n : f[i] = Longer(f[i - 1], item(i))
  <2> SUFFICES ASSUME NEW i \in 1..n PROVE f[i] = Longer(f[i - 1], item(i))
    BY <1>7 DEF Runs
  <2>1. i - 1 \in 0..n
    BY <1>1
  <2>2. f[i - 1] \in Seq(Chars)
    BY <1>7, <2>1
  <2> QED BY <1>5, <1>7, <2>2 DEF Runs
<1>9. Is(f)
  BY <1>1, <1>7, <1>8
<1>10. PICK h : Is(h) /\ h = CHOOSE k : Is(k)
  BY <1>9, Zenon
<1>11. h[0] = <<>> /\ \A i \in 1..n : h[i] = Longer(h[i - 1], item(i))
  BY <1>1, <1>10
<1> HIDE DEF Is
<1> DEFINE N == {k \in Nat : k <= n => h[k] = f[k]}
<1>12. 0 \in N
  BY <1>8, <1>11
<1>13. \A k \in Nat : k \in N => k + 1 \in N
  <2> SUFFICES ASSUME NEW k \in Nat, k \in N, k + 1 <= n PROVE h[k + 1] = f[k + 1]
    OBVIOUS
  <2>1. k + 1 \in 1..n /\ k + 1 - 1 = k /\ h[k] = f[k]
    BY <1>1
  <2> QED BY <1>8, <1>11, <2>1
<1>14. n \in N
  <2> HIDE DEF N
  <2> QED BY <1>1, <1>12, <1>13, Induction
<1>15. Whole(s) = f[n]
  BY <1>2, <1>10, <1>14
<1> QED BY <1>7, <1>8, <1>15 DEF item, n, Longer


(* An item that does not fit is left out, one that fits is not. *)
LEMMA InsertFits ==
    ASSUME NEW item \in ItemKinds, NEW buf \in Seq(Chars), Len(buf) < SmallBuffer,
           item.kind # "text" => Len(Printed(item)) < MaxNumericSize
    PROVE  /\ Len(Insert(buf, item)) < SmallBuffer
           /\ Len(buf) + Len(Printed(item)) + MaxNumericSize <= SmallBuffer =>
                 Insert(buf, item) = buf \o Printed(item)
<1> DEFINE p == Printed(item)
           both == buf \o p
<1>1. /\ Len(both) = Len(buf) + Len(p) /\ Len(buf) \in Nat /\ Len(p) \in Nat
  BY InsertIs
<1>2. SmallBuffer \in Nat /\ MaxNumericSize \in Nat /\ MaxNumericSize > 0
  BY StatementsAssumption
<1>3. Insert(buf, item) = IF IF item.kind = "text" THEN SmallBuffer - Len(buf) > Len(p)
                                ELSE SmallBuffer - Len(buf) >= MaxNumericSize
                            THEN both ELSE buf
  BY DEF Insert, AppendText, AppendNumber
<1> HIDE DEF p, both
<1>4. item.kind # "text" => Len(p) < MaxNumericSize
  BY DEF p
<1>5. Len(Insert(buf, item)) < SmallBuffer
  BY <1>1, <1>2, <1>3, <1>4
<1>6. ASSUME Len(buf) + Len(p) + MaxNumericSize <= SmallBuffer
      PROVE  Insert(buf, item) = both
  BY <1>1, <1>2, <1>3, <1>4, <1>6
<1> QED BY <1>5, <1>6 DEF p, both

(* A record is shorter than its buffer, and whole when there is room. *)
LEMMA RecordCut ==
    ASSUME NEW s \in Range(Statements)
    PROVE  /\ Len(Record(s)) \in Nat /\ Len(Record(s)) < SmallBuffer
           /\ Len(Whole(s)) + MaxNumericSize <= SmallBuffer => Record(s) = Whole(s)
<1> DEFINE n == Len(Items(s))
           item(i) == Items(s)[i]
<1>1. s \in StatementSet
  BY StatementsAssumption DEF Range
<1>2. n \in Nat /\ \A i \in 1..n : item(i) \in ItemKinds
  BY <1>1, ItemsAre
<1>3. ASSUME NEW i \in 1..n
      PROVE  item(i).kind # "text" => Len(Printed(item(i))) < MaxNumericSize
  <2>1. item(i) \in Range(Items(s))
    BY <1>1, <1>2, ItemsAre DEF Range
  <2> QED BY <2>1, NumericSizeAssumption
<1>4. PICK f \in [0..n -> Seq(Chars)] :
        /\ Record(s) = f[n] /\ f[0] = <<>>
        /\ \A i \in 1..n : f[i] = Insert(f[i - 1], item(i))
  BY <1>1, RecordIs
<1>5. PICK h \in [0..n -> Seq(Chars)] :
        /\ Whole(s) = h[n] /\ h[0] = <<>>
        /\ \A i \in 1..n : h[i] = h[i - 1] \o Printed(item(i))
  BY <1>1, WholeIs
<1>6. SmallBuffer \in Nat /\ SmallBuffer > 0 /\ MaxNumericSize \in Nat
  BY StatementsAssumption
<1> HIDE DEF n, item
<1>7. \A i \in 0..n : /\ f[i] \in Seq(Chars) /\ h[i] \in Seq(Chars)
                      /\ Len(f[i]) \in Nat /\ Len(h[i]) \in Nat
  BY <1>4, <1>5
<1>8. ASSUME NEW i \in Nat, i + 1 <= n
      PROVE  /\ i \in 0..n /\ i + 1 \in 0..n /\ i + 1 \in 1..n /\ item(i + 1) \in ItemKinds
             /\ f[i + 1] = Insert(f[i], item(i + 1))
             /\ h[i + 1] = h[i] \o Printed(item(i + 1))
             /\ Len(h[i + 1]) = Len(h[i]) + Len(Printed(item(i + 1)))
             /\ Len(Printed(item(i + 1))) \in Nat
  <2>1. i \in 0..n /\ i + 1 \in 0..n /\ i + 1 \in 1..n /\ i + 1 - 1 = i
    BY <1>2, <1>8
  <2>2. f[i + 1] = Insert(f[i], item(i + 1)) /\ h[i + 1] = h[i] \o Printed(item(i + 1))
    BY <1>4, <1>5, <2>1
  <2>3. item(i + 1) \in ItemKinds /\ h[i] \in Seq(Chars)
    BY <1>2, <1>7, <2>1
  <2>4. /\ Len(h[i] \o Printed(item(i + 1))) = Len(h[i]) + Len(Printed(item(i + 1)))
        /\ Len(Printed(item(i + 1))) \in Nat
    BY <2>3, InsertIs
  <2> QED BY <2>1, <2>2, <2>3, <2>4
<1> DEFINE N == {i \in Nat : i <= n =>
                    /\ Len(f[i]) < SmallBuffer
                    /\ Len(h[i]) + MaxNumericSize <= SmallBuffer => f[i] = h[i]}
<1>9. 0 \in N
  <2>1. Len(<<>>) = 0
    OBVIOUS
  <2> QED BY <1>4, <1>5, <1>6, <2>1
<1>10. \A i \in Nat : i \in N => i + 1 \in N
  <2> SUFFICES ASSUME NEW i \in Nat, i \in N, i + 1 <= n
               PROVE  /\ Len(f[i + 1]) < SmallBuffer
                      /\ Len(h[i + 1]) + MaxNumericSize <= SmallBuffer =>
                            f[i + 1] = h[i + 1]
    OBVIOUS
  <2> DEFINE e == item(i + 1)
             k == Len(Printed(e))
  <2>1. /\ Len(f[i]) < SmallBuffer
        /\ Len(h[i]) + MaxNumericSize <= SmallBuffer => f[i] = h[i]
    BY <1>2
  <2>2. /\ i \in 0..n /\ i + 1 \in 1..n /\ e \in ItemKinds
        /\ f[i + 1] = Insert(f[i], e) /\ h[i + 1] = h[i] \o Printed(e)
        /\ Len(h[i + 1]) = Len(h[i]) + k /\ k \in Nat
    BY <1>8
  <2>3. f[i] \in Seq(Chars) /\ Len(f[i]) \in Nat /\ Len(h[i]) \in Nat
    BY <1>7, <2>2
  <2>4. e.kind # "text" => k < MaxNumericSize
    BY <1>3, <2>2
  <2> HIDE DEF e
  <2>5. /\ Len(Insert(f[i], e)) < SmallBuffer
        /\ Len(f[i]) + k + MaxNumericSize <= SmallBuffer =>
              Insert(f[i], e) = f[i] \o Printed(e)
    BY <2>1, <2>2, <2>3, <2>4, InsertFits
  <2>6. Len(f[i + 1]) < SmallBuffer
    BY <2>2, <2>5
  <2>7. ASSUME Len(h[i + 1]) + MaxNumericSize <= SmallBuffer PROVE f[i + 1] = h[i + 1]
    <3>1. Len(h[i]) + k + MaxNumericSize <= SmallBuffer
      BY <2>2, <2>7
    <3>2. Len(h[i]) + MaxNumericSize <= SmallBuffer
      BY <1>6, <2>2, <2>3, <3>1
    <3>3. f[i] = h[i]
      BY <2>1, <3>2
    <3>4. Insert(f[i], e) = f[i] \o Printed(e)
      BY <2>5, <3>1, <3>3
    <3> QED BY <2>2, <3>3, <3>4
  <2> QED BY <2>6, <2>7
<1>11. n \in N
  <2> HIDE DEF N
  <2> QED BY <1>2, <1>9, <1>10, Induction
<1>12. n \in 0..n /\ n <= n
  BY <1>2
<1> QED BY <1>4, <1>5, <1>7, <1>11, <1>12

(* Every entry has a size. *)
LEMMA SizeIs ==
    /\ Size \in [Entries -> Nat] /\ Size[Notice] = NoticeSize
    /\ \A n \in Lines : Statement(n) \in Range(Statements) /\ Size[n] = Len(Record(Statement(n)))
    /\ \A n \in Lines : Size[n] < SmallBuffer
<1>1. MaxLines \in Nat /\ NoticeSize \in Nat /\ Entries = 0..MaxLines /\ Lines = 1..MaxLines
  BY LinesAssumption, NoticeAssumption DEF Entries, Lines
<1>2. ASSUME NEW n \in Lines PROVE Statement(n) \in Range(Statements)
  <2> DEFINE k == Len(Statements)
             i == (n - 1) % k
  <2>1. k \in Nat /\ k > 0 /\ DOMAIN Statements = 1..k
    BY StatementsAssumption
  <2>2. n - 1 \in Nat
    BY <1>1
  <2> HIDE DEF k
  <2>3. i \in 0..k - 1
    BY <2>1, <2>2
  <2>4. i + 1 \in 1..k
    BY <2>1, <2>3
  <2>5. Statement(n) = Statements[i + 1]
    BY DEF Statement, k
  <2> QED BY <2>1, <2>4, <2>5 DEF Range
<1>3. \A n \in Lines : Len(Record(Statement(n))) \in Nat
                       /\ Len(Record(Statement(n))) < SmallBuffer
  BY <1>2, RecordCut
<1> DEFINE r(n) == Len(Record(Statement(n)))
<1>4. Size = [n \in 0..MaxLines |-> IF n = 0 THEN NoticeSize ELSE r(n)]
  BY DEF Size, Notice
<1>5. \A n \in Lines : r(n) \in Nat /\ r(n) < SmallBuffer
  BY <1>3
<1> HIDE DEF r
<1>6. \A n \in Lines : n \in 0..MaxLines /\ n # 0
  BY <1>1
<1>7. \A n \in Lines : Size[n] = r(n)
  BY <1>4, <1>6
<1>8. Size \in [Entries -> Nat] /\ Size[0] = NoticeSize
  BY <1>1, <1>4, <1>5
<1> QED BY <1>2, <1>5, <1>7, <1>8 DEF r, Notice

(* Every line is cut well. *)
LEMMA AllWellCut == Lines \subseteq WellCut
<1> SUFFICES ASSUME NEW n \in Lines PROVE n \in WellCut
  OBVIOUS
<1>1. Statement(n) \in Range(Statements) /\ Size[n] < SmallBuffer
  BY SizeIs
<1>2. Len(Whole(Statement(n))) + MaxNumericSize <= SmallBuffer =>
        Record(Statement(n)) = Whole(Statement(n))
  BY <1>1, RecordCut
<1> QED BY <1>1, <1>2 DEF WellCut

-----------------------------------------------------------------------------
(* Sizes.                                                                   *)

(* The size of lines, line by line. *)
LEMMA BytesIs ==
    ASSUME NEW s \in Seq(Entries)
    PROVE  \E f \in [0..Len(s) -> Nat] :
              /\ Bytes(s) = f[Len(s)] /\ f[0] = 0
              /\ \A i \in 1..Len(s) : f[i] = f[i - 1] + Size[s[i]]
<1> DEFINE n == Len(s)
           size(i) == Size[s[i]]
           g == [i \in 1..n |-> [u \in Nat |-> u + size(i)]]
           Is(h) == h = [i \in 0..n |-> IF i = 0 THEN 0 ELSE h[i - 1] + size(i)]
<1>1. n \in Nat /\ \A i \in 1..n : s[i] \in Entries
  OBVIOUS
<1>2. \A i \in 1..n : size(i) \in Nat
  BY <1>1, SizeIs
<1>3. Bytes(s) = (CHOOSE h : Is(h))[n]
  BY DEF Bytes
<1> HIDE DEF size
<1>4. \A u \in Nat, i \in 1..n : u + size(i) \in Nat
  BY <1>2
<1>5. g \in [1..n -> [Nat -> Nat]]
  BY <1>4
<1>6. \A i \in 1..n, u \in Nat : g[i][u] = u + size(i)
  OBVIOUS
<1> HIDE DEF g, n
<1>7. 0 \in Nat
  OBVIOUS
<1>8. PICK f \in [0..n -> Nat] : Runs(f, n, 0, g)
  BY <1>1, <1>5, <1>7, SequenceRecursion
<1>9. f[0] = 0 /\ \A i \in 1..n : f[i] = f[i - 1] + size(i)
  <2> SUFFICES ASSUME NEW i \in 1..n PROVE f[i] = f[i - 1] + size(i)
    BY <1>8 DEF Runs
  <2>1. i - 1 \in 0..n
    BY <1>1
  <2>2. f[i - 1] \in Nat
    BY <1>8, <2>1
  <2> QED BY <1>6, <1>8, <2>2 DEF Runs
<1>10. Is(f)
  BY <1>1, <1>8, <1>9
<1>11. PICK h : Is(h) /\ h = CHOOSE k : Is(k)
  BY <1>10, Zenon
<1>12. h[0] = 0 /\ \A i \in 1..n : h[i] = h[i - 1] + size(i)
  BY <1>1, <1>11
<1> HIDE DEF Is
<1> DEFINE N == {k \in Nat : k <= n => h[k] = f[k]}
<1>13. 0 \in N
  BY <1>9, <1>12
<1>14. \A k \in Nat : k \in N => k + 1 \in N
  <2> SUFFICES ASSUME NEW k \in Nat, k \in N, k + 1 <= n PROVE h[k + 1] = f[k + 1]
    OBVIOUS
  <2>1. k + 1 \in 1..n /\ k + 1 - 1 = k /\ h[k] = f[k]
    BY <1>1
  <2> QED BY <1>9, <1>12, <2>1
<1>15. n \in N
  <2> HIDE DEF N
  <2> QED BY <1>1, <1>13, <1>14, Induction
<1>16. Bytes(s) = f[n]
  BY <1>3, <1>11, <1>15
<1> QED BY <1>8, <1>9, <1>16 DEF size, n

(* Nothing has no size. *)
LEMMA BytesEmpty == Bytes(<<>>) = 0
<1>1. <<>> \in Seq(Entries) /\ Len(<<>>) = 0
  OBVIOUS
<1>2. PICK f \in [0..Len(<<>>) -> Nat] : Bytes(<<>>) = f[Len(<<>>)] /\ f[0] = 0
  BY <1>1, BytesIs
<1> QED BY <1>1, <1>2

(* A line more adds its size. *)
LEMMA BytesAppend ==
    ASSUME NEW s \in Seq(Entries), NEW e \in Entries
    PROVE  Bytes(Append(s, e)) = Bytes(s) + Size[e] /\ Bytes(s) \in Nat /\ Size[e] \in Nat
<1> DEFINE t == Append(s, e)
           n == Len(s)
<1>1. n \in Nat /\ t \in Seq(Entries) /\ Len(t) = n + 1 /\ t[n + 1] = e
      /\ \A i \in 1..n : t[i] = s[i]
  OBVIOUS
<1> HIDE DEF t
<1>2. PICK f \in [0..n -> Nat] :
         /\ Bytes(s) = f[n] /\ f[0] = 0
         /\ \A i \in 1..n : f[i] = f[i - 1] + Size[s[i]]
  BY BytesIs
<1>3. PICK g \in [0..n + 1 -> Nat] :
         /\ Bytes(t) = g[n + 1] /\ g[0] = 0
         /\ \A i \in 1..n + 1 : g[i] = g[i - 1] + Size[t[i]]
  <2>1. \E g \in [0..Len(t) -> Nat] :
         /\ Bytes(t) = g[Len(t)] /\ g[0] = 0
         /\ \A i \in 1..Len(t) : g[i] = g[i - 1] + Size[t[i]]
    BY <1>1, BytesIs
  <2> QED BY <1>1, <2>1
<1> HIDE DEF n
<1> DEFINE N == {k \in Nat : k <= n => f[k] = g[k]}
<1>4. 0 \in N
  BY <1>2, <1>3
<1>5. \A k \in Nat : k \in N => k + 1 \in N
  <2> SUFFICES ASSUME NEW k \in Nat, k \in N, k + 1 <= n PROVE f[k + 1] = g[k + 1]
    OBVIOUS
  <2>1. k + 1 \in 1..n /\ k + 1 \in 1..n + 1 /\ k + 1 - 1 = k /\ f[k] = g[k]
    BY <1>1
  <2>2. f[k + 1] = f[k] + Size[s[k + 1]]
    BY <1>2, <2>1
  <2>3. g[k + 1] = g[k] + Size[t[k + 1]]
    BY <1>3, <2>1
  <2> QED BY <1>1, <2>1, <2>2, <2>3
<1>6. f[n] = g[n]
  <2>1. n \in N
    <3> HIDE DEF N
    <3> QED BY <1>1, <1>4, <1>5, Induction
  <2> QED BY <1>1, <2>1
<1>7. g[n + 1] = g[n] + Size[e]
  <2>1. n + 1 \in 1..n + 1 /\ n + 1 - 1 = n
    BY <1>1
  <2> QED BY <1>1, <1>3, <2>1
<1>8. f[n] \in Nat /\ Size[e] \in Nat
  BY <1>1, SizeIs
<1> QED BY <1>2, <1>3, <1>6, <1>7, <1>8 DEF t

(* Sizes add up. *)
LEMMA BytesConcat ==
    ASSUME NEW s \in Seq(Entries), NEW t \in Seq(Entries)
    PROVE  Bytes(s \o t) = Bytes(s) + Bytes(t) /\ Bytes(s) \in Nat /\ Bytes(t) \in Nat
<1> DEFINE N == {n \in Nat : \A u \in Seq(Entries) : Len(u) = n =>
                    Bytes(s \o u) = Bytes(s) + Bytes(u) /\ Bytes(u) \in Nat}
<1>0. Bytes(s) \in Nat
  <2>1. 0 \in Entries
    BY LinesAssumption DEF Entries
  <2> QED BY <2>1, BytesAppend
<1>1. 0 \in N
  <2> SUFFICES ASSUME NEW u \in Seq(Entries), Len(u) = 0
               PROVE  Bytes(s \o u) = Bytes(s) + Bytes(u) /\ Bytes(u) \in Nat
    OBVIOUS
  <2>1. u = <<>> /\ s \o u = s
    OBVIOUS
  <2> QED BY <1>0, <2>1, BytesEmpty
<1>2. \A n \in Nat : n \in N => n + 1 \in N
  <2> SUFFICES ASSUME NEW n \in Nat, n \in N, NEW u \in Seq(Entries), Len(u) = n + 1
               PROVE  Bytes(s \o u) = Bytes(s) + Bytes(u) /\ Bytes(u) \in Nat
    OBVIOUS
  <2>1. PICK v \in Seq(Entries), e \in Entries : u = Append(v, e) /\ Len(v) = Len(u) - 1
    <3>1. u # <<>>
      OBVIOUS
    <3> QED BY <3>1, FrontLast
  <2>2. Len(v) = n
    BY <2>1
  <2>3. Bytes(s \o v) = Bytes(s) + Bytes(v) /\ Bytes(v) \in Nat
    BY <2>2
  <2> DEFINE w == s \o v
  <2>4. w \in Seq(Entries) /\ s \o u = Append(w, e)
    BY <2>1
  <2> HIDE DEF w
  <2>5. Bytes(Append(w, e)) = Bytes(w) + Size[e] /\ Size[e] \in Nat
    BY <2>4, BytesAppend
  <2>6. Bytes(u) = Bytes(v) + Size[e]
    BY <2>1, BytesAppend
  <2>7. Bytes(w) = Bytes(s) + Bytes(v)
    BY <2>3 DEF w
  <2> QED BY <1>0, <2>3, <2>4, <2>5, <2>6, <2>7
<1>3. Len(t) \in Nat
  OBVIOUS
<1>4. Len(t) \in N
  <2> HIDE DEF N
  <2> QED BY <1>1, <1>2, <1>3, Induction
<1> QED BY <1>0, <1>3, <1>4

(* The front of lines is no larger than all of them. *)
LEMMA BytesFront ==
    ASSUME NEW s \in Seq(Entries), NEW k \in 0..Len(s)
    PROVE  Bytes(SubSeq(s, 1, k)) \in Nat /\ Bytes(SubSeq(s, 1, k)) <= Bytes(s)
<1> DEFINE a == SubSeq(s, 1, k)
           b == SubSeq(s, k + 1, Len(s))
<1>1. a \in Seq(Entries) /\ b \in Seq(Entries)
  <2>1. \A i \in 1..Len(s) : s[i] \in Entries
    OBVIOUS
  <2>2. \A i \in 1..k : s[i] \in Entries
    BY <2>1
  <2>3. \A i \in k + 1..Len(s) : s[i] \in Entries
    BY <2>1
  <2> QED BY <2>2, <2>3, SubSeqProperties
<1>2. a \o b = s
  <2>1. SubSeq(s, 1, k) \o SubSeq(s, k + 1, Len(s)) = SubSeq(s, 1, Len(s))
    <3>1. 1 \in 1..Len(s) + 1 /\ k \in 1 - 1..Len(s) /\ Len(s) \in k..Len(s)
      OBVIOUS
    <3> QED BY <3>1, ConcatAdjacentSubSeq
  <2>2. SubSeq(s, 1, Len(s)) = s
    BY SubSeqFull
  <2> QED BY <2>1, <2>2
<1> HIDE DEF a, b
<1>3. Bytes(a \o b) = Bytes(a) + Bytes(b) /\ Bytes(a) \in Nat /\ Bytes(b) \in Nat
  BY <1>1, BytesConcat
<1>4. Bytes(s) = Bytes(a) + Bytes(b)
  BY <1>2, <1>3
<1>5. Bytes(a) \in Nat /\ Bytes(a) <= Bytes(s)
  BY <1>3, <1>4
<1> QED BY <1>5, Zenon DEF a

(* What is taken from two sequences is the same if they agree there. *)
LEMMA SubSeqAgree ==
    ASSUME NEW s \in Seq(Entries), NEW t \in Seq(Entries), NEW c \in Nat, NEW d \in Nat,
           NEW n \in Nat, c + n <= Len(s), d + n <= Len(t),
           \A m \in 1..n : s[c + m] = t[d + m]
    PROVE  SubSeq(s, c + 1, c + n) = SubSeq(t, d + 1, d + n)
<1>1. SubSeq(s, c + 1, c + n) = [m \in 1..n |-> s[c + m]]
  OBVIOUS
<1>2. SubSeq(t, d + 1, d + n) = [m \in 1..n |-> t[d + m]]
  OBVIOUS
<1> QED BY <1>1, <1>2

(* What is taken from a sequence is the front of one that is part of it. *)
LEMMA FrontOfPart ==
    ASSUME NEW s \in Seq(Entries), NEW x \in Seq(Entries), NEW c \in Nat, NEW i \in Nat,
           c <= i, i <= Len(s), i - c <= Len(x), \A m \in 1..i - c : s[c + m] = x[m]
    PROVE  SubSeq(s, c + 1, i) = SubSeq(x, 1, i - c)
<1>1. SubSeq(s, c + 1, i) = [m \in 1..i - c |-> s[c + m]]
  OBVIOUS
<1>2. SubSeq(x, 1, i - c) = [m \in 1..i - c |-> x[m]]
  OBVIOUS
<1> QED BY <1>1, <1>2

-----------------------------------------------------------------------------
(* Notices.                                                                 *)

(* Item i is the last line before n. *)
LastBefore(items, n, i) ==
    /\ items[i] # Notice /\ items[i] < n
    /\ \A j \in DOMAIN items : (j > i /\ items[j] # Notice) => n < items[j]

(* Item k is a notice, before the line that follows item i and at most two  *)
(* buffers before that.                                                     *)
ToldAt(items, i, k) ==
    /\ items[k] = Notice
    /\ Bytes(SubSeq(items, k + 1, i)) < 2 * Capacity
    /\ \A j \in DOMAIN items : (j > i /\ items[j] # Notice) => k < j

(* The file tells, or will tell, of each line lost. *)
Told(items, lost) ==
    \A n \in lost, i \in DOMAIN items :
        LastBefore(items, n, i) => \E k \in DOMAIN items : ToldAt(items, i, k)

(* Of two sequences that agree up to two places the same is taken between   *)
(* them.                                                                    *)
LEMMA SameBetween ==
    ASSUME NEW s \in Seq(Entries), NEW t \in Seq(Entries), NEW n \in Nat,
           n <= Len(s), n <= Len(t), \A m \in 1..n : s[m] = t[m],
           NEW k \in 1..n, NEW i \in 1..n
    PROVE  SubSeq(s, k + 1, i) = SubSeq(t, k + 1, i)
<1>1. CASE i < k + 1
  <2>1. SubSeq(s, k + 1, i) = <<>> /\ SubSeq(t, k + 1, i) = <<>>
    BY <1>1, SubSeqEmpty
  <2> QED BY <2>1
<1>2. CASE i >= k + 1
  <2> DEFINE p == i - k
  <2>1. /\ p \in Nat /\ k + p = i /\ k \in Nat /\ k + p <= Len(s) /\ k + p <= Len(t)
    BY <1>2
  <2>2. \A m \in 1..p : s[k + m] = t[k + m]
    BY <1>2
  <2> HIDE DEF p
  <2>3. SubSeq(s, k + 1, k + p) = SubSeq(t, k + 1, k + p)
    BY <2>1, <2>2, SubSeqAgree
  <2> QED BY <2>1, <2>3
<1> QED BY <1>1, <1>2

(* A line that is accepted is not before one that was lost. *)
LEMMA ToldAppend ==
    ASSUME NEW s \in Seq(Entries), NEW e \in Entries, NEW lost, Told(s, lost),
           \A n \in lost : ~(e < n)
    PROVE  Told(Append(s, e), lost)
<1> DEFINE t == Append(s, e)
           n == Len(s)
<1>1. /\ n \in Nat /\ t \in Seq(Entries) /\ Len(t) = n + 1 /\ t[n + 1] = e
      /\ DOMAIN s = 1..n /\ DOMAIN t = 1..n + 1 /\ \A i \in 1..n : t[i] = s[i]
  OBVIOUS
<1> HIDE DEF t, n
<1> SUFFICES ASSUME NEW x \in lost, NEW i \in DOMAIN t, LastBefore(t, x, i)
             PROVE  \E k \in DOMAIN t : ToldAt(t, i, k)
  BY DEF Told, t
<1>2. i \in 1..n
  BY <1>1 DEF LastBefore
<1>3. LastBefore(s, x, i)
  <2>1. s[i] # Notice /\ s[i] < x
    BY <1>1, <1>2 DEF LastBefore
  <2>2. ASSUME NEW j \in DOMAIN s, j > i, s[j] # Notice PROVE x < s[j]
    <3>1. j \in DOMAIN t /\ t[j] = s[j]
      BY <1>1
    <3> QED BY <2>2, <3>1 DEF LastBefore
  <2> QED BY <2>1, <2>2 DEF LastBefore
<1>4. PICK k \in DOMAIN s : ToldAt(s, i, k)
  BY <1>1, <1>2, <1>3 DEF Told
<1>5. k \in 1..n /\ k \in DOMAIN t /\ t[k] = Notice
  BY <1>1, <1>4 DEF ToldAt
<1>6. SubSeq(t, k + 1, i) = SubSeq(s, k + 1, i)
  <2>1. n <= Len(t) /\ n <= Len(s)
    BY <1>1 DEF n
  <2> QED BY <1>1, <1>2, <1>5, <2>1, SameBetween
<1>7. ASSUME NEW j \in DOMAIN t, j > i, t[j] # Notice PROVE k < j
  <2>1. CASE j \in 1..n
    BY <1>1, <1>4, <1>7, <2>1 DEF ToldAt
  <2>2. CASE j = n + 1
    BY <1>1, <1>5, <2>2
  <2> QED BY <1>1, <2>1, <2>2
<1>8. ToldAt(t, i, k)
  BY <1>4, <1>5, <1>6, <1>7 DEF ToldAt
<1> QED BY <1>5, <1>8

(* What the files have, the front of all items, tells of every gap in it. *)
LEMMA ToldFront ==
    ASSUME NEW s \in Seq(Entries), NEW t \in Seq(Entries), NEW lost \in SUBSET Nat,
           Ascending(s \o t), Told(s \o t, lost)
    PROVE  GapsAnnounced(s, lost)
<1> DEFINE all == s \o t
           n == Len(s)
<1>1. /\ n \in Nat /\ all \in Seq(Entries) /\ DOMAIN s = 1..n /\ n <= Len(all)
      /\ DOMAIN all = 1..Len(all) /\ Len(all) \in Nat
      /\ \A i \in 1..n : all[i] = s[i] /\ i \in DOMAIN all
      /\ \A i \in DOMAIN all : all[i] \in Nat
  BY LinesAssumption DEF Entries
<1>2. Ascending(all) /\ Told(all, lost)
  OBVIOUS
<1> HIDE DEF all, n
<1> SUFFICES ASSUME NEW i \in DOMAIN s, NEW j \in DOMAIN s, Gap(s, lost, i, j)
             PROVE  \E k \in DOMAIN s :
                       /\ k < j /\ s[k] = Notice
                       /\ Bytes(SubSeq(s, k + 1, i)) < 2 * Capacity
  BY DEF GapsAnnounced
<1>3. /\ i < j /\ s[i] # Notice /\ s[j] # Notice
      /\ \A k \in i + 1..j - 1 : s[k] = Notice
      /\ \E x \in lost : s[i] < x /\ x < s[j]
  BY DEF Gap
<1>4. PICK x \in lost : s[i] < x /\ x < s[j]
  BY <1>3
<1>5. LastBefore(all, x, i)
  <2>1. all[i] # Notice /\ all[i] < x
    BY <1>1, <1>3, <1>4
  <2>2. ASSUME NEW m \in DOMAIN all, m > i, all[m] # Notice PROVE x < all[m]
    <3>1. CASE m < j
      <4>1. m \in i + 1..j - 1 /\ m \in 1..n
        BY <1>1, <2>2, <3>1
      <4> QED BY <1>1, <1>3, <2>2, <4>1
    <3>2. CASE m = j
      BY <1>1, <1>4, <3>2
    <3>3. CASE m > j
      <4>1. j \in DOMAIN all /\ all[j] = s[j] /\ all[j] # Notice
        BY <1>1, <1>3
      <4>2. all[j] < all[m]
        BY <1>2, <2>2, <3>3, <4>1 DEF Ascending
      <4>3. all[j] \in Nat /\ all[m] \in Nat /\ x \in Nat
        BY <1>1, <4>1
      <4> QED BY <1>4, <4>1, <4>2, <4>3
    <3> QED BY <1>1, <3>1, <3>2, <3>3
  <2> QED BY <2>1, <2>2 DEF LastBefore
<1>6. PICK k \in DOMAIN all : ToldAt(all, i, k)
  BY <1>1, <1>2, <1>5 DEF Told
<1>7. k < j
  BY <1>1, <1>3, <1>6 DEF ToldAt
<1>8. k \in 1..n /\ s[k] = Notice
  BY <1>1, <1>6, <1>7 DEF ToldAt
<1>9. SubSeq(all, k + 1, i) = SubSeq(s, k + 1, i)
  <2>1. n \in Nat /\ all \in Seq(Entries) /\ n <= Len(all) /\ k \in 1..n
    BY <1>1, <1>8
  <2>2. n <= Len(s) /\ i \in 1..n /\ \A m \in 1..n : all[m] = s[m]
    BY <1>1 DEF n
  <2> QED BY <2>1, <2>2, SameBetween
<1>10. Bytes(SubSeq(all, k + 1, i)) < 2 * Capacity
  BY <1>6 DEF ToldAt
<1>11. Bytes(SubSeq(s, k + 1, i)) < 2 * Capacity
  BY <1>9, <1>10, Zenon
<1>12. k \in DOMAIN s
  BY <1>1, <1>8
<1> QED BY <1>7, <1>8, <1>11, <1>12

(* A part of the lines is taken out, and a notice put in before.            *)
LEMMA ToldDrop ==
    ASSUME NEW a \in Seq(Entries), NEW x \in Seq(Entries), NEW y \in Seq(Entries),
           NEW z \in Seq(Entries), Notice \notin Range(y),
           Ascending(a \o x \o y \o z), Bytes(x) < 2 * Capacity,
           NEW lost \in SUBSET Nat, Told(a \o x \o y \o z, lost),
           \A n \in lost \union Range(y), m \in Range(z) : n < m
    PROVE  Told(a \o <<Notice>> \o x \o z, lost \union Range(y))
<1> DEFINE A == Len(a)
           X == Len(x)
           Y == Len(y)
           Z == Len(z)
           old == a \o x \o y \o z
           new == a \o <<Notice>> \o x \o z
<1>1. A \in Nat /\ X \in Nat /\ Y \in Nat /\ Z \in Nat
  OBVIOUS
<1>2. <<Notice>> \in Seq(Entries) /\ Len(<<Notice>>) = 1
  BY LinesAssumption DEF Notice, Entries
<1>3. /\ DOMAIN old = 1..A + X + Y + Z /\ Len(old) = A + X + Y + Z /\ old \in Seq(Entries)
      /\ \A i \in 1..A : old[i] = a[i]
      /\ \A i \in 1..X : old[A + i] = x[i]
      /\ \A i \in 1..Y : old[A + X + i] = y[i]
      /\ \A i \in 1..Z : old[A + X + Y + i] = z[i]
  OBVIOUS
<1>4. /\ DOMAIN new = 1..A + 1 + X + Z /\ Len(new) = A + 1 + X + Z /\ new \in Seq(Entries)
      /\ \A i \in 1..A : new[i] = a[i]
      /\ new[A + 1] = Notice
      /\ \A i \in 1..X : new[A + 1 + i] = x[i]
      /\ \A i \in 1..Z : new[A + 1 + X + i] = z[i]
  BY <1>2
<1>5. /\ DOMAIN x = 1..X /\ DOMAIN y = 1..Y /\ DOMAIN z = 1..Z
      /\ \A k \in 1..Y : y[k] \in Nat
  BY LinesAssumption DEF Entries
<1>6. Ascending(old) /\ Told(old, lost)
  OBVIOUS
<1>0. \A e \in Entries : e \in Nat
  BY LinesAssumption DEF Entries
<1>7. \A i \in DOMAIN new : new[i] \in Nat
  <2> SUFFICES ASSUME NEW i \in DOMAIN new PROVE new[i] \in Entries
    BY <1>0
  <2> HIDE DEF new
  <2> QED BY <1>4
<1>8. \A i \in DOMAIN old : old[i] \in Nat
  <2> SUFFICES ASSUME NEW i \in DOMAIN old PROVE old[i] \in Entries
    BY <1>0
  <2> HIDE DEF old
  <2> QED BY <1>3
<1>9. Capacity \in Nat /\ Capacity > 0
  BY CapacityAssumption, StatementsAssumption
<1> HIDE DEF A, X, Y, Z, old, new
<1> SUFFICES ASSUME NEW n \in lost \union Range(y), NEW i \in 1..A + 1 + X + Z,
                    LastBefore(new, n, i)
             PROVE  \E k \in DOMAIN new : ToldAt(new, i, k)
  <2>1. DOMAIN new = 1..A + 1 + X + Z
    BY <1>4
  <2> QED BY <2>1 DEF Told, new
<1>10. /\ new[i] # Notice /\ new[i] < n
       /\ \A j \in DOMAIN new : (j > i /\ new[j] # Notice) => n < new[j]
  BY DEF LastBefore
<1>11. n \in Nat
  BY <1>5 DEF Range
<1>20. /\ DOMAIN new = 1..A + 1 + X + Z /\ Len(new) = A + 1 + X + Z
       /\ new \in Seq(Entries) /\ new[A + 1] = Notice
  BY <1>4
<1>21. old \in Seq(Entries) /\ Len(old) = A + X + Y + Z /\ DOMAIN old = 1..A + X + Y + Z
  BY <1>3
<1>12. A + 1 \in DOMAIN new
  BY <1>1, <1>20
(* The last line before n is in the file, and another follows it there. *)
<1>13. ASSUME i \in 1..A, NEW p \in i + 1..A, a[p] # Notice
       PROVE  \E k \in DOMAIN new : ToldAt(new, i, k)
  <2>1. p \in 1..A /\ p \in DOMAIN new /\ p \in DOMAIN old
        /\ new[p] = a[p] /\ old[p] = a[p] /\ p > i
    BY <1>1, <1>3, <1>4, <1>13
  <2>2. n < old[p]
    BY <1>10, <1>13, <2>1
  <2>3. \A k \in 1..Y : n < y[k]
    <3> SUFFICES ASSUME NEW k \in 1..Y PROVE n < y[k]
      OBVIOUS
    <3>1. A + X + k \in DOMAIN old /\ old[A + X + k] = y[k] /\ p < A + X + k
      BY <1>1, <1>3, <2>1
    <3>2. y[k] # Notice
      BY <1>5 DEF Range
    <3>3. old[p] < old[A + X + k]
      BY <1>6, <1>13, <2>1, <3>1, <3>2 DEF Ascending
    <3>4. old[p] \in Nat /\ y[k] \in Nat
      BY <1>5, <1>8, <2>1
    <3> QED BY <1>11, <2>2, <3>1, <3>3, <3>4
  <2>4. n \in lost
    <3>1. ASSUME n \in Range(y) PROVE FALSE
      <4>1. PICK k \in 1..Y : y[k] = n
        BY <1>5, <3>1 DEF Range
      <4> QED BY <1>11, <2>3, <4>1
    <3> QED BY <3>1
  <2>5. i \in DOMAIN old /\ old[i] = new[i]
    BY <1>1, <1>3, <1>4, <1>13
  <2>6. ASSUME NEW j \in DOMAIN old, j > i, old[j] # Notice PROVE n < old[j]
    <3>1. CASE j <= A
      <4>1. j \in 1..A /\ j \in DOMAIN new /\ new[j] = old[j]
        BY <1>1, <1>3, <1>4, <3>1
      <4> QED BY <1>10, <2>6, <4>1
    <3>2. CASE A < j
      <4>1. old[p] < old[j]
        <5>1. p < j
          BY <1>1, <1>3, <2>1, <3>2
        <5> QED BY <1>6, <1>13, <2>1, <2>6, <5>1 DEF Ascending
      <4>2. old[p] \in Nat /\ old[j] \in Nat
        BY <1>8, <2>1
      <4> QED BY <1>11, <2>2, <4>1, <4>2
    <3> QED BY <1>1, <1>3, <3>1, <3>2
  <2>7. LastBefore(old, n, i)
    BY <1>10, <2>5, <2>6 DEF LastBefore
  <2>8. PICK k \in 1..A + X + Y + Z : ToldAt(old, i, k)
    BY <1>6, <1>21, <2>4, <2>5, <2>7 DEF Told
  <2>9. k < p
    BY <1>13, <2>1, <2>8 DEF ToldAt
  <2>10. k \in 1..A /\ k \in DOMAIN new /\ new[k] = Notice
    BY <1>1, <1>3, <1>4, <2>1, <2>8, <2>9 DEF ToldAt
  <2>11. SubSeq(old, k + 1, i) = SubSeq(new, k + 1, i)
    <3>1. A <= Len(old) /\ A <= Len(new) /\ \A m \in 1..A : old[m] = new[m]
      BY <1>1, <1>3, <1>4
    <3>2. /\ A \in Nat /\ old \in Seq(Entries) /\ new \in Seq(Entries)
          /\ k \in 1..A /\ i \in 1..A
      BY <1>1, <1>13, <1>20, <1>21, <2>10
    <3>3. \A m \in 1..A : old[m] = new[m]
      BY <3>1
    <3>4. A <= Len(old) /\ A <= Len(new)
      BY <3>1
    <3> HIDE <1>13
    <3>5. ASSUME NEW c \in 1..A, NEW d \in 1..A
          PROVE  SubSeq(old, c + 1, d) = SubSeq(new, c + 1, d)
      BY <3>2, <3>3, <3>4, <3>5, SameBetween, SMTT(30)
    <3> QED BY <3>2, <3>5
  <2>12. Bytes(SubSeq(new, k + 1, i)) < 2 * Capacity
    <3>1. Bytes(SubSeq(old, k + 1, i)) < 2 * Capacity
      BY <2>8 DEF ToldAt
    <3> QED BY <2>11, <3>1, Zenon
  <2>13. ASSUME NEW j \in DOMAIN new, j > i, new[j] # Notice PROVE k < j
    <3>1. CASE j <= A
      <4>1. j \in DOMAIN old /\ old[j] = new[j]
        BY <1>1, <1>3, <1>4, <3>1
      <4> QED BY <2>8, <2>13, <4>1 DEF ToldAt
    <3>2. CASE A < j
      BY <1>1, <1>4, <2>10, <3>2
    <3> QED BY <1>1, <1>4, <3>1, <3>2
  <2>14. ToldAt(new, i, k)
    BY <2>10, <2>12, <2>13 DEF ToldAt
  <2> QED BY <2>10, <2>14
(* It is the last of the file. *)
<1>14. ASSUME i \in 1..A, \A p \in i + 1..A : a[p] = Notice
       PROVE  ToldAt(new, i, A + 1)
  <2>1. SubSeq(new, A + 1 + 1, i) = <<>>
    BY <1>1, <1>14, SubSeqEmpty
  <2>2. Bytes(SubSeq(new, A + 1 + 1, i)) = 0
    BY <2>1, BytesEmpty
  <2>3. Bytes(SubSeq(new, A + 1 + 1, i)) < 2 * Capacity
    BY <1>9, <2>2
  <2>4. ASSUME NEW j \in DOMAIN new, j > i, new[j] # Notice PROVE A + 1 < j
    <3>1. j # A + 1
      BY <1>4, <2>4
    <3>2. ~(j <= A)
      <4>1. ASSUME j <= A PROVE FALSE
        <5>1. j \in i + 1..A /\ new[j] = a[j]
          BY <1>1, <1>4, <1>14, <2>4, <4>1
        <5> QED BY <1>14, <2>4, <5>1
      <4> QED BY <4>1
    <3> QED BY <1>1, <1>20, <3>1, <3>2
  <2>5. new[A + 1] = Notice
    BY <1>20
  <2> QED BY <2>3, <2>4, <2>5, Zenon DEF ToldAt
(* It is in the buffers kept. *)
<1>15. ASSUME i \in A + 2..A + 1 + X
       PROVE  ToldAt(new, i, A + 1)
  <2> DEFINE p == i - (A + 1)
             c == A + 1
  <2>1. p \in 0..X /\ p \in Nat
    BY <1>1, <1>15
  <2>2. /\ c \in Nat /\ i \in Nat /\ c <= i /\ i <= Len(new) /\ i - c <= Len(x)
        /\ new \in Seq(Entries)
    BY <1>1, <1>15, <1>20 DEF X
  <2>3. \A m \in 1..i - c : new[c + m] = x[m]
    BY <1>1, <1>4, <2>1
  <2> HIDE DEF c
  <2>9. SubSeq(new, c + 1, i) = SubSeq(x, 1, i - c)
    BY <2>2, <2>3, FrontOfPart
  <2>4. SubSeq(new, A + 1 + 1, i) = SubSeq(x, 1, p)
    BY <2>9 DEF c
  <2> HIDE DEF p
  <2>5. Bytes(SubSeq(x, 1, p)) \in Nat /\ Bytes(SubSeq(x, 1, p)) <= Bytes(x)
    BY <2>1, BytesFront DEF X
  <2>6. Bytes(SubSeq(x, 1, p)) < 2 * Capacity
    <3>1. Bytes(x) \in Nat
      BY BytesConcat
    <3> QED BY <1>9, <2>5, <3>1
  <2>7. Bytes(SubSeq(new, A + 1 + 1, i)) < 2 * Capacity
    BY <2>4, <2>6, Zenon
  <2>8. \A j \in DOMAIN new : j > i => A + 1 < j
    BY <1>1, <1>4, <1>15
  <2> QED BY <1>4, <2>7, <2>8 DEF ToldAt
(* It is not behind them. *)
<1>16. i <= A + 1 + X
  <2> SUFFICES ASSUME i > A + 1 + X PROVE FALSE
    BY <1>1, <1>4
  <2> DEFINE k == i - (A + 1 + X)
  <2>1. k \in 1..Z /\ i = A + 1 + X + k
    BY <1>1, <1>4
  <2>2. new[i] = z[k]
    BY <1>4, <2>1
  <2>3. n < new[i]
    BY <1>5, <2>1, <2>2 DEF Range
  <2>4. new[i] \in Nat
    BY <1>7, <1>20
  <2>5. new[i] < n
    BY <1>10
  <2> QED BY <1>11, <2>3, <2>4, <2>5
<1>17. i # A + 1
  BY <1>4, <1>10
<1>18. i \in 1..A \/ i \in A + 2..A + 1 + X
  BY <1>1, <1>16, <1>17, <1>20
<1>19. CASE i \in 1..A
  <2>1. CASE \E p \in i + 1..A : a[p] # Notice
    BY <1>13, <1>19, <2>1
  <2>2. CASE \A p \in i + 1..A : a[p] = Notice
    <3>1. ToldAt(new, i, A + 1)
      BY <1>14, <1>19, <2>2
    <3> QED BY <1>12, <3>1
  <2> QED BY <2>1, <2>2
<1> QED BY <1>12, <1>15, <1>18, <1>19

-----------------------------------------------------------------------------
(* The invariant of buffers, lines and files.                               *)

(* What the back end has given away and what it can replace, by its place   *)
(* in the round.                                                            *)
RoundInv ==
    /\ pc \in {"off", "begin", "check", "lock", "wait", "flushed"} =>
          newBuffer1 = <<>> /\ newBuffer2 = <<>> /\ buffersToWrite = <<>> /\ done = 0
    /\ pc \in {"drop", "write", "recycle"} =>
          /\ newBuffer1 = NoBuffer
          /\ newBuffer2 \in {<<>>, NoBuffer}
          /\ Len(buffersToWrite) >= 1
          /\ newBuffer2 = NoBuffer => Len(buffersToWrite) >= 2
    /\ pc = "drop" => done = 0
    /\ pc = "recycle" => done = Len(buffersToWrite)

(* A spare buffer is empty, and lacks only while one that was filled waits. *)
SpareInv ==
    /\ nextBuffer \in {<<>>, NoBuffer}
    /\ SpareUnlessFull

(* Nothing is written before the LogFile of threadFunc is there. *)
OutputInv ==
    /\ FileInv(output)
    /\ pc \in {"off", "begin"} => written = <<>>

LoggingInv ==
    /\ TypeOK
    /\ RoundInv
    /\ SpareInv
    /\ OutputInv
    /\ dropped \subseteq 1..appended
    /\ LinesInOrder

(* What the types say of the parts most steps are about. *)
LEMMA Basics ==
    ASSUME TypeOK
    PROVE  /\ NoBuffer # <<>>
           /\ MaxLines \in Nat /\ appended \in Nat
           /\ currentBuffer \in Seq(Lines) /\ buffers \in Seq(Seq(Lines))
           /\ buffersToWrite \in Seq(Seq(Lines)) /\ done \in 0..Len(buffersToWrite)
           /\ Len(buffersToWrite) \in Nat
           /\ Lines \subseteq Entries
<1>1. MaxLines \in Nat
  BY LinesAssumption
<1>2. NoBuffer # <<>>
  <2>1. <<>> \in Seq(1..MaxLines)
    OBVIOUS
  <2> QED BY <2>1, NoBufferAssumption
<1>3. Lines \subseteq Entries
  BY <1>1 DEF Lines, Entries
<1>4. Len(buffersToWrite) \in Nat
  BY DEF TypeOK
<1> QED BY <1>1, <1>2, <1>3, <1>4 DEF TypeOK, Buffers

(* A new line goes behind all there is. *)
LEMMA CurrentStep ==
    ASSUME LoggingInv, AppendToCurrent
    PROVE  TypeOK' /\ RoundInv' /\ SpareInv' /\ OutputInv'
<1>0. TypeOK /\ RoundInv /\ SpareInv /\ OutputInv
  BY DEF LoggingInv
<1>1. /\ appended < MaxLines
      /\ currentBuffer' = Append(currentBuffer, appended + 1)
      /\ appended' = appended + 1
      /\ UNCHANGED <<nextBuffer, buffers, newBuffer1, newBuffer2, buffersToWrite,
                     pc, output, done, dropped, running>>
  BY DEF AppendToCurrent, back
<1>2. appended + 1 \in Lines /\ currentBuffer' \in Buffers /\ appended' \in 0..MaxLines
  BY <1>0, <1>1, Basics DEF Lines, Buffers, TypeOK
<1>3. TypeOK'
  BY <1>0, <1>1, <1>2 DEF TypeOK
<1>4. RoundInv' /\ SpareInv' /\ OutputInv'
  BY <1>0, <1>1 DEF RoundInv, SpareInv, SpareUnlessFull, OutputInv, written
<1> QED BY <1>3, <1>4

(* A full buffer is put away; the line goes to the next one, which is empty. *)
LEMMA NextStep ==
    ASSUME LoggingInv, AppendToNext
    PROVE  /\ TypeOK' /\ RoundInv' /\ SpareInv' /\ OutputInv'
           /\ currentBuffer' = <<appended + 1>>
<1>0. TypeOK /\ RoundInv /\ SpareInv /\ OutputInv
  BY DEF LoggingInv
<1>1. /\ appended < MaxLines
      /\ buffers' = Append(buffers, currentBuffer)
      /\ currentBuffer' = Append(IF nextBuffer # NoBuffer THEN nextBuffer ELSE <<>>, appended + 1)
      /\ nextBuffer' = NoBuffer
      /\ appended' = appended + 1
      /\ UNCHANGED <<newBuffer1, newBuffer2, buffersToWrite,
                     pc, output, done, dropped, running>>
  BY DEF AppendToNext, back
<1>2. currentBuffer' = <<appended + 1>>
  <2>1. currentBuffer' = Append(<<>>, appended + 1)
    BY <1>0, <1>1 DEF SpareInv
  <2>2. \A e : Append(<<>>, e) = <<e>>
    OBVIOUS
  <2> QED BY <2>1, <2>2
<1>3. appended + 1 \in Lines /\ appended' \in 0..MaxLines
  BY <1>0, <1>1, Basics DEF Lines, TypeOK
<1>4. currentBuffer' \in Buffers
  BY <1>2, <1>3 DEF Buffers
<1>5. buffers' \in Seq(Buffers) /\ buffers' # <<>>
  <2>1. buffers \in Seq(Seq(Lines)) /\ currentBuffer \in Seq(Lines)
    BY <1>0, Basics
  <2>2. \A s \in Seq(Seq(Lines)), e \in Seq(Lines) :
            Append(s, e) \in Seq(Seq(Lines)) /\ Append(s, e) # <<>>
    BY AppendProperties
  <2> QED BY <1>1, <2>1, <2>2 DEF Buffers
<1>6. TypeOK'
  BY <1>0, <1>1, <1>3, <1>4, <1>5 DEF TypeOK
<1>7. RoundInv' /\ SpareInv' /\ OutputInv'
  BY <1>0, <1>1, <1>5 DEF RoundInv, SpareInv, SpareUnlessFull, OutputInv, written
<1> QED BY <1>2, <1>6, <1>7

(* What leaves the buffers and the file alone. *)
LEMMA OtherStep ==
    ASSUME LoggingInv, Start \/ Stop \/ UNCHANGED vars
    PROVE  /\ TypeOK' /\ RoundInv' /\ SpareInv' /\ OutputInv'
           /\ UNCHANGED <<currentBuffer, buffers, buffersToWrite, output, done,
                          dropped, appended>>
<1>0. TypeOK /\ RoundInv /\ SpareInv /\ OutputInv
  BY DEF LoggingInv
<1>1. UNCHANGED <<currentBuffer, nextBuffer, buffers, newBuffer1, newBuffer2,
                  buffersToWrite, output, done, dropped, appended>>
  BY DEF Start, Stop, vars, front, back
<1>2. \/ UNCHANGED pc
      \/ pc = "off" /\ pc' = "begin"
  BY DEF Start, Stop, vars, front, back
<1>3. running' \in BOOLEAN
  BY <1>0 DEF Start, Stop, vars, front, back, TypeOK
<1>4. TypeOK'
  BY <1>0, <1>1, <1>2, <1>3 DEF TypeOK
<1>5. RoundInv' /\ SpareInv' /\ OutputInv'
  BY <1>0, <1>1, <1>2 DEF RoundInv, SpareInv, SpareUnlessFull, OutputInv, written
<1> QED BY <1>1, <1>4, <1>5

(* threadFunc outside the exchange and the writing: the file is opened,     *)
(* flushed or left alone.                                                   *)
LEMMA IdleStep ==
    ASSUME LoggingInv, Begin \/ Check \/ Wait \/ Written
    PROVE  /\ TypeOK' /\ RoundInv' /\ SpareInv' /\ OutputInv'
           /\ UNCHANGED <<currentBuffer, buffers, buffersToWrite, written, done,
                          dropped, appended>>
<1>0. TypeOK /\ RoundInv /\ SpareInv /\ OutputInv
  BY DEF LoggingInv
<1>1. UNCHANGED <<currentBuffer, nextBuffer, buffers, newBuffer1, newBuffer2,
                  buffersToWrite, done, dropped, appended, running>>
  BY DEF Begin, Check, Wait, Written, Step, sharedBuffers, ownBuffers
<1>2. \/ pc = "begin" /\ pc' = "check"
      \/ pc = "check" /\ pc' \in {"lock", "flushed"}
      \/ pc = "lock" /\ pc' = "wait"
      \/ pc = "write" /\ pc' = "recycle" /\ done = Len(buffersToWrite)
  BY DEF Begin, Check, Wait, Written, Step
<1>3. \/ pc = "begin" /\ \E now \in Times : output' = File!NewLogFile(now)
      \/ output' = output
      \/ output' = File!Flush(output)
  BY DEF Begin, Check, Wait, Written, Step
<1>4. FileInv(output') /\ written' = written
  <2>1. CASE pc = "begin" /\ \E now \in Times : output' = File!NewLogFile(now)
    BY <1>0, <2>1, NewKeeps DEF OutputInv, written
  <2>2. CASE output' = File!Flush(output)
    BY <1>0, <2>2, FlushKeeps DEF OutputInv, written
  <2>3. CASE output' = output
    BY <1>0, <2>3 DEF OutputInv, written
  <2> QED BY <1>3, <2>1, <2>2, <2>3
<1>5. TypeOK'
  BY <1>0, <1>1, <1>2 DEF TypeOK
<1>6. RoundInv' /\ SpareInv'
  BY <1>0, <1>1, <1>2 DEF RoundInv, SpareInv, SpareUnlessFull
<1>7. OutputInv'
  BY <1>0, <1>2, <1>4 DEF OutputInv
<1> QED BY <1>1, <1>4, <1>5, <1>6, <1>7

(* The exchange: the back end gives one of its buffers, or both when the    *)
(* front end has filled more than one.                                      *)
LEMMA SwapStep ==
    ASSUME LoggingInv, Swap
    PROVE  /\ TypeOK' /\ RoundInv' /\ SpareInv' /\ OutputInv'
           /\ buffersToWrite = <<>> /\ done = 0 /\ done' = 0
           /\ buffersToWrite' = Append(buffers, currentBuffer)
           /\ buffers' = <<>> /\ currentBuffer' = <<>>
           /\ UNCHANGED <<output, dropped, appended>>
<1>0. TypeOK /\ RoundInv /\ SpareInv /\ OutputInv
  BY DEF LoggingInv
<1>1. /\ pc \in {"wait", "lock"} /\ pc' = "drop"
      /\ buffersToWrite' = Append(buffers, currentBuffer)
      /\ buffers' = <<>>
      /\ currentBuffer' = newBuffer1
      /\ newBuffer1' = NoBuffer
      /\ IF nextBuffer = NoBuffer
           THEN nextBuffer' = newBuffer2 /\ newBuffer2' = NoBuffer
           ELSE UNCHANGED <<nextBuffer, newBuffer2>>
      /\ UNCHANGED <<output, done, dropped, appended, running>>
  BY DEF Swap, Step, AllBuffers
<1>2. newBuffer1 = <<>> /\ newBuffer2 = <<>> /\ buffersToWrite = <<>> /\ done = 0
  BY <1>0, <1>1 DEF RoundInv
<1>3. /\ buffersToWrite' \in Seq(Buffers)
      /\ Len(buffersToWrite') = Len(buffers) + 1 /\ Len(buffers) \in Nat
  BY <1>0, <1>1, Basics DEF Buffers
<1>4. <<>> \in Buffers /\ <<>> \in Seq(Buffers)
  BY DEF Buffers
<1>5. TypeOK'
  BY <1>0, <1>1, <1>2, <1>3, <1>4 DEF TypeOK
<1>6. nextBuffer = NoBuffer => Len(buffers) # 0
  <2>1. buffers \in Seq(Seq(Lines))
    BY <1>0, Basics
  <2>2. nextBuffer = NoBuffer => buffers # <<>>
    BY <1>0 DEF SpareInv, SpareUnlessFull
  <2>3. buffers # <<>> => Len(buffers) # 0
    BY <2>1
  <2> QED BY <2>2, <2>3
<1>7. RoundInv'
  BY <1>0, <1>1, <1>2, <1>3, <1>6, Basics DEF RoundInv
<1>8. nextBuffer' = <<>>
  BY <1>0, <1>1, <1>2 DEF SpareInv
<1>9. SpareInv'
  BY <1>0, <1>8, Basics DEF SpareInv, SpareUnlessFull
<1>10. OutputInv'
  BY <1>0, <1>1 DEF OutputInv, written
<1> QED BY <1>1, <1>2, <1>5, <1>7, <1>9, <1>10

(* All but two buffers are dropped, and the notice is written instead. *)
LEMMA DropStep ==
    ASSUME LoggingInv, Drop
    PROVE  TypeOK' /\ RoundInv' /\ SpareInv' /\ OutputInv'
<1>0. TypeOK /\ RoundInv /\ SpareInv /\ OutputInv
      /\ Len(buffersToWrite) \in Nat
  BY Basics DEF LoggingInv
<1>1. /\ pc = "drop" /\ pc' = "write"
      /\ UNCHANGED <<currentBuffer, nextBuffer, buffers, newBuffer1, newBuffer2,
                     done, appended, running>>
  BY DEF Drop, Step, sharedBuffers
<1>2. CASE Len(buffersToWrite) > DropAbove
  <2>1. /\ \E now, rollNow \in Times :
              output' = File!AppendUnlocked(output, <<Notice>>, now, rollNow)
        /\ buffersToWrite' = SubSeq(buffersToWrite, 1, 2)
        /\ dropped' = dropped \union
             UNION {Range(buffersToWrite[i]) : i \in 3..Len(buffersToWrite)}
    BY <1>2 DEF Drop, Announce
  <2>2. Len(buffersToWrite) > 2
    BY <1>0, <1>2, DropAssumption
  <2>3. buffersToWrite' \in Seq(Buffers) /\ Len(buffersToWrite') = 2
    BY <1>0, <2>1, <2>2, Basics DEF Buffers
  <2>4. dropped' \subseteq Lines
    <3>1. ASSUME NEW i \in 3..Len(buffersToWrite) PROVE Range(buffersToWrite[i]) \subseteq Lines
      <4>1. buffersToWrite[i] \in Seq(Lines)
        BY <1>0, Basics
      <4> QED BY <4>1 DEF Range
    <3> QED BY <1>0, <2>1, <3>1 DEF TypeOK
  <2>5. done' = 0
    BY <1>0, <1>1 DEF RoundInv
  <2>6. TypeOK'
    BY <1>0, <1>1, <2>3, <2>4, <2>5 DEF TypeOK
  <2>7. RoundInv'
    BY <1>0, <1>1, <2>3 DEF RoundInv
  <2>8. FileInv(output')
    <3>1. <<Notice>> \in Seq(Entries)
      BY LinesAssumption DEF Notice, Entries
    <3> QED BY <1>0, <2>1, <3>1, AppendUnlockedKeeps DEF OutputInv
  <2> QED BY <1>0, <1>1, <2>6, <2>7, <2>8 DEF SpareInv, SpareUnlessFull, OutputInv
<1>3. CASE ~(Len(buffersToWrite) > DropAbove)
  <2>1. UNCHANGED <<output, buffersToWrite, dropped>>
    BY <1>3 DEF Drop
  <2> QED BY <1>0, <1>1, <2>1
          DEF TypeOK, RoundInv, SpareInv, SpareUnlessFull, OutputInv
<1> QED BY <1>2, <1>3

(* One buffer is written to the file. *)
LEMMA WriteStep ==
    ASSUME LoggingInv, Write
    PROVE  /\ TypeOK' /\ RoundInv' /\ SpareInv' /\ OutputInv'
           /\ done < Len(buffersToWrite) /\ done' = done + 1
           /\ written' = written \o buffersToWrite[done + 1]
           /\ UNCHANGED <<currentBuffer, buffers, buffersToWrite, dropped, appended>>
<1>0. TypeOK /\ RoundInv /\ SpareInv /\ OutputInv
      /\ Len(buffersToWrite) \in Nat /\ done \in 0..Len(buffersToWrite)
  BY Basics DEF LoggingInv
<1>1. /\ done < Len(buffersToWrite) /\ done' = done + 1
      /\ pc = "write" /\ pc' = "write"
      /\ \E now, rollNow \in Times :
            output' = File!AppendUnlocked(output, buffersToWrite[done + 1], now, rollNow)
      /\ UNCHANGED <<currentBuffer, nextBuffer, buffers, newBuffer1, newBuffer2,
                     buffersToWrite, dropped, appended, running>>
  BY DEF Write, Step, sharedBuffers, ownBuffers
<1>2. buffersToWrite[done + 1] \in Seq(Entries)
  <2>1. buffersToWrite[done + 1] \in Seq(Lines)
    BY <1>0, <1>1, Basics
  <2> QED BY <1>0, <2>1, Basics
<1>3. FileInv(output') /\ written' = written \o buffersToWrite[done + 1]
  <2>1. PICK now \in Times, rollNow \in Times :
           output' = File!AppendUnlocked(output, buffersToWrite[done + 1], now, rollNow)
    BY <1>1
  <2>2. FileInv(output)
    BY <1>0 DEF OutputInv
  <2> QED BY <1>2, <2>1, <2>2, AppendUnlockedKeeps DEF written
<1>4. TypeOK'
  BY <1>0, <1>1 DEF TypeOK
<1>5. RoundInv' /\ SpareInv'
  BY <1>0, <1>1 DEF RoundInv, SpareInv, SpareUnlessFull
<1>6. OutputInv'
  BY <1>1, <1>3 DEF OutputInv
<1> QED BY <1>1, <1>3, <1>4, <1>5, <1>6

(* The back end's buffers come back from what it wrote. *)
LEMMA RecycleStep ==
    ASSUME LoggingInv, Recycle
    PROVE  /\ TypeOK' /\ RoundInv' /\ SpareInv' /\ OutputInv'
           /\ done = Len(buffersToWrite) /\ done' = 0 /\ buffersToWrite' = <<>>
           /\ UNCHANGED <<written, currentBuffer, buffers, dropped, appended>>
<1>0. TypeOK /\ RoundInv /\ SpareInv /\ OutputInv
      /\ Len(buffersToWrite) \in Nat /\ NoBuffer # <<>>
  BY Basics DEF LoggingInv
<1>1. /\ pc = "recycle" /\ pc' = "check"
      /\ buffersToWrite' = <<>> /\ done' = 0
      /\ output' = File!Flush(output)
      /\ UNCHANGED <<currentBuffer, nextBuffer, buffers, dropped, appended, running>>
  BY DEF Recycle, Step, sharedBuffers, FlushRound
<1>2. /\ newBuffer1 = NoBuffer /\ newBuffer2 \in {<<>>, NoBuffer}
      /\ Len(buffersToWrite) >= 1
      /\ newBuffer2 = NoBuffer => Len(buffersToWrite) >= 2
      /\ done = Len(buffersToWrite)
  BY <1>0, <1>1 DEF RoundInv
<1>3. newBuffer1' = <<>> /\ newBuffer2' = <<>>
  BY <1>0, <1>2 DEF Recycle
<1>4. FileInv(output') /\ written' = written
  BY <1>0, <1>1, FlushKeeps DEF OutputInv, written
<1>5. <<>> \in Buffers /\ <<>> \in Seq(Buffers) /\ Len(<<>>) = 0
  BY DEF Buffers
<1>6. TypeOK'
  BY <1>0, <1>1, <1>3, <1>5 DEF TypeOK
<1>7. RoundInv' /\ SpareInv'
  BY <1>0, <1>1, <1>3 DEF RoundInv, SpareInv, SpareUnlessFull
<1>8. OutputInv'
  BY <1>1, <1>4 DEF OutputInv
<1> QED BY <1>1, <1>2, <1>4, <1>6, <1>7, <1>8

-----------------------------------------------------------------------------
(* The lines in flight.                                                     *)

(* The members of a concatenation. *)
LEMMA RangeOfConcat ==
    ASSUME NEW S, NEW s \in Seq(S), NEW t \in Seq(S)
    PROVE  Range(s \o t) = Range(s) \union Range(t)
<1>1. /\ s \o t \in Seq(S) /\ Len(s \o t) = Len(s) + Len(t)
      /\ Len(s) \in Nat /\ Len(t) \in Nat
      /\ \A i \in 1..Len(s) : (s \o t)[i] = s[i]
      /\ \A i \in 1..Len(t) : (s \o t)[Len(s) + i] = t[i]
  OBVIOUS
<1>2. DOMAIN (s \o t) = 1..Len(s) + Len(t) /\ DOMAIN s = 1..Len(s) /\ DOMAIN t = 1..Len(t)
  BY <1>1
<1>3. ASSUME NEW e \in Range(s \o t) PROVE e \in Range(s) \union Range(t)
  <2>1. PICK i \in 1..Len(s) + Len(t) : (s \o t)[i] = e
    BY <1>2 DEF Range
  <2>2. CASE i <= Len(s)
    BY <1>1, <1>2, <2>1, <2>2 DEF Range
  <2>3. CASE i > Len(s)
    <3>1. i - Len(s) \in 1..Len(t) /\ Len(s) + (i - Len(s)) = i
      BY <1>1, <2>3
    <3> QED BY <1>1, <1>2, <2>1, <3>1 DEF Range
  <2> QED BY <1>1, <2>2, <2>3
<1>4. ASSUME NEW e \in Range(s) PROVE e \in Range(s \o t)
  BY <1>1, <1>2 DEF Range
<1>5. ASSUME NEW e \in Range(t) PROVE e \in Range(s \o t)
  <2>1. PICK i \in 1..Len(t) : t[i] = e
    BY <1>2 DEF Range
  <2>2. Len(s) + i \in 1..Len(s) + Len(t) /\ (s \o t)[Len(s) + i] = e
    BY <1>1, <2>1
  <2> QED BY <1>2, <2>2 DEF Range
<1> QED BY <1>3, <1>4, <1>5

(* The members with one more. *)
LEMMA RangeOfAppend ==
    ASSUME NEW S, NEW s \in Seq(S), NEW e \in S
    PROVE  Range(Append(s, e)) = Range(s) \union {e}
<1>1. Append(s, e) = s \o <<e>> /\ <<e>> \in Seq(S)
  OBVIOUS
<1>2. Range(<<e>>) = {e}
  BY DEF Range
<1>3. Range(s \o <<e>>) = Range(s) \union Range(<<e>>)
  BY <1>1, RangeOfConcat
<1> QED BY <1>1, <1>2, <1>3

(* The members of sequences concatenated, by induction over their number. *)
LEMMA RangeOfFlatten ==
    ASSUME NEW S, NEW ss \in Seq(Seq(S))
    PROVE  Range(FlattenSeq(ss)) = UNION {Range(ss[i]) : i \in 1..Len(ss)}
<1> DEFINE All(uu) == UNION {Range(uu[i]) : i \in 1..Len(uu)}
           N == {n \in Nat : \A uu \in Seq(Seq(S)) :
                    Len(uu) = n => Range(FlattenSeq(uu)) = All(uu)}
<1>1. ASSUME NEW uu \in Seq(Seq(S)), Len(uu) = 0 PROVE Range(FlattenSeq(uu)) = All(uu)
  <2>1. uu = <<>>
    BY <1>1
  <2>2. FlattenSeq(uu) = <<>>
    BY <2>1, FlattenEmpty
  <2>3. Range(FlattenSeq(uu)) = {}
    BY <2>2 DEF Range
  <2> QED BY <1>1, <2>3
<1>2. ASSUME NEW n \in Nat, n \in N, NEW uu \in Seq(Seq(S)), Len(uu) = n + 1
      PROVE  Range(FlattenSeq(uu)) = All(uu)
  <2>0. uu # <<>> /\ Len(uu) - 1 = n
    BY <1>2
  <2>1. PICK vv \in Seq(Seq(S)), s \in Seq(S) : uu = Append(vv, s) /\ Len(vv) = n
    <3> HIDE DEF N, All
    <3>1. \E vv \in Seq(Seq(S)), s \in Seq(S) :
             uu = Append(vv, s) /\ Len(vv) = Len(uu) - 1
      BY <2>0, FrontLast
    <3> QED BY <2>0, <3>1
  <2>2. Range(FlattenSeq(vv)) = All(vv)
    BY <1>2, <2>1
  <2>3. FlattenSeq(uu) = FlattenSeq(vv) \o s /\ FlattenSeq(vv) \in Seq(S)
    BY <2>1, FlattenAppend
  <2>4. Range(FlattenSeq(uu)) = Range(FlattenSeq(vv)) \union Range(s)
    BY <2>3, RangeOfConcat
  <2>5. uu[n + 1] = s /\ \A i \in 1..n : uu[i] = vv[i]
    BY <2>1, AppendProperties
  <2>6. All(uu) = All(vv) \union Range(s)
    <3>1. 1..n + 1 = (1..n) \union {n + 1}
      BY <1>2
    <3> QED BY <1>2, <2>1, <2>5, <3>1
  <2> QED BY <2>2, <2>4, <2>6
<1>3. 0 \in N
  BY <1>1
<1>4. ASSUME NEW n \in Nat, n \in N PROVE n + 1 \in N
  <2>1. \A uu \in Seq(Seq(S)) : Len(uu) = n + 1 => Range(FlattenSeq(uu)) = All(uu)
    BY <1>2, <1>4
  <2> QED BY <2>1
<1> HIDE DEF N
<1>5. \A n \in Nat : n \in N => n + 1 \in N
  BY <1>4
<1>6. \A n \in Nat : n \in N
  BY <1>3, <1>5, Induction
<1>7. Len(ss) \in N
  <2>1. Len(ss) \in Nat
    OBVIOUS
  <2> QED BY <1>6, <2>1
<1> QED BY <1>7 DEF N

(* A line greater than all before it goes last. *)
LEMMA AscendingAppend ==
    ASSUME NEW s \in Seq(Entries), NEW n \in Nat, NEW d \in SUBSET (1..n),
           n + 1 \in Entries, Ascending(s), Range(s) \ {Notice} = (1..n) \ d
    PROVE  /\ Ascending(Append(s, n + 1))
           /\ Range(Append(s, n + 1)) \ {Notice} = (1..n + 1) \ d
<1>1. Range(Append(s, n + 1)) = Range(s) \union {n + 1}
  BY RangeOfAppend
<1>2. (1..n + 1) \ d = ((1..n) \ d) \union {n + 1} /\ n + 1 # Notice
  BY DEF Notice
<1> DEFINE t == Append(s, n + 1)
<1>3. /\ Len(s) \in Nat /\ DOMAIN s = 1..Len(s) /\ DOMAIN t = 1..Len(s) + 1
      /\ t[Len(s) + 1] = n + 1 /\ \A i \in 1..Len(s) : t[i] = s[i]
  OBVIOUS
<1> HIDE DEF t
<1>4. \A i \in 1..Len(s) : s[i] # Notice => s[i] < n + 1
  <2>1. \A i \in 1..Len(s) : s[i] \in Range(s)
    BY <1>3 DEF Range
  <2>2. \A e \in Range(s) : e # Notice => e \in 1..n
    OBVIOUS
  <2> QED BY <2>1, <2>2
<1>5. ASSUME NEW i \in 1..Len(s) + 1, NEW j \in 1..Len(s) + 1, i < j,
             t[i] # Notice, t[j] # Notice
      PROVE  t[i] < t[j]
  <2>1. i \in 1..Len(s)
    BY <1>3, <1>5
  <2>2. CASE j = Len(s) + 1
    BY <1>3, <1>4, <1>5, <2>1, <2>2
  <2>3. CASE j \in 1..Len(s)
    BY <1>3, <1>5, <2>1, <2>3 DEF Ascending
  <2> QED BY <1>3, <2>2, <2>3
<1>6. Ascending(t)
  BY <1>3, <1>5 DEF Ascending
<1> QED BY <1>1, <1>2, <1>6 DEF t

(* A part of the lines is taken out, and a notice put in before. *)
LEMMA AscendingDrop ==
    ASSUME NEW a \in Seq(Entries), NEW x \in Seq(Entries), NEW y \in Seq(Entries),
           NEW z \in Seq(Entries), Notice \notin Range(y),
           Ascending(a \o x \o y \o z)
    PROVE  /\ Ascending(a \o <<Notice>> \o x \o z)
           /\ Range(a \o <<Notice>> \o x \o z) \ {Notice}
                = Range(a \o x \o y \o z) \ (Range(y) \union {Notice})
<1> DEFINE A == Len(a)
           X == Len(x)
           Y == Len(y)
           Z == Len(z)
           old == a \o x \o y \o z
           new == a \o <<Notice>> \o x \o z
<1>1. A \in Nat /\ X \in Nat /\ Y \in Nat /\ Z \in Nat
  OBVIOUS
<1>2. <<Notice>> \in Seq(Entries) /\ Len(<<Notice>>) = 1 /\ Range(<<Notice>>) = {Notice}
  BY LinesAssumption DEF Notice, Entries, Range
<1>3. /\ DOMAIN old = 1..A + X + Y + Z
      /\ \A i \in 1..A : old[i] = a[i]
      /\ \A i \in 1..X : old[A + i] = x[i]
      /\ \A i \in 1..Y : old[A + X + i] = y[i]
      /\ \A i \in 1..Z : old[A + X + Y + i] = z[i]
  OBVIOUS
<1>4. /\ DOMAIN new = 1..A + 1 + X + Z
      /\ \A i \in 1..A : new[i] = a[i]
      /\ new[A + 1] = Notice
      /\ \A i \in 1..X : new[A + 1 + i] = x[i]
      /\ \A i \in 1..Z : new[A + 1 + X + i] = z[i]
  BY <1>2
<1>0. \A s, t \in Seq(Entries) : Range(s \o t) = Range(s) \union Range(t)
  BY RangeOfConcat
<1>5. Range(old) = Range(a) \union Range(x) \union Range(y) \union Range(z)
  <2> DEFINE ax == a \o x
             axy == ax \o y
  <2>1. ax \in Seq(Entries) /\ axy \in Seq(Entries)
    OBVIOUS
  <2>2. Range(ax) = Range(a) \union Range(x)
    BY <1>0
  <2> HIDE DEF ax
  <2>3. Range(axy) = Range(ax) \union Range(y)
    BY <1>0, <2>1
  <2> HIDE DEF axy
  <2>4. Range(axy \o z) = Range(axy) \union Range(z)
    BY <1>0, <2>1
  <2> QED BY <2>2, <2>3, <2>4, Zenon DEF ax, axy
<1>6. Range(new) = Range(a) \union {Notice} \union Range(x) \union Range(z)
  <2> DEFINE told == <<Notice>>
             at == a \o told
             atx == at \o x
  <2>1. told \in Seq(Entries) /\ at \in Seq(Entries) /\ atx \in Seq(Entries)
        /\ Range(told) = {Notice}
    BY <1>2
  <2> HIDE DEF told
  <2>2. Range(at) = Range(a) \union Range(told)
    BY <1>0, <2>1
  <2> HIDE DEF at
  <2>3. Range(atx) = Range(at) \union Range(x)
    BY <1>0, <2>1
  <2> HIDE DEF atx
  <2>4. Range(atx \o z) = Range(atx) \union Range(z)
    BY <1>0, <2>1
  <2>5. Range(atx \o z) = Range(a) \union {Notice} \union Range(x) \union Range(z)
    BY <2>1, <2>2, <2>3, <2>4
  <2> QED BY <2>5 DEF told, at, atx
<1>7. /\ DOMAIN a = 1..A /\ DOMAIN x = 1..X /\ DOMAIN y = 1..Y /\ DOMAIN z = 1..Z
      /\ \A k \in 1..Y : y[k] \in Entries
  OBVIOUS
<1> HIDE DEF A, X, Y, Z, old, new
<1>8. Ascending(old)
  BY DEF old
<1> DEFINE from == [k \in 1..A + 1 + X + Z |->
                      IF k <= A THEN k ELSE IF k <= A + 1 + X THEN k - 1 ELSE k - 1 + Y]
<1>9. ASSUME NEW k \in 1..A + 1 + X + Z, k # A + 1
      PROVE  from[k] \in 1..A + X + Y + Z /\ new[k] = old[from[k]]
  <2>1. CASE k <= A
    BY <1>1, <1>3, <1>4, <2>1
  <2>2. CASE A + 1 < k /\ k <= A + 1 + X
    <3>1. k - 1 - A \in 1..X /\ from[k] = A + (k - 1 - A) /\ k = A + 1 + (k - 1 - A)
      BY <1>1, <2>2
    <3>2. from[k] \in 1..A + X + Y + Z
      BY <1>1, <3>1
    <3> QED BY <1>3, <1>4, <3>1, <3>2
  <2>3. CASE A + 1 + X < k
    <3>1. k - 1 - A - X \in 1..Z /\ from[k] = A + X + Y + (k - 1 - A - X)
          /\ k = A + 1 + X + (k - 1 - A - X)
      BY <1>1, <2>3
    <3>2. from[k] \in 1..A + X + Y + Z
      BY <1>1, <3>1
    <3> QED BY <1>3, <1>4, <3>1, <3>2
  <2> QED BY <1>1, <1>9, <2>1, <2>2, <2>3
<1>10. ASSUME NEW i \in 1..A + 1 + X + Z, NEW j \in 1..A + 1 + X + Z, i < j
       PROVE  i # A + 1 /\ j # A + 1 => from[i] < from[j]
  BY <1>1, <1>10
<1> HIDE DEF from
<1>11. ASSUME NEW i \in DOMAIN new, NEW j \in DOMAIN new, i < j,
              new[i] # Notice, new[j] # Notice
       PROVE  new[i] < new[j]
  <2>1. i # A + 1 /\ j # A + 1
    BY <1>4, <1>11
  <2>2. /\ from[i] \in DOMAIN old /\ from[j] \in DOMAIN old /\ from[i] < from[j]
        /\ new[i] = old[from[i]] /\ new[j] = old[from[j]]
    BY <1>3, <1>4, <1>9, <1>10, <1>11, <2>1
  <2> QED BY <1>8, <1>11, <2>2 DEF Ascending
<1>12. Ascending(new)
  BY <1>11 DEF Ascending
<1>13. ASSUME NEW e \in Range(y) PROVE ~(e < e)
  <2>1. e \in Entries
    BY <1>7 DEF Range
  <2> QED BY <2>1, LinesAssumption DEF Entries
<1>14. ASSUME NEW e \in Range(y), e \in Range(a) \union Range(x) \union Range(z)
       PROVE  FALSE
  <2>0. e # Notice
    OBVIOUS
  <2>1. PICK k \in 1..Y : y[k] = e
    BY <1>7 DEF Range
  <2>2. A + X + k \in DOMAIN old /\ old[A + X + k] = e
    BY <1>1, <1>3, <2>1
  <2>3. CASE e \in Range(a)
    <3>1. PICK i \in 1..A : a[i] = e
      BY <1>7, <2>3 DEF Range
    <3>2. i \in DOMAIN old /\ old[i] = e /\ i < A + X + k
      BY <1>1, <1>3, <3>1
    <3>3. e < e
      BY <1>8, <2>0, <2>2, <3>2 DEF Ascending
    <3> QED BY <1>13, <3>3
  <2>4. CASE e \in Range(x)
    <3>1. PICK i \in 1..X : x[i] = e
      BY <1>7, <2>4 DEF Range
    <3>2. A + i \in DOMAIN old /\ old[A + i] = e /\ A + i < A + X + k
      BY <1>1, <1>3, <3>1
    <3>3. e < e
      BY <1>8, <2>0, <2>2, <3>2 DEF Ascending
    <3> QED BY <1>13, <3>3
  <2>5. CASE e \in Range(z)
    <3>1. PICK i \in 1..Z : z[i] = e
      BY <1>7, <2>5 DEF Range
    <3>2. /\ A + X + Y + i \in DOMAIN old /\ old[A + X + Y + i] = e
          /\ A + X + k < A + X + Y + i
      BY <1>1, <1>3, <3>1
    <3>3. e < e
      BY <1>8, <2>0, <2>2, <3>2 DEF Ascending
    <3> QED BY <1>13, <3>3
  <2> QED BY <1>14, <2>3, <2>4, <2>5
<1>15. Range(new) \ {Notice} = Range(old) \ (Range(y) \union {Notice})
  BY <1>5, <1>6, <1>14
<1> QED BY <1>12, <1>15 DEF old, new

(* Concatenation is associative. *)
LEMMA Regroup ==
    \A a, b, c \in Seq(Entries) : /\ a \o b \in Seq(Entries)
                                 /\ (a \o b) \o c = a \o (b \o c)
BY ConcatAssociative

Batch == SubSeq(buffersToWrite, done + 1, Len(buffersToWrite))

(* The four places of the lines in flight, all sequences of entries. *)
LEMMA Flight ==
    ASSUME TypeOK, FileInv(output)
    PROVE  /\ InFlight = written \o FlattenSeq(Batch) \o FlattenSeq(buffers) \o currentBuffer
           /\ Batch \in Seq(Seq(Entries)) /\ buffers \in Seq(Seq(Entries))
           /\ written \in Seq(Entries) /\ FlattenSeq(Batch) \in Seq(Entries)
           /\ FlattenSeq(buffers) \in Seq(Entries) /\ currentBuffer \in Seq(Entries)
           /\ InFlight \in Seq(Entries)
<1>1. InFlight = written \o FlattenSeq(Batch) \o FlattenSeq(buffers) \o currentBuffer
  BY DEF InFlight, Batch
<1>2. currentBuffer \in Seq(Entries) /\ buffers \in Seq(Seq(Entries))
      /\ buffersToWrite \in Seq(Seq(Entries))
  <2>1. Seq(Lines) \subseteq Seq(Entries)
    BY Basics
  <2>2. Seq(Seq(Lines)) \subseteq Seq(Seq(Entries))
    BY <2>1
  <2> QED BY <2>1, <2>2, Basics
<1>3. Batch \in Seq(Seq(Entries))
  <2>1. done + 1 \in Int /\ Len(buffersToWrite) \in Int
        /\ \A i \in done + 1..Len(buffersToWrite) : buffersToWrite[i] \in Seq(Entries)
    BY <1>2, Basics
  <2> QED BY <2>1, SubSeqProperties DEF Batch
<1>4. written \in Seq(Entries)
  BY FileContents DEF FileInv, written
<1>5. FlattenSeq(Batch) \in Seq(Entries) /\ FlattenSeq(buffers) \in Seq(Entries)
  BY <1>2, <1>3, FlattenAppend
<1>6. \A a, b, c, d \in Seq(Entries) : a \o b \o c \o d \in Seq(Entries)
  OBVIOUS
<1>7. InFlight \in Seq(Entries)
  BY <1>1, <1>2, <1>4, <1>5, <1>6
<1> QED BY <1>1, <1>2, <1>3, <1>4, <1>5, <1>7

(* append puts the line behind all there is, in either of its ways. *)
LEMMA AppendFlight ==
    ASSUME LoggingInv, AppendToCurrent \/ AppendToNext
    PROVE  /\ appended' = appended + 1 /\ dropped' = dropped /\ appended + 1 \in Entries
           /\ InFlight \in Seq(Entries) /\ InFlight' = Append(InFlight, appended + 1)
<1>0. /\ TypeOK /\ OutputInv /\ FileInv(output) /\ dropped \subseteq 1..appended
      /\ LinesInOrder /\ appended \in Nat
  BY Basics DEF LoggingInv, OutputInv
<1> DEFINE w == written \o FlattenSeq(Batch)
           q == FlattenSeq(buffers)
           n == appended + 1
<1>1. /\ appended < MaxLines /\ appended' = n /\ dropped' = dropped
      /\ UNCHANGED <<written, Batch>>
  BY DEF AppendToCurrent, AppendToNext, back, written, Batch
<1>2. n \in Entries
  BY <1>0, <1>1, Basics DEF Entries
<1>3. /\ w \in Seq(Entries) /\ q \in Seq(Entries) /\ currentBuffer \in Seq(Entries)
      /\ InFlight = w \o q \o currentBuffer /\ InFlight \in Seq(Entries)
  BY <1>0, Flight
<1>4. TypeOK' /\ FileInv(output')
  BY CurrentStep, NextStep DEF OutputInv
<1>5. InFlight' = w \o FlattenSeq(buffers') \o currentBuffer'
  <2>1. InFlight' = written' \o FlattenSeq(Batch)' \o FlattenSeq(buffers)' \o currentBuffer'
    BY DEF InFlight, Batch
  <2> QED BY <1>1, <2>1
<1>6. InFlight' = Append(InFlight, n)
  <2> HIDE DEF w, n
  <2>1. CASE AppendToCurrent
    <3>1. currentBuffer' = Append(currentBuffer, n) /\ buffers' = buffers
      BY <2>1 DEF AppendToCurrent, n
    <3>2. InFlight' = w \o q \o Append(currentBuffer, n)
      BY <1>5, <3>1
    <3> HIDE DEF q
    <3>3. \A a, b, c \in Seq(Entries) : a \o b \o Append(c, n) = Append(a \o b \o c, n)
      BY <1>2
    <3> QED BY <1>3, <3>2, <3>3
  <2>2. CASE AppendToNext
    <3>1. currentBuffer' = <<n>> /\ buffers' = Append(buffers, currentBuffer)
      BY <2>2, NextStep DEF AppendToNext, n
    <3>2. FlattenSeq(buffers') = q \o currentBuffer
      BY <1>0, <1>3, <3>1, Flight, FlattenAppend
    <3>3. InFlight' = w \o (q \o currentBuffer) \o <<n>>
      BY <1>5, <3>1, <3>2
    <3> HIDE DEF q
    <3>4. \A a, b, c \in Seq(Entries) : a \o (b \o c) \o <<n>> = Append(a \o b \o c, n)
      BY <1>2
    <3> QED BY <1>3, <3>3, <3>4
  <2> QED BY <2>1, <2>2
<1> QED BY <1>1, <1>2, <1>3, <1>6

(* The lines stay in order. *)
LEMMA AppendKeepsOrder ==
    ASSUME LoggingInv, AppendToCurrent \/ AppendToNext
    PROVE  LinesInOrder' /\ (dropped \subseteq 1..appended)'
<1> DEFINE n == appended + 1
<1>0. dropped \subseteq 1..appended /\ LinesInOrder /\ appended \in Nat
  BY Basics DEF LoggingInv
<1>1. appended' = n /\ dropped' = dropped
  BY AppendFlight
<1>2. n \in Entries /\ InFlight \in Seq(Entries) /\ InFlight' = Append(InFlight, n)
  BY AppendFlight
<1>7. Ascending(InFlight) /\ Range(InFlight) \ {Notice} = (1..appended) \ dropped
  BY <1>0 DEF LinesInOrder
<1>8. /\ Ascending(Append(InFlight, n))
      /\ Range(Append(InFlight, n)) \ {Notice} = (1..n) \ dropped
  <2>1. appended \in Nat /\ appended + 1 \in Entries /\ InFlight \in Seq(Entries)
        /\ dropped \in SUBSET (1..appended)
    BY <1>0, <1>2
  <2> QED BY <1>7, <2>1, AscendingAppend
<1>9. LinesInOrder'
  <2>1. Ascending(InFlight') /\ Range(InFlight') \ {Notice} = (1..appended') \ dropped'
    BY <1>1, <1>2, <1>8
  <2> QED BY <2>1 DEF LinesInOrder, Ascending
<1>10. (dropped \subseteq 1..appended)'
  BY <1>0, <1>1
<1> QED BY <1>9, <1>10

(* What neither adds a line nor drops one leaves the lines in flight.       *)
LEMMA SameFlight ==
    ASSUME LoggingInv, InFlight' = InFlight, UNCHANGED <<appended, dropped>>
    PROVE  LinesInOrder' /\ (dropped \subseteq 1..appended)'
<1>1. LinesInOrder /\ dropped \subseteq 1..appended
  BY DEF LoggingInv
<1>2. Ascending(InFlight') /\ Range(InFlight') \ {Notice} = (1..appended') \ dropped'
  BY <1>1 DEF LinesInOrder
<1> QED BY <1>1, <1>2 DEF LinesInOrder, Ascending

(* The lines in flight depend on the four places only. *)
LEMMA IdleKeepsFlight ==
    ASSUME UNCHANGED <<currentBuffer, buffers, buffersToWrite, written, done>>
    PROVE  InFlight' = InFlight
BY DEF InFlight

(* Before the first buffer is written the batch is all of buffersToWrite. *)
LEMMA FullBatch ==
    ASSUME NEW S, NEW ss \in Seq(S) PROVE SubSeq(ss, 0 + 1, Len(ss)) = ss
BY SubSeqFull

(* After the last one it is nothing. *)
LEMMA NoBatch ==
    ASSUME NEW ss, NEW k \in Nat, NEW m \in Nat, m < k PROVE FlattenSeq(SubSeq(ss, k, m)) = <<>>
<1>1. SubSeq(ss, k, m) = <<>>
  BY SubSeqEmpty
<1> QED BY <1>1, FlattenEmpty

(* The exchange moves the lines, in their order, to the batch. *)
LEMMA SwapKeepsFlight ==
    ASSUME LoggingInv, Swap
    PROVE  InFlight' = InFlight
<1>0. TypeOK /\ FileInv(output)
  BY DEF LoggingInv, OutputInv
<1>1. /\ buffersToWrite = <<>> /\ done = 0 /\ done' = 0
      /\ buffersToWrite' = Append(buffers, currentBuffer)
      /\ buffers' = <<>> /\ currentBuffer' = <<>> /\ written' = written
  BY SwapStep DEF written
<1>2. /\ written \in Seq(Entries) /\ FlattenSeq(buffers) \in Seq(Entries)
      /\ currentBuffer \in Seq(Entries) /\ buffers \in Seq(Seq(Entries))
      /\ InFlight = written \o FlattenSeq(Batch) \o FlattenSeq(buffers) \o currentBuffer
  BY <1>0, Flight
<1>3. FlattenSeq(Batch) = <<>>
  <2>1. Batch = <<>>
    BY <1>1 DEF Batch
  <2> QED BY <2>1, FlattenEmpty
<1>4. FlattenSeq(Batch') = FlattenSeq(buffers) \o currentBuffer
  <2> DEFINE full == Append(buffers, currentBuffer)
  <2>1. full \in Seq(Seq(Entries))
    BY <1>2
  <2>2. FlattenSeq(full) = FlattenSeq(buffers) \o currentBuffer
    BY <1>2, FlattenAppend
  <2> HIDE DEF full
  <2>3. Batch' = SubSeq(full, 0 + 1, Len(full))
    BY <1>1 DEF Batch, full
  <2> QED BY <2>1, <2>2, <2>3, FullBatch
<1>5. InFlight' = written \o (FlattenSeq(buffers) \o currentBuffer) \o FlattenSeq(<<>>) \o <<>>
  <2>1. InFlight' = written' \o FlattenSeq(Batch') \o FlattenSeq(buffers') \o currentBuffer'
    BY DEF InFlight, Batch
  <2> QED BY <1>1, <1>4, <2>1
<1>6. \A a, b, c \in Seq(Entries) :
          a \o (b \o c) \o <<>> \o <<>> = a \o <<>> \o b \o c
  OBVIOUS
<1> DEFINE q == FlattenSeq(buffers)
<1>7. /\ InFlight = written \o <<>> \o q \o currentBuffer
      /\ InFlight' = written \o (q \o currentBuffer) \o <<>> \o <<>>
      /\ q \in Seq(Entries)
  BY <1>2, <1>3, <1>5, FlattenEmpty
<1> HIDE DEF q
<1> QED BY <1>2, <1>6, <1>7

(* Writing moves the front of the batch to the end of the file. *)
LEMMA WriteKeepsFlight ==
    ASSUME LoggingInv, Write
    PROVE  InFlight' = InFlight
<1>0. TypeOK /\ FileInv(output)
  BY DEF LoggingInv, OutputInv
<1>1. /\ done < Len(buffersToWrite) /\ done' = done + 1
      /\ written' = written \o buffersToWrite[done + 1]
      /\ UNCHANGED <<currentBuffer, buffers, buffersToWrite>>
  BY WriteStep
<1>2. /\ written \in Seq(Entries) /\ FlattenSeq(buffers) \in Seq(Entries)
      /\ currentBuffer \in Seq(Entries)
      /\ InFlight = written \o FlattenSeq(Batch) \o FlattenSeq(buffers) \o currentBuffer
  BY <1>0, Flight
<1>3. /\ buffersToWrite \in Seq(Seq(Lines)) /\ done \in Nat
      /\ Len(buffersToWrite) \in Nat
  BY <1>0, Basics
<1> DEFINE next == buffersToWrite[done + 1]
           rest == SubSeq(buffersToWrite, done + 2, Len(buffersToWrite))
<1>4. Batch = <<next>> \o rest
  <2>1. done + 1 \in 1..Len(buffersToWrite)
        /\ Len(buffersToWrite) \in done + 1..Len(buffersToWrite)
        /\ done + 1 + 1 = done + 2
    BY <1>1, <1>3
  <2> QED BY <1>3, <2>1, SubSeqRecursiveFirst DEF Batch
<1>5. Batch' = rest
  BY <1>1, <1>3 DEF Batch
<1>6. next \in Seq(Entries) /\ rest \in Seq(Seq(Entries))
  <2>1. Seq(Lines) \subseteq Seq(Entries)
    BY <1>0, Basics
  <2>2. next \in Seq(Lines)
    BY <1>1, <1>3
  <2>3. rest \in Seq(Seq(Lines))
    BY <1>3
  <2> QED BY <2>1, <2>2, <2>3
<1> HIDE DEF next, rest
<1>7. FlattenSeq(Batch) = next \o FlattenSeq(rest) /\ FlattenSeq(rest) \in Seq(Entries)
  <2>1. <<next>> \in Seq(Seq(Entries))
    BY <1>6
  <2>2. FlattenSeq(<<next>> \o rest) = FlattenSeq(<<next>>) \o FlattenSeq(rest)
    BY <1>6, <2>1, FlattenConcat
  <2>3. FlattenSeq(<<next>>) = next
    BY <1>6, FlattenOne
  <2>4. FlattenSeq(rest) \in Seq(Entries)
    BY <1>6, FlattenAppend
  <2> QED BY <1>4, <2>2, <2>3, <2>4
<1>8. InFlight' = (written \o next) \o FlattenSeq(rest) \o FlattenSeq(buffers) \o currentBuffer
  <2>1. InFlight' = written' \o FlattenSeq(Batch') \o FlattenSeq(buffers') \o currentBuffer'
    BY DEF InFlight, Batch
  <2> QED BY <1>1, <1>5, <2>1 DEF next
<1> DEFINE p == FlattenSeq(rest)
           q == FlattenSeq(buffers)
<1>10. /\ InFlight = written \o (next \o p) \o q \o currentBuffer
       /\ InFlight' = (written \o next) \o p \o q \o currentBuffer
       /\ p \in Seq(Entries) /\ q \in Seq(Entries)
  BY <1>2, <1>7, <1>8
<1> HIDE DEF p, q
<1>9. (written \o next) \o p \o q \o currentBuffer
        = written \o (next \o p) \o q \o currentBuffer
  <2>1. /\ written \in Seq(Entries) /\ next \in Seq(Entries)
        /\ p \in Seq(Entries) /\ q \in Seq(Entries) /\ currentBuffer \in Seq(Entries)
    BY <1>2, <1>6, <1>10
  <2>2. (written \o next) \o p = written \o (next \o p)
    BY <2>1, Regroup
  <2> QED BY <2>2
<1> QED BY <1>9, <1>10

(* The buffers recycled are written already. *)
LEMMA RecycleKeepsFlight ==
    ASSUME LoggingInv, Recycle
    PROVE  InFlight' = InFlight
<1>0. TypeOK /\ Len(buffersToWrite) \in Nat
  BY Basics DEF LoggingInv
<1>1. /\ done = Len(buffersToWrite) /\ done' = 0 /\ buffersToWrite' = <<>>
      /\ UNCHANGED <<written, currentBuffer, buffers>>
  BY RecycleStep
<1>2. FlattenSeq(Batch) = <<>>
  BY <1>0, <1>1, NoBatch DEF Batch
<1>3. FlattenSeq(Batch') = <<>>
  <2>1. Batch' = <<>>
    BY <1>1 DEF Batch
  <2> QED BY <2>1, FlattenEmpty
<1>4. /\ InFlight = written \o FlattenSeq(Batch) \o FlattenSeq(buffers) \o currentBuffer
      /\ InFlight' = written' \o FlattenSeq(Batch') \o FlattenSeq(buffers') \o currentBuffer'
  BY DEF InFlight, Batch
<1> QED BY <1>1, <1>2, <1>3, <1>4

(* The lines of the third buffer and on, y, leave the batch; a notice goes   *)
(* to the file before x, those of the first two.                            *)
DropMoves(x, y, z) ==
    /\ x = buffersToWrite[1] \o buffersToWrite[2]
    /\ z = FlattenSeq(buffers) \o currentBuffer
    /\ Notice \notin Range(y) /\ dropped' = dropped \union Range(y)
    /\ InFlight = written \o x \o y \o z
    /\ InFlight' = written \o <<Notice>> \o x \o z

(* A drop is such a move. *)
LEMMA DropFlight ==
    ASSUME LoggingInv, Drop, Len(buffersToWrite) > DropAbove
    PROVE  \E x, y, z \in Seq(Entries) : DropMoves(x, y, z)
<1>a. /\ TypeOK /\ FileInv(output) /\ RoundInv
      /\ LinesInOrder /\ dropped \subseteq 1..appended
      /\ Len(buffersToWrite) \in Nat
      /\ buffersToWrite \in Seq(Seq(Lines))
  BY Basics DEF LoggingInv, OutputInv
<1>b. done = 0 /\ UNCHANGED <<done, currentBuffer, buffers, appended>>
  BY <1>a DEF Drop, Step, sharedBuffers, RoundInv
<1> DEFINE kept == SubSeq(buffersToWrite, 1, 2)
           gone == SubSeq(buffersToWrite, 3, Len(buffersToWrite))
           x == FlattenSeq(kept)
           y == FlattenSeq(gone)
           q == FlattenSeq(buffers)
           z == q \o currentBuffer
           lost == UNION {Range(buffersToWrite[i]) : i \in 3..Len(buffersToWrite)}
<1>1. /\ \E now, rollNow \in Times :
            output' = File!AppendUnlocked(output, <<Notice>>, now, rollNow)
      /\ buffersToWrite' = kept
      /\ dropped' = dropped \union lost
  BY DEF Drop, Announce
<1>2. Len(buffersToWrite) > 2
  BY <1>a, DropAssumption
<1>3. kept \in Seq(Seq(Lines)) /\ gone \in Seq(Seq(Lines)) /\ Len(kept) = 2
      /\ Len(gone) = Len(buffersToWrite) - 2
      /\ \A i \in 1..Len(gone) : gone[i] = buffersToWrite[i + 2]
  BY <1>a, <1>2
<1>4. buffersToWrite = kept \o gone
  <2>1. SubSeq(buffersToWrite, 1, 2) \o SubSeq(buffersToWrite, 2 + 1, Len(buffersToWrite))
          = SubSeq(buffersToWrite, 1, Len(buffersToWrite))
    <3>1. /\ 1 \in 1..Len(buffersToWrite) + 1
          /\ 2 \in 1 - 1..Len(buffersToWrite)
          /\ Len(buffersToWrite) \in 2..Len(buffersToWrite)
      BY <1>a, <1>2
    <3> QED BY <1>a, <3>1, ConcatAdjacentSubSeq
  <2>2. SubSeq(buffersToWrite, 1, Len(buffersToWrite)) = buffersToWrite
    BY <1>a, SubSeqFull
  <2> QED BY <2>1, <2>2
<1>5. /\ written \in Seq(Entries) /\ q \in Seq(Entries)
      /\ currentBuffer \in Seq(Entries) /\ InFlight \in Seq(Entries)
      /\ InFlight = written \o FlattenSeq(Batch) \o q \o currentBuffer
  BY <1>a, Flight
<1>6. Lines \subseteq Entries /\ Notice \notin Lines
  BY <1>a, Basics DEF Lines, Notice
<1>7. x \in Seq(Lines) /\ y \in Seq(Lines)
  BY <1>3, FlattenType
<1>8. x \in Seq(Entries) /\ y \in Seq(Entries) /\ z \in Seq(Entries)
  <2>1. Seq(Lines) \subseteq Seq(Entries)
    BY <1>6
  <2>2. q \o currentBuffer \in Seq(Entries)
    BY <1>5
  <2> QED BY <1>7, <2>1, <2>2
<1>9. Notice \notin Range(y)
  BY <1>6, <1>7 DEF Range
<1>10. Range(y) = lost
  <2>1. Range(y) = UNION {Range(gone[i]) : i \in 1..Len(gone)}
    BY <1>3, RangeOfFlatten
  <2> HIDE DEF gone
  <2>2. ASSUME NEW i \in 1..Len(gone)
        PROVE  i + 2 \in 3..Len(buffersToWrite) /\ Range(gone[i]) = Range(buffersToWrite[i + 2])
    BY <1>a, <1>3
  <2>3. ASSUME NEW i \in 3..Len(buffersToWrite)
        PROVE  i - 2 \in 1..Len(gone) /\ Range(gone[i - 2]) = Range(buffersToWrite[i])
    <3>1. i - 2 \in 1..Len(gone) /\ i - 2 + 2 = i
      BY <1>a, <1>3
    <3>2. gone[i - 2] = buffersToWrite[i - 2 + 2]
      BY <1>3, <3>1
    <3> QED BY <3>1, <3>2
  <2>4. ASSUME NEW e \in Range(y) PROVE e \in lost
    <3>1. PICK i \in 1..Len(gone) : e \in Range(gone[i])
      BY <2>1
    <3>2. i + 2 \in 3..Len(buffersToWrite) /\ e \in Range(buffersToWrite[i + 2])
      BY <2>2, <3>1
    <3> QED BY <3>2
  <2>5. ASSUME NEW e \in lost PROVE e \in Range(y)
    <3>1. PICK i \in 3..Len(buffersToWrite) : e \in Range(buffersToWrite[i])
      OBVIOUS
    <3>2. i - 2 \in 1..Len(gone) /\ e \in Range(gone[i - 2])
      BY <2>3, <3>1
    <3> QED BY <2>1, <3>2
  <2> QED BY <2>4, <2>5
<1>11. FlattenSeq(Batch) = x \o y
  <2>1. Batch = buffersToWrite
    BY <1>a, <1>b, FullBatch DEF Batch
  <2> QED BY <1>3, <1>4, <2>1, FlattenConcat
<1>12. written' = written \o <<Notice>>
  <2>1. <<Notice>> \in Seq(Entries)
    BY LinesAssumption DEF Notice, Entries
  <2>2. PICK now \in Times, rollNow \in Times :
           output' = File!AppendUnlocked(output, <<Notice>>, now, rollNow)
    BY <1>1
  <2> QED BY <1>a, <2>1, <2>2, AppendUnlockedKeeps DEF written
<1>13. FlattenSeq(Batch') = x
  <2>1. Batch' = SubSeq(kept, 0 + 1, Len(kept))
    BY <1>b, <1>1 DEF Batch
  <2> QED BY <1>3, <2>1, FullBatch
<1>14. InFlight' = (written \o <<Notice>>) \o x \o q \o currentBuffer
  <2>1. InFlight' = written' \o FlattenSeq(Batch') \o FlattenSeq(buffers') \o currentBuffer'
    BY DEF InFlight, Batch
  <2> QED BY <1>b, <1>12, <1>13, <2>1
<1> HIDE DEF x, y, q, lost, kept, gone
<1>15. <<Notice>> \in Seq(Entries)
  BY LinesAssumption DEF Notice, Entries
<1>16. InFlight = written \o x \o y \o z
  <2>1. written \o (x \o y) \o q \o currentBuffer
          = written \o x \o y \o (q \o currentBuffer)
    <3>1. /\ written \in Seq(Entries) /\ x \in Seq(Entries) /\ y \in Seq(Entries)
          /\ q \in Seq(Entries) /\ currentBuffer \in Seq(Entries)
      BY <1>5, <1>8
    <3>2. written \o (x \o y) = written \o x \o y
      BY <3>1, Regroup, SMTT(60)
    <3>3. written \o x \in Seq(Entries)
      BY <3>1, Regroup
    <3> DEFINE wxy == written \o x \o y
    <3>4. wxy \in Seq(Entries)
      BY <3>1, <3>3, Regroup
    <3> HIDE DEF wxy
    <3>5. wxy \o q \o currentBuffer = wxy \o (q \o currentBuffer)
      BY <3>1, <3>4, Regroup
    <3> QED BY <3>2, <3>5, Zenon DEF wxy
  <2> QED BY <1>5, <1>11, <2>1
<1>17. InFlight' = written \o <<Notice>> \o x \o z
  <2>1. (written \o <<Notice>>) \o x \o q \o currentBuffer
          = written \o <<Notice>> \o x \o (q \o currentBuffer)
    <3>1. /\ written \in Seq(Entries) /\ <<Notice>> \in Seq(Entries)
          /\ x \in Seq(Entries) /\ q \in Seq(Entries) /\ currentBuffer \in Seq(Entries)
      BY <1>5, <1>8, <1>15
    <3>3. written \o <<Notice>> \in Seq(Entries)
      BY <3>1, Regroup
    <3> DEFINE wnx == written \o <<Notice>> \o x
    <3>4. wnx \in Seq(Entries)
      BY <3>1, <3>3, Regroup
    <3> HIDE DEF wnx
    <3>5. wnx \o q \o currentBuffer = wnx \o (q \o currentBuffer)
      BY <3>1, <3>4, Regroup
    <3> QED BY <3>5, Zenon DEF wnx
  <2> QED BY <1>14, <2>1
<1> HIDE DEF z
<1>18. x = buffersToWrite[1] \o buffersToWrite[2]
  <2>1. /\ buffersToWrite[1] \in Seq(Lines) /\ buffersToWrite[2] \in Seq(Lines)
        /\ kept = <<buffersToWrite[1], buffersToWrite[2]>>
    <3>1. 1 \in 1..Len(buffersToWrite) /\ 2 \in 1..Len(buffersToWrite)
      BY <1>a, <1>2
    <3>2. kept = [i \in 1..2 |-> buffersToWrite[i]]
      BY <1>a, <1>2 DEF kept
    <3>3. kept = <<buffersToWrite[1], buffersToWrite[2]>>
      BY <3>2
    <3> QED BY <1>a, <3>1, <3>3
  <2> DEFINE p == buffersToWrite[1]
             q2 == buffersToWrite[2]
             one == <<p>>
  <2>2. one \in Seq(Seq(Lines)) /\ kept = Append(one, q2) /\ q2 \in Seq(Lines) /\ p \in Seq(Lines)
    BY <2>1
  <2> HIDE DEF p, q2
  <2>3. FlattenSeq(one) = p
    BY <2>2, FlattenOne
  <2> HIDE DEF one
  <2>4. FlattenSeq(kept) = FlattenSeq(one) \o q2
    BY <2>2, FlattenAppend
  <2> QED BY <2>3, <2>4 DEF x, p, q2
<1>19. DropMoves(x, y, z)
  BY <1>1, <1>9, <1>10, <1>16, <1>17, <1>18 DEF DropMoves, z, q
<1> QED BY <1>8, <1>19

(* The others stay in order. *)
LEMMA DropKeepsOrder ==
    ASSUME LoggingInv, Drop
    PROVE  LinesInOrder' /\ (dropped \subseteq 1..appended)'
<1>0. TypeOK /\ FileInv(output) /\ RoundInv /\ LinesInOrder /\ dropped \subseteq 1..appended
  BY DEF LoggingInv, OutputInv
<1>1. done = 0 /\ UNCHANGED <<done, currentBuffer, buffers, appended>>
  BY <1>0 DEF Drop, Step, sharedBuffers, RoundInv
<1>2. CASE ~(Len(buffersToWrite) > DropAbove)
  <2>1. UNCHANGED <<output, buffersToWrite, dropped>>
    BY <1>2 DEF Drop
  <2>2. InFlight' = InFlight
    BY <1>1, <2>1, IdleKeepsFlight DEF written
  <2> QED BY <1>1, <2>1, <2>2, SameFlight
<1>3. CASE Len(buffersToWrite) > DropAbove
  <2>1. PICK x \in Seq(Entries), y \in Seq(Entries), z \in Seq(Entries) : DropMoves(x, y, z)
    BY <1>3, DropFlight
  <2>2. Notice \notin Range(y) /\ dropped' = dropped \union Range(y)
    BY <2>1 DEF DropMoves
  <2>3. InFlight = written \o x \o y \o z /\ InFlight' = written \o <<Notice>> \o x \o z
    BY <2>1, Zenon DEF DropMoves
  <2>5. written \in Seq(Entries) /\ InFlight \in Seq(Entries)
    BY <1>0, Flight
  <2>18. Ascending(InFlight) /\ Range(InFlight) \ {Notice} = (1..appended) \ dropped
    BY <1>0 DEF LinesInOrder
  <2>19. /\ Ascending(InFlight')
         /\ Range(InFlight') \ {Notice} = Range(InFlight) \ (Range(y) \union {Notice})
    <3>1. Ascending(written \o x \o y \o z)
      BY <2>3, <2>18
    <3>2. /\ Ascending(written \o <<Notice>> \o x \o z)
          /\ Range(written \o <<Notice>> \o x \o z) \ {Notice}
               = Range(written \o x \o y \o z) \ (Range(y) \union {Notice})
      <4>1. /\ written \in Seq(Entries) /\ x \in Seq(Entries)
            /\ y \in Seq(Entries) /\ z \in Seq(Entries)
        BY <2>5
      <4> QED BY <2>2, <3>1, <4>1, AscendingDrop
    <3> DEFINE old == written \o x \o y \o z
               new == written \o <<Notice>> \o x \o z
    <3>3. InFlight = old /\ InFlight' = new /\ Ascending(new)
          /\ Range(new) \ {Notice} = Range(old) \ (Range(y) \union {Notice})
      BY <2>3, <3>2, Zenon
    <3> HIDE DEF old, new
    <3> QED BY <3>3
  <2>20. Range(InFlight') \ {Notice} = (1..appended') \ dropped'
    BY <1>1, <2>2, <2>18, <2>19
  <2>21. LinesInOrder'
    BY <2>19, <2>20 DEF LinesInOrder, Ascending
  <2>22. Range(y) \subseteq 1..appended
    <3>1. InFlight \in Seq(Entries)
      BY <2>5
    <3>2. written \o x \in Seq(Entries) /\ written \o x \o y \in Seq(Entries)
      BY <2>5
    <3>3. \A s, t \in Seq(Entries) : Range(s) \subseteq Range(s \o t) /\ Range(t) \subseteq Range(s \o t)
      BY RangeOfConcat
    <3>4. Range(y) \subseteq Range((written \o x) \o y)
      BY <3>2, <3>3
    <3>5. Range((written \o x) \o y) \subseteq Range(InFlight)
      BY <2>3, <3>2, <3>3
    <3> QED BY <2>2, <2>18, <3>4, <3>5
  <2> QED BY <1>0, <1>1, <2>2, <2>21, <2>22
<1> QED BY <1>2, <1>3

(* Every step keeps the invariant. *)
LEMMA LoggingStep == LoggingInv /\ [Next]_vars => LoggingInv'
<1> SUFFICES ASSUME LoggingInv, [Next]_vars PROVE LoggingInv'
  OBVIOUS
<1>1. CASE AppendToCurrent
  BY <1>1, CurrentStep, AppendKeepsOrder DEF LoggingInv
<1>2. CASE AppendToNext
  BY <1>2, NextStep, AppendKeepsOrder DEF LoggingInv
<1>3. CASE Start \/ Stop \/ UNCHANGED vars
  <2>1. InFlight' = InFlight
    BY <1>3, OtherStep, IdleKeepsFlight DEF written
  <2> QED BY <1>3, <2>1, OtherStep, SameFlight DEF LoggingInv
<1>4. CASE Begin \/ Check \/ Wait \/ Written
  <2>1. InFlight' = InFlight
    BY <1>4, IdleStep, IdleKeepsFlight
  <2> QED BY <1>4, <2>1, IdleStep, SameFlight DEF LoggingInv
<1>5. CASE Swap
  BY <1>5, SwapStep, SwapKeepsFlight, SameFlight DEF LoggingInv
<1>6. CASE Drop
  BY <1>6, DropStep, DropKeepsOrder DEF LoggingInv
<1>7. CASE Write
  BY <1>7, WriteStep, WriteKeepsFlight, SameFlight DEF LoggingInv
<1>8. CASE Recycle
  BY <1>8, RecycleStep, RecycleKeepsFlight, SameFlight DEF LoggingInv
<1> QED BY <1>1, <1>2, <1>3, <1>4, <1>5, <1>6, <1>7, <1>8 DEF Next, ThreadFunc

(* The invariant holds at first. *)
LEMMA LoggingInit == Init => LoggingInv
<1> SUFFICES ASSUME Init PROVE LoggingInv
  OBVIOUS
<1>1. 1 \in 1..MaxClock /\ 0 \in 0..MaxLines /\ 1 \in Times
  BY LinesAssumption DEF Times
<1>2. <<>> \in Buffers /\ <<>> \in Seq(Buffers) /\ 0 \in 0..Len(<<>>)
  BY DEF Buffers
<1>3. TypeOK
  BY <1>1, <1>2 DEF Init, TypeOK
<1>4. RoundInv
  BY DEF Init, RoundInv
<1>5. SpareInv
  BY <1>3, Basics DEF Init, SpareInv, SpareUnlessFull
<1>6. OutputInv
  BY <1>1, NewKeeps DEF Init, OutputInv, written
<1>7. InFlight = <<>>
  <2>1. written = <<>> /\ buffers = <<>> /\ currentBuffer = <<>>
    BY <1>1, NewKeeps DEF Init, written
  <2>2. Batch = <<>>
    BY DEF Init, Batch
  <2>3. InFlight = written \o FlattenSeq(Batch) \o FlattenSeq(buffers) \o currentBuffer
    BY DEF InFlight, Batch
  <2> QED BY <2>1, <2>2, <2>3, FlattenEmpty
<1>8. LinesInOrder /\ dropped \subseteq 1..appended
  <2>1. Ascending(<<>>)
    BY DEF Ascending
  <2>2. Range(<<>>) = {}
    BY DEF Range
  <2>3. dropped = {} /\ appended = 0
    BY DEF Init
  <2> QED BY <1>7, <2>1, <2>2, <2>3 DEF LinesInOrder
<1> QED BY <1>3, <1>4, <1>5, <1>6, <1>8 DEF LoggingInv

-----------------------------------------------------------------------------
(* The invariant is kept by every step of the front end and the back end. *)
THEOREM Invariance == Spec => []LoggingInv
BY LoggingInit, LoggingStep, PTL DEF Spec

(* For any log statements, capacities, thresholds and file sizes: no line   *)
(* is lost, written twice or overtaken between append and the files, but    *)
(* those dropped with their buffers (AsyncLogging.cc:38-65, 96-151).        *)
THEOREM LinesKeepOrder == Spec => []LinesInOrder
<1>1. LoggingInv => LinesInOrder
  BY DEF LoggingInv
<1> QED BY <1>1, Invariance, PTL

(* The assertions of threadFunc: it has buffers to give and, when it writes *)
(* fewer than it gave, has kept one (AsyncLogging.cc:84-86, 138, 147).      *)
THEOREM BuffersAreEnough == Spec => []BuffersInv
<1>1. LoggingInv => BuffersInv
  <2> SUFFICES ASSUME LoggingInv PROVE BuffersSuffice
    BY DEF LoggingInv, BuffersInv, SpareInv
  <2>0. RoundInv /\ NoBuffer # <<>> /\ Len(buffersToWrite) \in Nat
    BY Basics DEF LoggingInv
  <2> DEFINE given == {i \in 1..2 : <<newBuffer1, newBuffer2>>[i] = NoBuffer}
  <2>1. ASSUME pc = "recycle" PROVE Len(buffersToWrite) >= Cardinality(given)
    <3>1. CASE newBuffer2 = NoBuffer
      <4>1. given = {1, 2}
        BY <2>0, <2>1, <3>1 DEF RoundInv
      <4>2. Cardinality({1, 2}) = 2
        <5>1. IsFiniteSet({1}) /\ Cardinality({1}) = 1
          BY FS_Singleton
        <5>2. Cardinality({1} \union {2}) = Cardinality({1}) + 1
          BY <5>1, FS_AddElement
        <5>3. {1, 2} = {1} \union {2}
          OBVIOUS
        <5> QED BY <5>1, <5>2, <5>3
      <4>3. Len(buffersToWrite) >= 2
        BY <2>0, <2>1, <3>1 DEF RoundInv
      <4> QED BY <4>1, <4>2, <4>3
    <3>2. CASE newBuffer2 # NoBuffer
      <4>1. given = {1}
        BY <2>0, <2>1, <3>2 DEF RoundInv
      <4>2. Cardinality({1}) = 1
        BY FS_Singleton
      <4>3. Len(buffersToWrite) >= 1
        BY <2>0, <2>1 DEF RoundInv
      <4> QED BY <4>1, <4>2, <4>3
    <3> QED BY <3>1, <3>2
  <2> QED BY <2>0, <2>1 DEF RoundInv, BuffersSuffice
<1> QED BY <1>1, Invariance, PTL

(* Whatever local times repeat and however the clock is set between any two *)
(* reads: a file is opened in a later second than the one before, and under *)
(* each name is, in order, all that was written to the files of the name,   *)
(* but for what stdio holds of the open one (LogFile.cc:24-84, 137-216).    *)
THEOREM FilesAreRolled == Spec => []FilesInv
<1>1. LoggingInv => FilesInv
  <2> SUFFICES ASSUME LoggingInv PROVE FilesInv
    OBVIOUS
  <2>0. FileInv(output)
    BY DEF LoggingInv, OutputInv
  <2> DEFINE files == File!Files(output)
             n == Len(output.closed)
  <2>1. n \in Nat /\ Len(files) = n + 1 /\ DOMAIN files = 1..n + 1
        /\ files[n + 1] = output.file /\ \A i \in 1..n : files[i] = output.closed[i]
    <3>1. output.closed \in Seq(AFile) /\ output.file \in AFile
      BY <2>0 DEF FileInv, ALogFile
    <3> QED BY <3>1 DEF File!Files
  <2> HIDE DEF files
  <2>2. ASSUME NEW i \in 1..Len(files) - 1
        PROVE  files[i].opened < files[i + 1].opened
    <3>1. CASE i = n
      <4>1. output.closed # <<>>
        BY <2>1, <2>2, <3>1
      <4> QED BY <2>0, <2>1, <2>2, <3>1, <4>1 DEF FileInv
    <3>2. CASE i \in 1..n - 1
      <4>1. output.closed[i].opened < output.closed[i + 1].opened
        BY <2>0, <3>2 DEF FileInv
      <4>2. i \in 1..n /\ i + 1 \in 1..n
        BY <2>1, <3>2
      <4> QED BY <2>1, <4>1, <4>2
    <3> QED BY <2>1, <2>2, <3>1, <3>2
  <2>3. DOMAIN output.disk = {files[i].name : i \in DOMAIN files}
    <3>1. DOMAIN output.disk = {output.closed[i].name : i \in 1..n} \union {output.file.name}
      BY <2>0 DEF FileInv, NamesInv
    <3>2. \A i \in 1..n + 1 : i \in 1..n \/ i = n + 1
      BY <2>1
    <3>3. (\A i \in 1..n : i \in 1..n + 1) /\ n + 1 \in 1..n + 1
      BY <2>1
    <3> HIDE DEF n
    <3> QED BY <2>1, <3>1, <3>2, <3>3
  <2>4. ASSUME NEW m \in DOMAIN output.disk
        PROVE  output.disk[m] \o File!Buffered(output, m) = File!WrittenUnder(output, m)
    <3>1. output \in ALogFile
      BY <2>0 DEF FileInv
    <3> QED BY <2>0, <3>1, NameContents DEF FileInv, DiskInv
  <2> QED BY <2>2, <2>3, <2>4 DEF FilesInv, files
<1> QED BY <1>1, Invariance, PTL

-----------------------------------------------------------------------------
(* The invariant of sizes and drops.                                        *)

(* What the front end has is newer than any line dropped. *)
Newer(lost) == \A n \in lost, m \in Range(FlattenSeq(buffers) \o currentBuffer) : n < m

DropsInv ==
    /\ BuffersFit
    /\ Newer(dropped)
    /\ Told(InFlight, dropped)

(* A buffer is given a line only if it has room for it, and an empty one    *)
(* has room for any.                                                        *)
LEMMA AppendFits ==
    ASSUME LoggingInv, BuffersFit, AppendToCurrent \/ AppendToNext
    PROVE  BuffersFit'
<1> DEFINE e == appended + 1
<1>0. TypeOK /\ currentBuffer \in Seq(Lines) /\ buffers \in Seq(Seq(Lines))
      /\ Lines \subseteq Entries
  BY Basics DEF LoggingInv
<1>1. e \in Lines /\ e \in Entries
  <2>1. appended \in Nat /\ MaxLines \in Nat /\ appended < MaxLines
    BY <1>0, Basics DEF AppendToCurrent, AppendToNext
  <2> QED BY <1>0, <2>1 DEF Lines
<1>2. currentBuffer \in Seq(Entries)
  BY <1>0, SeqMonotone
<1>3. /\ Bytes(Append(currentBuffer, e)) = Bytes(currentBuffer) + Size[e]
      /\ Bytes(currentBuffer) \in Nat /\ Size[e] \in Nat
  BY <1>1, <1>2, BytesAppend
<1>4. Capacity \in Nat /\ SmallBuffer \in Nat /\ SmallBuffer <= Capacity
  BY CapacityAssumption, StatementsAssumption
<1>5. CASE AppendToCurrent
  <2>1. /\ Capacity - Bytes(currentBuffer) > Size[e]
        /\ currentBuffer' = Append(currentBuffer, e)
        /\ buffers' = buffers /\ buffersToWrite' = buffersToWrite
    BY <1>5 DEF AppendToCurrent, back
  <2> HIDE DEF e
  <2>2. Bytes(currentBuffer') < Capacity
    BY <1>3, <1>4, <2>1
  <2> QED BY <2>1, <2>2 DEF BuffersFit
<1>6. CASE AppendToNext
  <2>1. currentBuffer' = <<e>>
    BY <1>6, NextStep
  <2>2. buffers' = Append(buffers, currentBuffer) /\ buffersToWrite' = buffersToWrite
    BY <1>6 DEF AppendToNext, back
  <2> HIDE DEF e
  <2>3. Bytes(<<e>>) < Capacity
    <3>1. <<>> \in Seq(Entries) /\ <<e>> = Append(<<>>, e)
      OBVIOUS
    <3>2. Bytes(Append(<<>>, e)) = Bytes(<<>>) + Size[e]
      BY <1>1, <3>1, BytesAppend
    <3>3. Size[e] < SmallBuffer
      BY <1>1, SizeIs
    <3>4. Bytes(<<e>>) = Size[e]
      BY <1>3, <3>1, <3>2, BytesEmpty
    <3> QED BY <1>3, <1>4, <3>3, <3>4
  <2>4. Range(buffers') = Range(buffers) \union {currentBuffer}
    BY <1>0, <2>2, RangeOfAppend
  <2> QED BY <2>1, <2>2, <2>3, <2>4 DEF BuffersFit
<1> QED BY <1>5, <1>6

(* The back end only passes buffers on, or empties them. *)
LEMMA BackEndFits ==
    ASSUME LoggingInv, BuffersFit, Swap \/ Drop \/ Recycle
    PROVE  BuffersFit'
<1>0. /\ TypeOK /\ currentBuffer \in Seq(Lines) /\ buffers \in Seq(Seq(Lines))
      /\ buffersToWrite \in Seq(Seq(Lines)) /\ Len(buffersToWrite) \in Nat
  BY Basics DEF LoggingInv
<1>1. Bytes(<<>>) < Capacity
  BY BytesEmpty, CapacityAssumption, StatementsAssumption
<1>2. Range(<<>>) = {}
  BY DEF Range
<1>3. CASE Swap
  <2>1. /\ buffersToWrite' = Append(buffers, currentBuffer)
        /\ buffers' = <<>> /\ currentBuffer' = <<>>
    BY <1>3, SwapStep
  <2>2. Range(buffersToWrite') = Range(buffers) \union {currentBuffer}
    BY <1>0, <2>1, RangeOfAppend
  <2> QED BY <1>1, <1>2, <2>1, <2>2 DEF BuffersFit
<1>4. CASE Drop
  <2>1. buffers' = buffers /\ currentBuffer' = currentBuffer
    BY <1>4 DEF Drop, sharedBuffers
  <2>2. buffersToWrite' = buffersToWrite
        \/ (Len(buffersToWrite) > DropAbove /\ buffersToWrite' = SubSeq(buffersToWrite, 1, 2))
    BY <1>4 DEF Drop
  <2>3. Range(buffersToWrite') \subseteq Range(buffersToWrite)
    <3>1. CASE buffersToWrite' = buffersToWrite
      BY <3>1
    <3>2. CASE Len(buffersToWrite) > DropAbove /\ buffersToWrite' = SubSeq(buffersToWrite, 1, 2)
      <4>1. Len(buffersToWrite) > 2
        BY <1>0, <3>2, DropAssumption
      <4>2. DOMAIN SubSeq(buffersToWrite, 1, 2) = 1..2
            /\ \A i \in 1..2 : SubSeq(buffersToWrite, 1, 2)[i] = buffersToWrite[i]
            /\ DOMAIN buffersToWrite = 1..Len(buffersToWrite)
        BY <1>0, <4>1
      <4>3. 1..2 \subseteq DOMAIN buffersToWrite
        BY <1>0, <4>1, <4>2
      <4> QED BY <3>2, <4>2, <4>3 DEF Range
    <3> QED BY <2>2, <3>1, <3>2
  <2> QED BY <2>1, <2>3 DEF BuffersFit
<1>5. CASE Recycle
  <2>1. buffersToWrite' = <<>> /\ buffers' = buffers /\ currentBuffer' = currentBuffer
    BY <1>5, RecycleStep
  <2> QED BY <1>2, <2>1 DEF BuffersFit
<1> QED BY <1>3, <1>4, <1>5

(* A new line is newer than any. *)
LEMMA AppendTells ==
    ASSUME LoggingInv, DropsInv, AppendToCurrent \/ AppendToNext
    PROVE  Newer(dropped)' /\ Told(InFlight', dropped')
<1> DEFINE e == appended + 1
           q == FlattenSeq(buffers)
           z == q \o currentBuffer
<1>0. /\ TypeOK /\ FileInv(output) /\ dropped \subseteq 1..appended /\ appended \in Nat
      /\ Newer(dropped) /\ Told(InFlight, dropped)
  BY Basics DEF LoggingInv, OutputInv, DropsInv
<1>1. /\ dropped' = dropped /\ e \in Entries
      /\ InFlight \in Seq(Entries) /\ InFlight' = Append(InFlight, e)
  BY AppendFlight
<1>2. q \in Seq(Entries) /\ currentBuffer \in Seq(Entries) /\ z \in Seq(Entries)
      /\ buffers \in Seq(Seq(Entries))
  <2>1. q \in Seq(Entries) /\ currentBuffer \in Seq(Entries) /\ buffers \in Seq(Seq(Entries))
    BY <1>0, Flight
  <2> HIDE DEF q
  <2>2. q \o currentBuffer \in Seq(Entries)
    BY <2>1
  <2> QED BY <2>1, <2>2
<1>3. \A n \in dropped : n < e /\ ~(e < n)
  BY <1>0
<1> HIDE DEF e
<1>4. Told(InFlight', dropped')
  <2>1. Told(Append(InFlight, e), dropped)
    <3>1. \A n \in dropped : ~(e < n)
      BY <1>3
    <3> QED BY <1>0, <1>1, <3>1, ToldAppend
  <2> QED BY <1>1, <2>1
<1>5. FlattenSeq(buffers') \o currentBuffer' = z \o <<e>>
  <2>1. CASE AppendToCurrent
    <3>1. currentBuffer' = Append(currentBuffer, e) /\ buffers' = buffers
      BY <2>1 DEF AppendToCurrent, e
    <3> HIDE DEF q
    <3>2. \A a, b \in Seq(Entries) : a \o Append(b, e) = (a \o b) \o <<e>>
      BY <1>1
    <3>3. FlattenSeq(buffers') \o currentBuffer' = q \o Append(currentBuffer, e)
      BY <3>1 DEF q
    <3> QED BY <1>2, <3>2, <3>3
  <2>2. CASE AppendToNext
    <3>1. currentBuffer' = <<e>> /\ buffers' = Append(buffers, currentBuffer)
      BY <2>2, NextStep DEF AppendToNext, e
    <3>2. FlattenSeq(buffers') = z
      BY <1>2, <3>1, FlattenAppend
    <3> QED BY <3>1, <3>2
  <2> QED BY <2>1, <2>2
<1> HIDE DEF z
<1>6. Range(z \o <<e>>) = Range(z) \union {e}
  <2>1. <<e>> \in Seq(Entries)
    BY <1>1
  <2>2. Range(<<e>>) = {e}
    BY DEF Range
  <2>3. Range(z \o <<e>>) = Range(z) \union Range(<<e>>)
    BY <1>2, <2>1, RangeOfConcat
  <2> QED BY <2>2, <2>3
<1>7. \A n \in dropped, m \in Range(z) : n < m
  BY <1>0 DEF Newer, z, q
<1>8. Newer(dropped)'
  <2>1. \A n \in dropped', m \in Range(FlattenSeq(buffers') \o currentBuffer') : n < m
    BY <1>1, <1>3, <1>5, <1>6, <1>7
  <2> QED BY <2>1 DEF Newer
<1> QED BY <1>4, <1>8

(* The lines dropped are older than the front end's; the notice goes before *)
(* the buffers that are kept, which are smaller than Capacity each.         *)
LEMMA DropTells ==
    ASSUME LoggingInv, DropsInv, Drop
    PROVE  Newer(dropped)' /\ Told(InFlight', dropped')
<1>0. /\ TypeOK /\ FileInv(output) /\ RoundInv /\ LinesInOrder
      /\ dropped \subseteq 1..appended /\ appended \in Nat
      /\ Newer(dropped) /\ Told(InFlight, dropped) /\ BuffersFit
      /\ buffersToWrite \in Seq(Seq(Lines)) /\ Len(buffersToWrite) \in Nat
      /\ Lines \subseteq Entries
  BY Basics DEF LoggingInv, OutputInv, DropsInv
<1>1. UNCHANGED <<done, currentBuffer, buffers, appended>>
  BY <1>0 DEF Drop, Step, sharedBuffers
<1>2. CASE ~(Len(buffersToWrite) > DropAbove)
  <2>1. UNCHANGED <<output, buffersToWrite, dropped>>
    BY <1>2 DEF Drop
  <2>2. InFlight' = InFlight
    BY <1>1, <2>1, IdleKeepsFlight DEF written
  <2>3. Newer(dropped)'
    BY <1>0, <1>1, <2>1 DEF Newer
  <2> QED BY <1>0, <2>1, <2>2, <2>3
<1>3. CASE Len(buffersToWrite) > DropAbove
  <2>1. PICK x \in Seq(Entries), y \in Seq(Entries), z \in Seq(Entries) : DropMoves(x, y, z)
    BY <1>3, DropFlight
  <2> DEFINE p == buffersToWrite[1]
             r == buffersToWrite[2]
             old == written \o x \o y \o z
             w == written
  <2>2. /\ x = p \o r /\ z = FlattenSeq(buffers) \o currentBuffer
        /\ Notice \notin Range(y) /\ dropped' = dropped \union Range(y)
    BY <2>1, Zenon DEF DropMoves
  <2>3. InFlight = old /\ InFlight' = written \o <<Notice>> \o x \o z
    BY <2>1, Zenon DEF DropMoves
  <2>4. written \in Seq(Entries) /\ currentBuffer \in Seq(Entries)
        /\ buffers \in Seq(Seq(Entries))
    BY <1>0, Flight
  <2>5. Bytes(x) < 2 * Capacity
    <3>1. 1 \in DOMAIN buffersToWrite /\ 2 \in DOMAIN buffersToWrite
      BY <1>0, <1>3, DropAssumption
    <3>2. p \in Range(buffersToWrite) /\ r \in Range(buffersToWrite)
      BY <3>1 DEF Range
    <3>3. Bytes(p) < Capacity /\ Bytes(r) < Capacity
      BY <1>0, <3>2 DEF BuffersFit
    <3>4. p \in Seq(Lines) /\ r \in Seq(Lines)
      BY <1>0, <3>1
    <3>5. p \in Seq(Entries) /\ r \in Seq(Entries)
      BY <1>0, <3>4, SeqMonotone
    <3> HIDE DEF p, r
    <3>6. Bytes(p \o r) = Bytes(p) + Bytes(r) /\ Bytes(p) \in Nat /\ Bytes(r) \in Nat
      BY <3>5, BytesConcat
    <3>7. Bytes(x) = Bytes(p) + Bytes(r)
      BY <2>2, <3>6
    <3> QED BY <3>3, <3>6, <3>7, CapacityAssumption
  <2>6. Ascending(old) /\ Told(old, dropped)
    <3>1. Ascending(InFlight)
      BY <1>0 DEF LinesInOrder
    <3> HIDE DEF old
    <3> QED BY <1>0, <2>3, <3>1
  <2>7. Notice \notin Range(z)
    <3>1. currentBuffer \in Seq(Lines) /\ buffers \in Seq(Seq(Lines))
      BY <1>0, Basics
    <3>2. FlattenSeq(buffers) \in Seq(Lines)
      BY <3>1, FlattenType
    <3>3. z \in Seq(Lines)
      BY <2>2, <3>1, <3>2
    <3>4. Notice \notin Lines
      BY DEF Notice, Lines
    <3> QED BY <3>3, <3>4 DEF Range
  <2>8. \A n \in Range(y), m \in Range(z) : n < m
    <3> DEFINE W == Len(written)
               X == Len(x)
               Y == Len(y)
               Z == Len(z)
    <3>1. /\ W \in Nat /\ X \in Nat /\ Y \in Nat /\ Z \in Nat
          /\ DOMAIN y = 1..Y /\ DOMAIN z = 1..Z
      BY <2>4
    <3>2. /\ DOMAIN old = 1..W + X + Y + Z
          /\ \A i \in 1..Y : old[W + X + i] = y[i]
          /\ \A i \in 1..Z : old[W + X + Y + i] = z[i]
      BY <2>4
    <3> HIDE DEF W, X, Y, Z, old
    <3> SUFFICES ASSUME NEW i \in 1..Y, NEW j \in 1..Z PROVE y[i] < z[j]
      BY <3>1 DEF Range
    <3>3. /\ W + X + i \in DOMAIN old /\ W + X + Y + j \in DOMAIN old
          /\ W + X + i < W + X + Y + j
      BY <3>1, <3>2
    <3>4. y[i] # Notice /\ z[j] # Notice
      BY <2>2, <2>7, <3>1 DEF Range
    <3>5. old[W + X + i] = y[i] /\ old[W + X + Y + j] = z[j]
      BY <3>2
    <3> QED BY <2>6, <3>3, <3>4, <3>5 DEF Ascending
  <2>9. \A n \in dropped, m \in Range(z) : n < m
    BY <1>0, <2>2 DEF Newer
  <2>10. \A n \in dropped \union Range(y), m \in Range(z) : n < m
    BY <2>8, <2>9
  <2>11. Told(written \o <<Notice>> \o x \o z, dropped \union Range(y))
    <3>1. dropped \in SUBSET Nat
      BY <1>0
    <3>2. Ascending(written \o x \o y \o z) /\ Told(written \o x \o y \o z, dropped)
      BY <2>6
    <3> QED BY <2>2, <2>4, <2>5, <2>10, <3>1, <3>2, ToldDrop
  <2>12. Told(InFlight', dropped')
    <3> DEFINE new == written \o <<Notice>> \o x \o z
    <3>1. InFlight' = new /\ Told(new, dropped \union Range(y))
      BY <2>3, <2>11, Zenon
    <3> HIDE DEF new
    <3> QED BY <2>2, <3>1
  <2>13. Newer(dropped)'
    <3>1. \A n \in dropped', m \in Range(FlattenSeq(buffers') \o currentBuffer') : n < m
      BY <1>1, <2>2, <2>10
    <3> QED BY <3>1 DEF Newer
  <2> QED BY <2>12, <2>13
<1> QED BY <1>2, <1>3

(* What only moves lines tells as much. *)
LEMMA SameTells ==
    ASSUME DropsInv, InFlight' = InFlight, dropped' = dropped,
           Range(FlattenSeq(buffers') \o currentBuffer')
              \subseteq Range(FlattenSeq(buffers) \o currentBuffer)
    PROVE  Newer(dropped)' /\ Told(InFlight', dropped')
<1>1. Told(InFlight', dropped')
  BY DEF DropsInv
<1>2. \A n \in dropped', m \in Range(FlattenSeq(buffers') \o currentBuffer') : n < m
  BY DEF DropsInv, Newer
<1> QED BY <1>1, <1>2 DEF Newer

(* Every step keeps it. *)
LEMMA DropsStep == LoggingInv /\ DropsInv /\ [Next]_vars => DropsInv'
<1> SUFFICES ASSUME LoggingInv, DropsInv, [Next]_vars PROVE DropsInv'
  OBVIOUS
<1>0. BuffersFit
  BY DEF DropsInv
<1>1. ASSUME BuffersFit', Newer(dropped)', Told(InFlight', dropped') PROVE DropsInv'
  <2>1. Told(InFlight, dropped)'
    BY <1>1 DEF Told, LastBefore, ToldAt
  <2> QED BY <1>1, <2>1 DEF DropsInv
<1>2. CASE AppendToCurrent \/ AppendToNext
  BY <1>0, <1>1, <1>2, AppendFits, AppendTells
<1>3. CASE Drop
  BY <1>0, <1>1, <1>3, BackEndFits, DropTells
<1>4. CASE Swap
  <2>1. InFlight' = InFlight /\ dropped' = dropped /\ buffers' = <<>> /\ currentBuffer' = <<>>
    BY <1>4, SwapStep, SwapKeepsFlight
  <2>2. FlattenSeq(buffers') \o currentBuffer' = <<>>
    BY <2>1, FlattenEmpty
  <2>3. Range(<<>>) = {}
    BY DEF Range
  <2>4. Newer(dropped)' /\ Told(InFlight', dropped')
    BY <2>1, <2>2, <2>3, SameTells
  <2> QED BY <1>0, <1>1, <1>4, <2>4, BackEndFits
<1>5. CASE Recycle
  <2>1. InFlight' = InFlight /\ UNCHANGED <<dropped, buffers, currentBuffer>>
    BY <1>5, RecycleStep, RecycleKeepsFlight
  <2>2. Newer(dropped)' /\ Told(InFlight', dropped')
    BY <2>1, SameTells
  <2> QED BY <1>0, <1>1, <1>5, <2>2, BackEndFits
<1>6. CASE \/ Start \/ Stop \/ UNCHANGED vars
           \/ Begin \/ Check \/ Wait \/ Written \/ Write
  <2>1. InFlight' = InFlight
        /\ UNCHANGED <<dropped, buffers, currentBuffer, buffersToWrite>>
    <3>1. CASE Start \/ Stop \/ UNCHANGED vars
      BY <3>1, OtherStep, IdleKeepsFlight DEF written
    <3>2. CASE Begin \/ Check \/ Wait \/ Written
      BY <3>2, IdleStep, IdleKeepsFlight
    <3>3. CASE Write
      BY <3>3, WriteStep, WriteKeepsFlight
    <3> QED BY <1>6, <3>1, <3>2, <3>3
  <2>2. Newer(dropped)' /\ Told(InFlight', dropped')
    BY <2>1, SameTells
  <2>3. BuffersFit'
    BY <1>0, <2>1 DEF BuffersFit
  <2> QED BY <1>1, <2>2, <2>3
<1> QED BY <1>2, <1>3, <1>4, <1>5, <1>6 DEF Next, ThreadFunc

(* At first nothing is dropped. *)
LEMMA DropsInit == Init => DropsInv
<1> SUFFICES ASSUME Init PROVE DropsInv
  OBVIOUS
<1>1. currentBuffer = <<>> /\ buffers = <<>> /\ buffersToWrite = <<>> /\ dropped = {}
  BY DEF Init
<1>2. Bytes(<<>>) < Capacity
  BY BytesEmpty, CapacityAssumption, StatementsAssumption
<1>3. Range(<<>>) = {}
  BY DEF Range
<1>4. BuffersFit
  BY <1>1, <1>2, <1>3 DEF BuffersFit
<1> QED BY <1>1, <1>4 DEF DropsInv, Newer, Told

(* Both invariants hold. *)
LEMMA DropsInvariance == Spec => [](LoggingInv /\ DropsInv)
<1>1. Init => LoggingInv /\ DropsInv
  BY LoggingInit, DropsInit
<1>2. LoggingInv /\ DropsInv /\ [Next]_vars => (LoggingInv /\ DropsInv)'
  BY LoggingStep, DropsStep
<1> QED BY <1>1, <1>2, PTL DEF Spec

(* For any log statements, any capacity and any number of buffers kept: a   *)
(* gap the drop of buffers leaves in the files has its notice before it, at *)
(* most two buffers before (AsyncLogging.cc:110-121).                       *)
THEOREM DropsAreAnnounced == Spec => []DropsAnnounced
<1>1. LoggingInv /\ DropsInv => DropsAnnounced
  <2> SUFFICES ASSUME LoggingInv, DropsInv PROVE DropsAnnounced
    OBVIOUS
  <2>0. /\ TypeOK /\ FileInv(output) /\ LinesInOrder
        /\ dropped \subseteq 1..appended /\ appended \in Nat /\ Told(InFlight, dropped)
    BY Basics DEF LoggingInv, OutputInv, DropsInv
  <2> DEFINE b == FlattenSeq(Batch)
             q == FlattenSeq(buffers)
             rest == b \o q \o currentBuffer
  <2>1. /\ written \in Seq(Entries) /\ b \in Seq(Entries) /\ q \in Seq(Entries)
        /\ currentBuffer \in Seq(Entries) /\ InFlight = written \o b \o q \o currentBuffer
    BY <2>0, Flight
  <2> HIDE DEF b, q
  <2>2. rest \in Seq(Entries) /\ InFlight = written \o rest
    <3> DEFINE bq == b \o q
    <3> DEFINE w == written
    <3>5. w \in Seq(Entries) /\ b \in Seq(Entries) /\ q \in Seq(Entries)
      BY <2>1
    <3> HIDE DEF w
    <3>6. b \o q \in Seq(Entries)
      BY <3>5
    <3>7. (w \o b) \o q = w \o (b \o q)
      BY <3>5
    <3>1. bq \in Seq(Entries) /\ written \o b \o q = written \o bq
      BY <3>6, <3>7 DEF w
    <3>2. InFlight = (written \o bq) \o currentBuffer /\ rest = bq \o currentBuffer
      BY <2>1, <3>1
    <3> HIDE DEF bq
    <3>3. rest \in Seq(Entries)
      BY <2>1, <3>1, <3>2
    <3>8. written \in Seq(Entries) /\ currentBuffer \in Seq(Entries) /\ bq \in Seq(Entries)
      BY <2>1, <3>1
    <3>4. (written \o bq) \o currentBuffer = written \o (bq \o currentBuffer)
      BY <3>8, Regroup, Zenon
    <3> QED BY <3>2, <3>3, <3>4
  <2> HIDE DEF rest
  <2>3. Ascending(written \o rest) /\ Told(written \o rest, dropped)
    <3>1. Ascending(InFlight)
      BY <2>0 DEF LinesInOrder
    <3> QED BY <2>0, <2>2, <3>1
  <2>4. dropped \in SUBSET Nat
    BY <2>0
  <2>5. GapsAnnounced(written, dropped)
    BY <2>1, <2>2, <2>3, <2>4, ToldFront
  <2> QED BY <2>5 DEF DropsAnnounced
<1> QED BY <1>1, DropsInvariance, PTL

(* For any numbers and texts, any log statements and sizes of buffers: what *)
(* is inserted can be read back, a record is cut by whole items and only    *)
(* when its buffer is nearly full, and no buffer of AsyncLogging is overrun *)
(* (LogStream.cc:37-85, 132, LogStream.h:41-49, AsyncLogging.cc:42-62).     *)
THEOREM RecordsAreWhole == Spec => []RecordsInv
<1>1. LoggingInv /\ DropsInv => RecordsInv
  <2> SUFFICES ASSUME LoggingInv, DropsInv PROVE RecordsInv
    OBVIOUS
  <2>1. 1..appended \subseteq Lines
    BY LinesAssumption DEF LoggingInv, TypeOK, Lines
  <2> QED BY <2>1, AllWellCut, NumbersAreReadBack DEF RecordsInv, DropsInv
<1> QED BY <1>1, DropsInvariance, PTL

=============================================================================
