---------------------------- MODULE ReadFromProofs --------------------------
(* Theorems about ReadFrom, for all limits, any source and any reads.          *)
EXTENDS ReadFrom, SequenceTheorems, TLAPS

\* The sizes that the code compares with the limits, in each place of the code.
\* In RAM size is all that was kept.  In a file it is what came after the move
\* there, and before the move there was either nothing, or all there will be
\* unless the Read paused.
Sized ==
  /\ pc = "start" => kind = "Ram" /\ taken = 0 /\ Len(ram) = 0 /\ Len(buf) = 0 /\ Len(disk) = 0 /\ size = 0
  /\ pc \in {"fill", "flush"} =>
       /\ kind = "Ram" /\ size = Len(ram) /\ size <= MaxBodyRam
       /\ taken = Len(ram) + Len(buf)
  /\ pc = "flush" => paused \/ taken = total
  /\ pc = "fs" =>
       /\ kind = "FsWrite" /\ taken = Len(disk)
       /\ size <= Len(disk) /\ size <= MaxBody /\ Len(disk) <= size + MaxBody
       /\ paused \/ Len(disk) = size \/ (taken = total /\ Len(disk) <= MaxBody)
  /\ pc = "done" =>
       /\ kind = "Ram" => Len(ram) <= MaxBodyRam
       /\ Len(Sink) <= MaxBody + (IF paused THEN MaxBody ELSE 0)
  /\ pc = "too_long" => taken > MaxBody

\* The invariant: types, nothing lost, and the sizes.
IInv == TypeOK /\ NothingLost /\ Sized

\* The first n cells of the Read.
UpTo(n) == [j \in 1 .. n |-> j]

\* What read() returns is a piece of the Read, of the length asked for.
LEMMA TakeSeq ==
  ASSUME TypeOK, NEW k \in Reads
  PROVE  /\ k \in Nat \ {0} /\ taken \in Nat /\ taken + k \in 0 .. total
         /\ Take(k) \in Seq(1 .. total) /\ Len(Take(k)) = k
         /\ \A j \in 1 .. k : Take(k)[j] = taken + j
<1>1. /\ k \in Nat \ {0} /\ taken \in Nat /\ total \in Nat /\ taken + k <= total
  BY ReadFromAssumption DEF Reads, TypeOK
<1>2. Take(k) \in [1 .. k -> 1 .. total]
  BY <1>1 DEF Take
<1>3. Len(Take(k)) = k
  BY <1>1, <1>2 DEF Take
<1> QED  BY <1>1, <1>2, <1>3, SeqDef DEF Take

\* The first n cells and the next k are the first n + k.
LEMMA Extends ==
  ASSUME NEW S, NEW n \in Nat, NEW k \in Nat, NEW s \in Seq(S), NEW t \in Seq(S),
         s = UpTo(n), Len(t) = k, \A j \in 1 .. k : t[j] = n + j
  PROVE  s \o t = UpTo(n + k)
<1>1. Len(s) = n /\ \A j \in 1 .. n : s[j] = j
  BY DEF UpTo
<1>2. /\ s \o t \in Seq(S) /\ Len(s \o t) = n + k
      /\ \A j \in 1 .. n + k : (s \o t)[j] = IF j <= n THEN s[j] ELSE t[j - n]
  <2>1. /\ s \o t \in Seq(S) /\ Len(s \o t) = Len(s) + Len(t)
        /\ \A j \in 1 .. Len(s) + Len(t) :
             (s \o t)[j] = IF j <= Len(s) THEN s[j] ELSE t[j - Len(s)]
    BY ConcatProperties, Zenon
  <2> QED  BY <2>1, <1>1
<1>3. \A j \in 1 .. n + k : (s \o t)[j] = j
  <2> TAKE j \in 1 .. n + k
  <2>1. CASE j <= n
    BY <2>1, <1>1, <1>2
  <2>2. CASE ~ (j <= n)
    <3>1. j - n \in 1 .. k /\ n + (j - n) = j
      BY <2>2
    <3>2. t[j - n] = n + (j - n)
      BY <3>1
    <3> QED  BY <2>2, <1>2, <3>1, <3>2
  <2> QED  BY <2>1, <2>2
<1>4. s \o t \in [1 .. n + k -> S]
  BY <1>2, LenProperties, Zenon
<1> QED  BY <1>3, <1>4 DEF UpTo

LEMMA InitInv == Init => IInv
<1> SUFFICES ASSUME Init PROVE IInv
  OBVIOUS
<1>1. TypeOK
  <2>1. << >> \in Seq(1 .. total) /\ total \in Nat
    BY ReadFromAssumption DEF Init
  <2>2. total \in 0 .. MaxSource /\ taken \in 0 .. total /\ size \in Nat
    BY <2>1 DEF Init
  <2>3. buf \in Seq(1 .. total) /\ ram \in Seq(1 .. total) /\ disk \in Seq(1 .. total)
    BY <2>1, Zenon DEF Init
  <2> QED  BY <2>2, <2>3, Zenon DEF Init, TypeOK
<1>2. NothingLost
  <2>1. << >> \o << >> = << >> /\ << >> = [j \in 1 .. 0 |-> j]
    OBVIOUS
  <2> QED  BY <2>1 DEF Init, NothingLost, Sink
<1>3. Sized
  BY ReadFromAssumption DEF Init, Sized
<1> QED  BY <1>1, <1>2, <1>3 DEF IInv

-----------------------------------------------------------------------------
(* The steps.  Those that move no cell are Start, FillEof, FlushEof,         *)
(* FlushTooLong, FsEof and IoFails.                                         *)

LEMMA StartInv == IInv /\ Start => IInv'
<1> SUFFICES ASSUME IInv, Start PROVE IInv'
  OBVIOUS
<1>1. Len(ram) = 0 /\ Len(buf) = 0 /\ Len(disk) = 0 /\ taken = 0
  BY DEF IInv, Sized, Start
<1>2. ram = << >> /\ buf = << >> /\ disk = << >>
  BY <1>1, EmptySeq DEF IInv, TypeOK
<1>3. TypeOK'
  BY <1>2 DEF IInv, TypeOK, Start
<1>4. NothingLost'
  BY <1>2 DEF IInv, NothingLost, Sink, Start
<1>5. Sized'
  BY <1>1, ReadFromAssumption DEF IInv, Sized, Start
<1> QED  BY <1>3, <1>4, <1>5 DEF IInv

\* A piece is appended to the buffer.
LEMMA FillReadInv == IInv /\ FillRead => IInv'
<1> SUFFICES ASSUME IInv, FillRead PROVE IInv'
  OBVIOUS
<1> USE DEF IInv
<1>1. PICK k \in Reads : buf' = buf \o Take(k) /\ taken' = taken + k
  BY DEF FillRead
<1>2. /\ k \in Nat \ {0} /\ taken \in Nat /\ taken + k \in 0 .. total
      /\ Take(k) \in Seq(1 .. total) /\ Len(Take(k)) = k
      /\ \A j \in 1 .. k : Take(k)[j] = taken + j
  BY TakeSeq
<1>3. kind = "Ram" /\ pc' \in {"fill", "flush"} /\ size = Len(ram) /\ size <= MaxBodyRam
      /\ taken = Len(ram) + Len(buf)
  BY DEF Sized, FillRead
<1>4. /\ ram \in Seq(1 .. total) /\ buf \in Seq(1 .. total)
      /\ Len(ram) \in Nat /\ Len(buf) \in Nat
  BY LenProperties DEF TypeOK
<1>5. buf' \in Seq(1 .. total) /\ Len(buf') = Len(buf) + k
  <2>1. /\ buf \o Take(k) \in Seq(1 .. total)
        /\ Len(buf \o Take(k)) = Len(buf) + Len(Take(k))
    BY <1>2, <1>4, ConcatProperties, Zenon
  <2> QED  BY <1>1, <1>2, <2>1
<1>6. TypeOK'
  BY <1>1, <1>2, <1>3, <1>5 DEF TypeOK, FillRead
<1>7. NothingLost'
  <2>1. ram \o buf = UpTo(taken)
    BY <1>3 DEF NothingLost, Sink, UpTo, FillRead
  <2>2. ram \o buf \in Seq(1 .. total)
    BY <1>4, ConcatProperties, Zenon
  <2>3. (ram \o buf) \o Take(k) = UpTo(taken + k)
    BY <1>2, <2>1, <2>2, Extends, ZenonT(60)
  <2>4. ram \o (buf \o Take(k)) = (ram \o buf) \o Take(k)
    <3>1. ram \in Seq(1 .. total) /\ buf \in Seq(1 .. total) /\ Take(k) \in Seq(1 .. total)
      BY <1>2, <1>4
    <3> QED  BY ONLY <3>1, ConcatAssociative
  <2>5. Sink' = ram
    BY <1>3 DEF Sink, FillRead
  <2> QED  BY <1>1, <2>3, <2>4, <2>5 DEF NothingLost, UpTo
<1>8. pc' = "fill"
  \* A buffer never fills up: UsizeMax is far away.
  <2>1. RemainingMut(buf') >= Spare
    <3>1. total \in 0 .. MaxSource
      BY DEF TypeOK
    <3> QED  BY <1>2, <1>3, <1>4, <1>5, <3>1, ReadFromAssumption DEF RemainingMut
  <2>2. RemainingMut(buf') \in Int
    BY <1>4, <1>5, <1>2, ReadFromAssumption DEF RemainingMut
  <2> QED  BY <2>1, <2>2, ReadFromAssumption DEF FillRead
<1>9. Sized'
  BY <1>1, <1>2, <1>3, <1>4, <1>5, <1>8 DEF Sized, FillRead
<1> QED  BY <1>6, <1>7, <1>9

\* The lengths of what is kept are numbers.
LEMMA Lengths ==
  ASSUME TypeOK
  PROVE  /\ ram \in Seq(1 .. total) /\ buf \in Seq(1 .. total) /\ disk \in Seq(1 .. total)
         /\ Len(ram) \in Nat /\ Len(buf) \in Nat /\ Len(disk) \in Nat
         /\ taken \in Nat /\ total \in Nat /\ taken <= total /\ size \in Nat
BY LenProperties, ReadFromAssumption DEF TypeOK

\* Steps that change neither the cells nor the count.
LEMMA QuietInv ==
  ASSUME IInv, FillEof \/ FlushEof \/ FlushTooLong \/ FsEof \/ IoFails
  PROVE  IInv'
<1> USE DEF IInv
<1>1. /\ UNCHANGED <<total, taken, buf, ram, disk, kind, size>>
      /\ pc # "too_long"
      /\ pc' \in {"flush", "done", "too_long", "io_err"}
      /\ paused' \in BOOLEAN
  BY DEF FillEof, FlushEof, FlushTooLong, FsEof, IoFails, TypeOK
<1>2. TypeOK'
  BY <1>1 DEF TypeOK
<1>3. NothingLost'
  BY <1>1 DEF NothingLost, Sink
<1>4. Sized'
  <2>0. UNCHANGED <<taken, buf, ram, disk, kind, size, total>>
    BY <1>1
  <2>a. MaxBodyRam \in Nat /\ MaxBody \in Nat /\ MaxBodyRam <= MaxBody
    BY ReadFromAssumption
  <2>1. CASE FillEof
    <3>1. pc' = "flush" /\ paused' = (paused \/ taken < total) /\ pc = "fill"
      BY <2>1 DEF FillEof
    <3>2. paused' \/ taken = total
      <4>1. taken < total \/ taken = total
        BY Lengths
      <4> QED  BY <3>1, <4>1, Zenon
    <3> QED  BY <2>0, <3>1, <3>2 DEF Sized
  <2>2. CASE FlushEof
    <3>1. Len(Sink) <= MaxBodyRam /\ kind = "Ram" /\ pc' = "done" /\ paused' = paused
      BY <2>2, Lengths DEF FlushEof, Sized, Sink
    <3>2. Len(Sink) <= MaxBody + (IF paused THEN MaxBody ELSE 0) /\ Sink = ram
      BY <2>a, <3>1, Lengths DEF Sink
    <3> QED  BY <2>0, <3>1, <3>2 DEF Sized, Sink
  <2>3. CASE FlushTooLong
    <3>1. taken = Len(ram) + Len(buf) /\ size = Len(ram) /\ size + Len(buf) > MaxBody
          /\ pc' = "too_long"
      BY <2>3 DEF FlushTooLong, Sized, TooLong, SizeWithBuf
    <3> QED  BY <2>0, <3>1, Lengths DEF Sized
  <2>4. CASE FsEof
    <3>1. /\ kind = "FsWrite" /\ pc' = "done" /\ paused' = paused
          /\ size <= MaxBody /\ Len(disk) <= size + MaxBody
          /\ paused \/ Len(disk) = size \/ Len(disk) <= MaxBody
      BY <2>4 DEF FsEof, Sized
    <3>2. Len(disk) <= MaxBody + (IF paused THEN MaxBody ELSE 0)
      BY <2>a, <3>1, Lengths
    <3> QED  BY <2>0, <3>1, <3>2 DEF Sized, Sink
  <2>5. CASE IoFails
    BY <2>5 DEF IoFails, Sized
  <2> QED  BY <2>1, <2>2, <2>3, <2>4, <2>5
<1> QED  BY <1>2, <1>3, <1>4

\* The buffer joins the sink, in RAM or in the file after what is written back.
LEMMA FlushInv ==
  ASSUME IInv, FlushToFs \/ FlushToRam
  PROVE  IInv'
<1> USE DEF IInv
<1>1. /\ pc = "flush" /\ kind = "Ram" /\ size = Len(ram) /\ taken = Len(ram) + Len(buf)
      /\ paused \/ taken = total
      /\ ~ (size + Len(buf) > MaxBody)
      /\ UNCHANGED <<total, taken, paused>> /\ buf' = << >>
  BY DEF FlushToFs, FlushToRam, Sized, TooLong, SizeWithBuf
<1>2. ram \o buf \in Seq(1 .. total) /\ Len(ram \o buf) = taken
  <2>1. /\ ram \o buf \in Seq(1 .. total) /\ Len(ram \o buf) = Len(ram) + Len(buf)
    BY Lengths, ConcatProperties, Zenon
  <2> QED  BY <1>1, <2>1
<1>3. ram \o buf = UpTo(taken)
  BY <1>1 DEF NothingLost, Sink, UpTo
<1>4. << >> \in Seq(1 .. total) /\ Len(<< >>) = 0 /\ (ram \o buf) \o << >> = ram \o buf
  BY <1>2, EmptySeq, ConcatEmptySeq
<1>5. MaxBodyRam \in Nat /\ MaxBody \in Nat /\ MaxBodyRam <= MaxBody
  BY ReadFromAssumption
<1>6. CASE FlushToFs
  <2>1. /\ kind' = "FsWrite" /\ disk' = ram \o buf /\ ram' = << >> /\ size' = 0 /\ pc' = "fs"
    BY <1>6 DEF FlushToFs, WrittenBack
  <2>2. TypeOK'
    BY <1>1, <1>2, <1>4, <2>1 DEF TypeOK
  <2>3. NothingLost'
    <3>1. (Sink \o buf)' = ram \o buf
      BY <1>1, <1>4, <2>1 DEF Sink
    <3> QED  BY <1>1, <1>3, <3>1 DEF NothingLost, UpTo
  <2>4. Sized'
    BY <1>1, <1>2, <1>5, <2>1, Lengths DEF Sized
  <2> QED  BY <2>2, <2>3, <2>4
<1>7. CASE FlushToRam
  <2>1. /\ kind' = kind /\ disk' = disk /\ ram' = ram \o buf /\ size' = size + Len(buf)
        /\ pc' = "fill" /\ size + Len(buf) <= MaxBodyRam
    BY <1>7 DEF FlushToRam, FitsRam, SizeWithBuf
  <2>2. TypeOK'
    <3>1. size' \in Nat
      BY <2>1, Lengths
    <3> QED  BY <1>1, <1>2, <1>4, <2>1, <3>1 DEF TypeOK
  <2>3. NothingLost'
    <3>1. (Sink \o buf)' = ram \o buf
      BY <1>1, <1>4, <2>1 DEF Sink
    <3> QED  BY <1>1, <1>3, <3>1 DEF NothingLost, UpTo
  <2>4. Sized'
    BY <1>1, <1>2, <1>4, <1>5, <2>1, Lengths DEF Sized
  <2> QED  BY <2>2, <2>3, <2>4
<1> QED  BY <1>6, <1>7

\* A piece is appended to the file, or is too much.
LEMMA FsCopyInv == IInv /\ FsCopy => IInv'
<1> SUFFICES ASSUME IInv, FsCopy PROVE IInv'
  OBVIOUS
<1> USE DEF IInv
<1>1. PICK k \in Reads :
        /\ taken' = taken + k /\ size' = size + k
        /\ IF TooLong(size + k) THEN pc' = "too_long" /\ disk' = disk
                                ELSE disk' = disk \o Take(k) /\ pc' = pc
  BY DEF FsCopy
<1>2. /\ k \in Nat \ {0} /\ taken \in Nat /\ taken + k \in 0 .. total
      /\ Take(k) \in Seq(1 .. total) /\ Len(Take(k)) = k
      /\ \A j \in 1 .. k : Take(k)[j] = taken + j
  BY TakeSeq
<1>3. /\ pc = "fs" /\ UNCHANGED <<total, buf, ram, kind, paused>>
      /\ kind = "FsWrite" /\ buf = << >> /\ taken = Len(disk)
      /\ size <= Len(disk) /\ size <= MaxBody /\ Len(disk) <= size + MaxBody
      /\ paused \/ Len(disk) = size \/ (taken = total /\ Len(disk) <= MaxBody)
  BY DEF FsCopy, Sized, TypeOK
<1>4. MaxBody \in Nat
  BY ReadFromAssumption
<1>5. CASE TooLong(size + k)
  <2>1. pc' = "too_long" /\ disk' = disk /\ size + k > MaxBody
    BY <1>1, <1>5 DEF TooLong
  <2>2. TypeOK'
    BY <1>1, <1>2, <1>3, <2>1, Lengths DEF TypeOK
  <2>3. Sized'
    BY <1>1, <1>2, <1>3, <1>4, <2>1, Lengths DEF Sized
  <2> QED  BY <2>1, <2>2, <2>3 DEF NothingLost
<1>6. CASE ~ TooLong(size + k)
  <2>1. pc' = "fs" /\ disk' = disk \o Take(k) /\ ~ (size + k > MaxBody)
    BY <1>1, <1>3, <1>6 DEF TooLong
  <2>2. disk \o Take(k) \in Seq(1 .. total) /\ Len(disk \o Take(k)) = Len(disk) + k
    <3>1. /\ disk \o Take(k) \in Seq(1 .. total)
          /\ Len(disk \o Take(k)) = Len(disk) + Len(Take(k))
      BY <1>2, Lengths, ConcatProperties, Zenon
    <3> QED  BY <1>2, <3>1
  <2>3. TypeOK'
    <3>1. size' \in Nat /\ taken' \in 0 .. total
      BY <1>1, <1>2, Lengths
    <3> QED  BY <1>3, <2>1, <2>2, <3>1 DEF TypeOK
  <2>4. NothingLost'
    <3>1. disk \o << >> = disk /\ (disk \o Take(k)) \o << >> = disk \o Take(k)
      BY <2>2, Lengths, ConcatEmptySeq
    <3>2. disk = UpTo(taken)
      BY <1>3, <3>1 DEF NothingLost, Sink, UpTo
    <3>3. disk \o Take(k) = UpTo(taken + k)
      <4>1. disk \in Seq(1 .. total) /\ k \in Nat
        BY <1>2, Lengths
      <4>2. /\ taken \in Nat /\ Take(k) \in Seq(1 .. total) /\ Len(Take(k)) = k
            /\ \A j \in 1 .. k : Take(k)[j] = taken + j
        BY <1>2
      <4> HIDE DEF IInv
      <4> QED  BY <3>2, <4>1, <4>2, Extends, ZenonT(30)
    <3>4. (Sink \o buf)' = disk \o Take(k)
      BY <1>3, <2>1, <3>1 DEF Sink
    <3> QED  BY <1>1, <3>3, <3>4 DEF NothingLost, UpTo
  <2>5. Sized'
    <3>1. /\ size' = size + k /\ taken' = Len(disk') /\ Len(disk') = Len(disk) + k
          /\ k \in Nat \ {0} /\ ~ (size + k > MaxBody)
      BY <1>1, <1>2, <1>3, <2>1, <2>2
    <3>2. size' <= Len(disk') /\ size' <= MaxBody /\ Len(disk') <= size' + MaxBody
      BY <1>3, <1>4, <3>1, Lengths
    <3>3. taken # total
      BY <1>2, Lengths
    <3>4. paused' \/ Len(disk') = size'
      <4>1. paused \/ Len(disk) = size
        BY <1>3, <3>3, Zenon
      <4> QED  BY <1>3, <3>1, <4>1
    <3> QED  BY <1>3, <2>1, <3>1, <3>2, <3>4 DEF Sized
  <2> QED  BY <2>3, <2>4, <2>5
<1> QED  BY <1>5, <1>6

LEMMA NextInv == IInv /\ [Next]_vars => IInv'
<1> SUFFICES ASSUME IInv, [Next]_vars PROVE IInv'
  OBVIOUS
<1>1. CASE Start
  BY <1>1, StartInv
<1>2. CASE FillRead
  BY <1>2, FillReadInv
<1>3. CASE FillEof \/ FlushEof \/ FlushTooLong \/ FsEof \/ IoFails
  BY <1>3, QuietInv
<1>4. CASE FlushToFs \/ FlushToRam
  BY <1>4, FlushInv
<1>5. CASE FsCopy
  BY <1>5, FsCopyInv
<1>6. CASE UNCHANGED vars
  BY <1>6 DEF vars, IInv, TypeOK, NothingLost, Sized, Sink
<1> QED  BY <1>1, <1>2, <1>3, <1>4, <1>5, <1>6 DEF Next

-----------------------------------------------------------------------------

LEMMA Invariant == Spec => []IInv
<1>1. Init => IInv
  BY InitInv
<1>2. IInv /\ [Next]_vars => IInv'
  BY NextInv
<1> QED  BY <1>1, <1>2, PTL DEF Spec

\* Every variable has its type in every reachable state of read_from, and nothing is
\* left in RAM once the body is a file.
THEOREM TypeCorrect == Spec => []TypeOK
<1>1. IInv => TypeOK
  BY DEF IInv
<1> QED  BY <1>1, Invariant, PTL

\* read_from keeps what it reads once and in order on every path from RAM to a file,
\* whatever the limits, the body and the sizes of its reads.
THEOREM KeepsAllRead == Spec => []NothingLost
<1>1. IInv => NothingLost
  BY DEF IInv
<1> QED  BY <1>1, Invariant, PTL

\* The limits hold for what read_from returns, and it refuses nothing that they allow,
\* for every order of the limits that Tuner lets pass.
THEOREM KeepsLimits == Spec => []LimitsHold
<1>1. IInv => LimitsHold
  BY DEF IInv, Sized, LimitsHold
<1> QED  BY <1>1, Invariant, PTL

=============================================================================
