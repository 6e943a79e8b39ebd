--------------------------- MODULE BarcFileProofs ---------------------------
(* Theorems about BarcFile, for any number of threads, readers, writes and    *)
(* payload cells.                                                            *)
EXTENDS BarcFile, SequenceTheorems, TLAPS

-----------------------------------------------------------------------------
(* The inductive invariant of the writers. *)

\* Whoever holds a BarcWriter owns the lock.
LockInv ==
  \A t \in Threads : wpc[t] \in {"held", "payload", "sealed"} => owner = t

\* While a record is being written the file ends with its reserved head and the
\* payload cells written so far; once sealed, its head is committed.
WriteInv ==
  \A t \in Threads :
    /\ wpc[t] = "payload" =>
         /\ Len(file) = cur.start + 1 + cur.k
         /\ file[cur.start + 1] = ReserveHead(cur.id)
         /\ \A j \in 1 .. cur.k : file[cur.start + 1 + j] = Data(cur.id, j)
    /\ wpc[t] = "sealed" =>
         /\ cur.start + 1 + cur.n = Len(file)
         /\ file[cur.start + 1] = DialogHead(cur.id, cur.n, cur.z)
         /\ \A j \in 1 .. cur.n : file[cur.start + 1 + j] = Data(cur.id, j)

WInv == TypeOK /\ LockInv /\ WriteInv /\ ReturnedOffsetsGood

\* What any step may do to the file.
FileStep ==
  /\ Len(file') >= Len(file)
  /\ \A i \in 1 .. Len(file) :
       file'[i] = file[i] \/ (/\ file[i].kind = "head" /\ file[i].type = "R"
                              /\ file'[i].kind = "head" /\ file'[i].id = file[i].id)

-----------------------------------------------------------------------------
(* Lemmas *)

\* Writing at the end of the file is appending.
LEMMA WriteAtEnd ==
  ASSUME file \in Seq(Cell), NEW c \in Cell
  PROVE  WriteAt(SeekEnd, c) = Append(file, c)
<1> DEFINE f == [i \in 1 .. Len(file) + 1 |-> IF i = Len(file) + 1 THEN c ELSE file[i]]
<1>1. WriteAt(SeekEnd, c) = f
  <2>1. Len(file) + 1 > Len(file)
    OBVIOUS
  <2> QED  BY <2>1 DEF WriteAt, SeekEnd
<1>2. /\ Len(file) + 1 \in Nat
      /\ \A i \in 1 .. Len(file) + 1 : f[i] \in Cell
  OBVIOUS
<1>3. f \in [1 .. Len(file) + 1 -> Cell]
  BY <1>2
<1>4. f \in Seq(Cell) /\ Len(f) = Len(file) + 1
  BY <1>2, <1>3, SeqDef
<1>5. Append(file, c) \in Seq(Cell) /\ Len(Append(file, c)) = Len(file) + 1
  OBVIOUS
<1>6. \A i \in 1 .. Len(f) : f[i] = Append(file, c)[i]
  BY <1>4
<1>7. f = Append(file, c)
  BY <1>4, <1>5, <1>6, SeqEqual
<1> QED  BY <1>1, <1>7

\* The cells that writers produce are cells.
LEMMA CellTypes ==
  ASSUME NEW w \in Nat, NEW n \in Nat, NEW z \in BOOLEAN
  PROVE  /\ ReserveHead(w) \in Cell
         /\ DialogHead(w, n, z) \in Cell
         /\ Data(w, n) \in Cell
         /\ Torn(w) \in Cell
         /\ Slice \in Cell
BY DEF Cell, ReserveHead, DialogHead, Data, Torn, Slice

\* What a record at a returned offset is made of does not change.
LEMMA ReturnedStable ==
  ASSUME TypeOK, ReturnedOffsetsGood, FileStep, file' \in Seq(Cell),
         returned' = returned
  PROVE  ReturnedOffsetsGood'
<1> SUFFICES ASSUME NEW w \in returned
             PROVE  /\ CommittedAt(w.start)'
                    /\ file'[w.start + 1].id = w.id
                    /\ file'[w.start + 1].n = w.n
                    /\ w.start + 1 + w.n <= Len(file')
                    /\ \A i \in 1 .. w.n : file'[w.start + 1 + i] = Data(w.id, i)
  BY DEF ReturnedOffsetsGood
<1> DEFINE s == w.start  n == w.n
<1>1. /\ s \in Nat /\ Len(file) \in Nat /\ Len(file') \in Nat
      /\ s + 1 \in 1 .. Len(file) /\ n \in Nat
      /\ file[s + 1].kind = "head" /\ file[s + 1].type = "D"
      /\ file[s + 1].id = w.id /\ file[s + 1].n = n
      /\ s + 1 + n <= Len(file)
      /\ \A i \in 1 .. n : file[s + 1 + i] = Data(w.id, i)
  <2>1. /\ s \in Nat /\ Len(file) \in Nat /\ Len(file') \in Nat
        /\ returned \subseteq [id : Nat, start : Nat, n : Nat]
    BY DEF TypeOK
  <2>2. /\ CommittedAt(s)
        /\ file[s + 1].id = w.id /\ file[s + 1].n = n
        /\ s + 1 + n <= Len(file)
        /\ \A i \in 1 .. n : file[s + 1 + i] = Data(w.id, i)
    BY DEF ReturnedOffsetsGood
  <2>3. /\ s + 1 \in 1 .. Len(file)
        /\ file[s + 1].kind = "head" /\ file[s + 1].type = "D"
    BY <2>1, <2>2 DEF CommittedAt
  <2>5. n \in Nat
    BY <2>1
  <2> QED  BY <2>1, <2>2, <2>3, <2>5
<1>2. file'[s + 1] = file[s + 1]
  BY <1>1 DEF FileStep
<1>3. ASSUME NEW i \in 1 .. n
      PROVE  file'[s + 1 + i] = Data(w.id, i)
  <2>1. s + 1 + i \in 1 .. Len(file) /\ file[s + 1 + i] = Data(w.id, i)
    BY <1>1
  <2> QED  BY <2>1 DEF FileStep, Data
<1> QED  BY <1>1, <1>2, <1>3 DEF FileStep, CommittedAt

-----------------------------------------------------------------------------
(* The writers' invariant is inductive. *)

LEMMA WInvInit == Init => WInv
<1> SUFFICES ASSUME Init PROVE WInv
  OBVIOUS
<1>1. TypeOK
  <2>1. ReserveHead(0) \in Cell
    BY CellTypes
  <2>2. file \in Seq(Cell)
    BY BarcAssumption DEF Init
  <2>3. /\ got \in [Readers -> Seq(Cell)]
        /\ out \in [Readers -> Seq([start : Nat, head : Cell, got : Seq(Cell)])]
        /\ rhead \in [Readers -> Cell]
    BY <2>1 DEF Init
  <2>4. cur \in [id : Nat, start : Nat, n : Nat, k : Nat, z : BOOLEAN]
    BY DEF Init, NoWrite
  <2>5. exists \in BOOLEAN
    BY DEF Init
  <2> QED  BY <2>2, <2>3, <2>4, <2>5 DEF Init, TypeOK
<1> QED  BY <1>1 DEF Init, WInv, LockInv, WriteInv, ReturnedOffsetsGood

\* The steps of the readers leave the file and the writers alone.
LEMMA ReaderTypes ==
  ASSUME TypeOK, ReaderNext
  PROVE  TypeOK' /\ UNCHANGED <<fileVars, writerVars>>
<1> PICK r \in Readers : OpenReader(r) \/ ReadNone(r) \/ ReadStep(r) \/ Seek(r)
  BY DEF ReaderNext
<1> USE DEF TypeOK, fileVars, writerVars
<1>a. Advance(r) \in [Readers -> Nat \cup {Lost}]
  <2>1. pos \in [Readers -> Nat \cup {Lost}]
    OBVIOUS
  <2> HIDE DEF TypeOK
  <2>2. \A p \in Nat \cup {Lost} : p + 1 \in Nat
    BY DEF Lost
  <2>3. pos[r] \in Nat \cup {Lost} /\ pos[r] + 1 \in Nat
    BY <2>1, <2>2
  <2> QED  BY <2>1, <2>3 DEF Advance
<1>1. CASE OpenReader(r)
  BY <1>1 DEF OpenReader
<1>2. CASE ReadNone(r)
  BY <1>2 DEF ReadNone, vars, readerVars
<1>3. CASE ReadReserved(r)
  BY <1>3 DEF ReadReserved, AtHead, SeekBack
<1>4. CASE ReadHead(r)
  <2>1. file[pos[r] + 1] \in Cell /\ pos[r] + 1 \in Nat /\ pos[r] \in Nat
    BY <1>4 DEF ReadHead, AtHead
  <2>2. /\ rhead' \in [Readers -> Cell]
        /\ got' \in [Readers -> Seq(Cell)]
    BY <1>4, <2>1 DEF ReadHead
  <2>3. /\ pos' \in [Readers -> Nat \cup {Lost}]
        /\ rstart' \in [Readers -> Nat]
    BY <1>4, <2>1 DEF ReadHead
  <2> QED  BY <1>4, <2>2, <2>3 DEF ReadHead
<1>5. CASE ReadBadHead(r)
  <2>1. pos' \in [Readers -> Nat \cup {Lost}]
    <3>1. Len(file) \in Nat /\ Lost \in Nat \cup {Lost}
      OBVIOUS
    <3>2. ASSUME pos[r] \in 0 .. Len(file) - 1, NEW p \in AfterBadHead(pos[r])
          PROVE  p \in Nat \cup {Lost}
      <4>1. \A m \in {pos[r] + 1, pos[r] + 2} : m .. Len(file) \subseteq Nat
        BY ONLY <3>1, <3>2
      <4> QED  BY ONLY <3>1, <3>2, <4>1 DEF AfterBadHead
    <3> QED  BY <1>5, <3>2 DEF ReadBadHead
  <2>2. clean' \in [Readers -> BOOLEAN]
    BY <1>5 DEF ReadBadHead
  <2>3. pos[r] \in Nat /\ rstart' \in {rstart, [rstart EXCEPT ![r] = pos[r]]}
    BY <1>5 DEF ReadBadHead
  <2>4. rstart' \in [Readers -> Nat]
    BY <2>3
  <2> QED  BY <1>5, <2>1, <2>2, <2>4 DEF ReadBadHead
<1>6. CASE ReadLost(r)
  <2>1. PICK p \in {Lost} \cup (rstart[r] + 1 .. Len(file)) :
          pos' = [pos EXCEPT ![r] = p]
    BY <1>6 DEF ReadLost
  <2>2. rstart[r] \in Nat /\ Len(file) \in Nat
    OBVIOUS
  <2>3. p \in Nat \cup {Lost}
    BY <2>2
  <2> QED  BY <1>6, <2>1, <2>3 DEF ReadLost
<1>7. CASE ReadCell(r)
  <2>1. Cursor(r) \in Nat /\ Cursor(r) + 1 \in 1 .. Len(file)
    <3>1. PICK s \in Nat, g \in Nat, l \in Nat :
               s = rstart[r] /\ g = Len(got[r]) /\ l = Len(file)
      OBVIOUS
    <3>2. Cursor(r) = s + 1 + g /\ Cursor(r) < l
      BY <1>7, <3>1 DEF ReadCell, Cursor
    <3>3. s + 1 + g \in Nat /\ (s + 1 + g < l => s + 1 + g + 1 \in 1 .. l)
      OBVIOUS
    <3> QED  BY ONLY <3>1, <3>2, <3>3
  <2>2. file[Cursor(r) + 1] \in Cell
    BY <2>1
  <2>3. got' \in [Readers -> Seq(Cell)]
    BY <1>7, <2>2 DEF ReadCell
  <2> QED  BY <1>7, <2>3, <1>a DEF ReadCell
<1>8. CASE SliceCell(r)
  <2>1. Slice \in Cell
    BY DEF Slice, Cell
  <2>2. got' \in [Readers -> Seq(Cell)]
    BY <1>8, <2>1 DEF SliceCell
  <2> QED  BY <1>8, <2>2, <1>a DEF SliceCell
<1>9. CASE ReadEof(r)
  BY <1>9 DEF ReadEof
<1>10. CASE ReadDone(r)
  <2> DEFINE rec == [start |-> rstart[r], head |-> rhead[r], got |-> got[r]]
             Rec == [start : Nat, head : Cell, got : Seq(Cell)]
  <2>1. rec \in Rec
    OBVIOUS
  <2> HIDE DEF rec, Rec
  <2>2. Append(out[r], rec) \in Seq(Rec)
    <3>1. out[r] \in Seq(Rec)
      BY DEF Rec
    <3> QED  BY <2>1, <3>1
  <2>3. out' \in [Readers -> Seq(Rec)]
    BY <1>10, <2>2 DEF ReadDone, rec, Rec
  <2>4. rstart[r] + 1 + rhead[r].n \in Nat
    BY DEF Cell
  <2>5. pos' \in [Readers -> Nat \cup {Lost}]
    BY <1>10, <2>4 DEF ReadDone
  <2> QED  BY <1>10, <2>3, <2>5 DEF ReadDone, Rec
<1>11. CASE Seek(r)
  <2> PICK p \in {0} \cup {w.start : w \in returned} :
             /\ pos' = [pos EXCEPT ![r] = p]
             /\ from' = [from EXCEPT ![r] = p]
    BY <1>11 DEF Seek
  <2>1. p \in Nat
    OBVIOUS
  <2>2. /\ pos' \in [Readers -> Nat \cup {Lost}]
        /\ from' \in [Readers -> Nat]
    BY <2>1
  <2> DEFINE Out == Seq([start : Nat, head : Cell, got : Seq(Cell)])
  <2>3. << >> \in Out /\ out \in [Readers -> Out]
    BY EmptySeq
  <2> HIDE DEF Out
  <2>4. out' \in [Readers -> Out]
    BY <1>11, <2>3 DEF Seek
  <2> QED  BY <1>11, <2>2, <2>4 DEF Seek, Out
<1>12. CASE ReadFails(r)
  BY <1>12 DEF ReadFails
<1> QED
  BY <1>1, <1>2, <1>3, <1>4, <1>5, <1>6, <1>7, <1>8, <1>9, <1>10, <1>11, <1>12
     DEF ReadStep

\* Only the owner of the lock can be writing.
LEMMA OneWriter ==
  ASSUME LockInv, NEW t \in Threads, NEW u \in Threads,
         wpc[t] \in {"held", "payload", "sealed"},
         wpc[u] \in {"held", "payload", "sealed"}
  PROVE  t = u
BY DEF LockInv

\* A step that appends one cell keeps all others.
LEMMA AppendStep ==
  ASSUME file \in Seq(Cell), NEW c \in Cell, file' = Append(file, c)
  PROVE  /\ FileStep
         /\ file' \in Seq(Cell)
         /\ Len(file') = Len(file) + 1
         /\ \A i \in 1 .. Len(file) : file'[i] = file[i]
         /\ file'[Len(file) + 1] = c
BY DEF FileStep

LEMMA BeginWriteStep ==
  ASSUME WInv, NEW t \in Threads, BeginWrite(t)
  PROVE  WInv' /\ FileStep
<1> DEFINE w == attempts + 1
<1>1. PICK n \in 0 .. MaxLen, z \in BOOLEAN :
        cur' = [id |-> w, start |-> Len(file), n |-> n, k |-> 0, z |-> z]
  BY DEF BeginWrite, SeekEnd
<1>2. w \in Nat /\ Len(file) \in Nat /\ n \in Nat /\ file \in Seq(Cell)
  BY BarcAssumption DEF WInv, TypeOK
<1>3. ReserveHead(w) \in Cell
  BY <1>2, CellTypes
<1>4. file' = Append(file, ReserveHead(w))
  BY <1>2, <1>3, WriteAtEnd DEF BeginWrite
<1>5. /\ FileStep /\ file' \in Seq(Cell)
      /\ Len(file') = Len(file) + 1
      /\ file'[Len(file) + 1] = ReserveHead(w)
  BY <1>2, <1>3, <1>4, AppendStep
<1>6. TypeOK'
  <2>1. cur' \in [id : Nat, start : Nat, n : Nat, k : Nat, z : BOOLEAN]
    BY <1>1, <1>2
  <2>2. wpc' \in [Threads -> {"idle", "held", "payload", "sealed", "panicked"}]
    BY DEF WInv, TypeOK, BeginWrite
  <2> QED
    BY <1>2, <1>5, <2>1, <2>2 DEF WInv, TypeOK, BeginWrite, readerVars
<1>7. LockInv'
  BY DEF WInv, TypeOK, LockInv, BeginWrite
<1>8. WriteInv'
  <2> SUFFICES ASSUME NEW u \in Threads, wpc'[u] \in {"payload", "sealed"}
               PROVE  /\ wpc'[u] = "payload"
                      /\ Len(file') = cur'.start + 1 + cur'.k
                      /\ file'[cur'.start + 1] = ReserveHead(cur'.id)
                      /\ \A j \in 1 .. cur'.k :
                           file'[cur'.start + 1 + j] = Data(cur'.id, j)
    BY DEF WriteInv
  <2>1. u = t
    <3>1. CASE u # t
      <4>1. wpc'[u] = wpc[u] /\ wpc[t] = "held"
        BY <3>1 DEF BeginWrite, WInv, TypeOK
      <4> QED  BY <4>1, OneWriter DEF WInv
    <3> QED  BY <3>1
  <2>2. wpc'[u] = "payload"
    BY <2>1 DEF BeginWrite, WInv, TypeOK
  <2>3. cur'.start = Len(file) /\ cur'.k = 0 /\ cur'.id = w
    BY <1>1
  <2> QED  BY <2>2, <2>3, <1>2, <1>5
<1>9. ReturnedOffsetsGood'
  BY <1>5, ReturnedStable DEF WInv, BeginWrite
<1> QED  BY <1>5, <1>6, <1>7, <1>8, <1>9 DEF WInv

LEMMA WriteChunkStep ==
  ASSUME WInv, NEW t \in Threads, WriteChunk(t)
  PROVE  WInv' /\ FileStep
<1> DEFINE c == Data(cur.id, cur.k + 1)
<1>1. /\ file \in Seq(Cell) /\ Len(file) \in Nat
      /\ cur \in [id : Nat, start : Nat, n : Nat, k : Nat, z : BOOLEAN]
  BY DEF WInv, TypeOK
<1>2. c \in Cell /\ file' = Append(file, c)
  BY <1>1, CellTypes DEF WriteChunk
<1>3. /\ FileStep /\ file' \in Seq(Cell)
      /\ Len(file') = Len(file) + 1
      /\ \A i \in 1 .. Len(file) : file'[i] = file[i]
      /\ file'[Len(file) + 1] = c
  BY <1>1, <1>2, AppendStep
<1>4. /\ cur' \in [id : Nat, start : Nat, n : Nat, k : Nat, z : BOOLEAN]
      /\ cur'.start = cur.start /\ cur'.id = cur.id /\ cur'.k = cur.k + 1
  <2>1. cur' = [cur EXCEPT !.k = cur.k + 1]
    BY DEF WriteChunk
  <2>2. cur' = [id |-> cur.id, start |-> cur.start, n |-> cur.n,
                k |-> cur.k + 1, z |-> cur.z]
    BY <1>1, <2>1
  <2>3. cur.id \in Nat /\ cur.start \in Nat /\ cur.n \in Nat /\ cur.k + 1 \in Nat
    BY <1>1
  <2>4. cur.z \in BOOLEAN
    BY <1>1
  <2> QED  BY <2>2, <2>3, <2>4
<1>5. TypeOK'
  BY <1>3, <1>4 DEF WInv, TypeOK, WriteChunk, readerVars
<1>6. LockInv'
  BY DEF WInv, LockInv, WriteChunk
<1>7. WriteInv'
  <2> SUFFICES ASSUME NEW u \in Threads, wpc'[u] \in {"payload", "sealed"}
               PROVE  /\ wpc'[u] = "payload"
                      /\ Len(file') = cur'.start + 1 + cur'.k
                      /\ file'[cur'.start + 1] = ReserveHead(cur'.id)
                      /\ \A j \in 1 .. cur'.k :
                           file'[cur'.start + 1 + j] = Data(cur'.id, j)
    BY DEF WriteInv
  <2>1. wpc'[u] = "payload" /\ wpc[t] = "payload"
    BY OneWriter DEF WInv, WriteChunk
  <2>2. /\ Len(file) = cur.start + 1 + cur.k
        /\ file[cur.start + 1] = ReserveHead(cur.id)
        /\ \A j \in 1 .. cur.k : file[cur.start + 1 + j] = Data(cur.id, j)
    BY <2>1 DEF WInv, WriteInv
  <2>3. /\ cur.start \in Nat /\ cur.k \in Nat
        /\ cur.start + 1 \in 1 .. Len(file)
    BY <1>1, <2>2
  <2>4. ASSUME NEW j \in 1 .. cur.k + 1
        PROVE  file'[cur.start + 1 + j] = Data(cur.id, j)
    <3>1. CASE j \in 1 .. cur.k
      <4>1. cur.start + 1 + j \in 1 .. Len(file)
        BY <2>2, <2>3, <3>1
      <4> QED  BY <4>1, <3>1, <2>2, <1>3
    <3>2. CASE j = cur.k + 1
      BY <3>2, <2>2, <2>3, <1>3
    <3> QED  BY <3>1, <3>2, <2>3
  <2>5. /\ cur'.start = cur.start /\ cur'.k = cur.k + 1 /\ cur'.id = cur.id
        /\ Len(file') = Len(file) + 1
        /\ file'[cur.start + 1] = file[cur.start + 1]
    BY <1>3, <1>4, <2>3
  <2>6. Len(file') = cur'.start + 1 + cur'.k
    BY <2>2, <2>3, <2>5
  <2> QED  BY <2>1, <2>2, <2>4, <2>5, <2>6
<1>8. ReturnedOffsetsGood'
  BY <1>3, ReturnedStable DEF WInv, WriteChunk
<1> QED  BY <1>3, <1>5, <1>6, <1>7, <1>8 DEF WInv

LEMMA SealHeadStep ==
  ASSUME WInv, NEW t \in Threads, SealHead(t)
  PROVE  WInv' /\ FileStep
<1> DEFINE s == cur.start + 1
           h == DialogHead(cur.id, cur.n, cur.z)
<1>1. /\ file \in Seq(Cell) /\ Len(file) \in Nat
      /\ cur \in [id : Nat, start : Nat, n : Nat, k : Nat, z : BOOLEAN]
  BY DEF WInv, TypeOK
<1>2. /\ Len(file) = s + cur.k /\ cur.k = cur.n
      /\ file[s] = ReserveHead(cur.id)
      /\ \A j \in 1 .. cur.k : file[s + j] = Data(cur.id, j)
  BY DEF WInv, WriteInv, SealHead, PayloadWritten
<1>3. s \in 1 .. Len(file) /\ PayloadLen = cur.n
  BY <1>1, <1>2 DEF PayloadLen
<1>4. h \in Cell
  BY <1>1, CellTypes
<1>5. file' = [file EXCEPT ![s] = h]
  BY <1>3 DEF SealHead
<1>6. /\ file' \in Seq(Cell) /\ Len(file') = Len(file)
      /\ file'[s] = h
      /\ \A j \in 1 .. Len(file) : j # s => file'[j] = file[j]
  BY <1>1, <1>3, <1>4, <1>5, ExceptSeq
<1>7. FileStep
  BY <1>1, <1>2, <1>3, <1>6 DEF FileStep, DialogHead, ReserveHead
<1>8. TypeOK'
  <2>1. wpc' \in [Threads -> {"idle", "held", "payload", "sealed", "panicked"}]
    BY DEF WInv, TypeOK, SealHead
  <2> QED  BY <1>6, <2>1 DEF WInv, TypeOK, SealHead, readerVars
<1>9. LockInv'
  BY DEF WInv, TypeOK, LockInv, SealHead
<1>10. WriteInv'
  <2> SUFFICES ASSUME NEW u \in Threads, wpc'[u] \in {"payload", "sealed"}
               PROVE  /\ wpc'[u] = "sealed"
                      /\ s + cur.n = Len(file')
                      /\ file'[s] = h
                      /\ \A j \in 1 .. cur.n : file'[s + j] = Data(cur.id, j)
    BY DEF WriteInv, SealHead
  <2>1. wpc'[u] = "sealed"
    <3>1. CASE u # t
      <4>1. wpc'[u] = wpc[u] /\ wpc[t] = "payload"
        BY <3>1 DEF SealHead, WInv, TypeOK
      <4> QED  BY <3>1, <4>1, OneWriter DEF WInv
    <3>2. CASE u = t
      BY <3>2 DEF SealHead, WInv, TypeOK
    <3> QED  BY <3>1, <3>2
  <2>2. ASSUME NEW j \in 1 .. cur.n
        PROVE  file'[s + j] = Data(cur.id, j)
    <3>1. s + j \in 1 .. Len(file) /\ s + j # s
      BY <1>1, <1>2
    <3> QED  BY <3>1, <1>2, <1>6
  <2> QED  BY <1>2, <1>6, <2>1, <2>2
<1>11. ReturnedOffsetsGood'
  BY <1>6, <1>7, ReturnedStable DEF WInv, SealHead
<1> QED  BY <1>7, <1>8, <1>9, <1>10, <1>11 DEF WInv

\* The writer steps that leave the file's cells alone, or only add an incomplete
\* head while no record is being written.
LEMMA QuietWriterStep ==
  ASSUME WInv, NEW t \in Threads,
         \/ OpenWriter(t) \/ OpenPoisoned(t) \/ DropWriter(t)
         \/ WriteFails(t) \/ WritePanics(t)
  PROVE  WInv' /\ FileStep
<1> USE DEF WInv
<1>1. UNCHANGED <<file, cur, returned, attempts, readerVars>>
  BY DEF OpenWriter, OpenPoisoned, DropWriter, WriteFails, WritePanics, fileVars
<1>2. FileStep
  BY <1>1 DEF FileStep, TypeOK
<1>3. ReturnedOffsetsGood'
  BY <1>1, <1>2, ReturnedStable DEF TypeOK
<1>4. ASSUME NEW u \in Threads, wpc'[u] \in {"payload", "sealed"}
      PROVE  wpc'[u] = wpc[u]
  BY <1>4 DEF TypeOK, OpenWriter, OpenPoisoned, DropWriter, WriteFails, WritePanics
<1>5. WriteInv'
  BY <1>1, <1>4 DEF WriteInv
<1>6. LockInv'
  <2> SUFFICES ASSUME NEW u \in Threads, wpc'[u] \in {"held", "payload", "sealed"}
               PROVE  owner' = u
    BY DEF LockInv
  <2>1. CASE OpenWriter(t)
    BY <2>1, BarcAssumption DEF OpenWriter, LockInv, TypeOK
  <2>2. CASE OpenPoisoned(t)
    BY <2>2 DEF OpenPoisoned, LockInv, TypeOK
  <2>3. CASE DropWriter(t)
    BY <2>3 DEF DropWriter, LockInv, TypeOK
  <2>4. CASE WriteFails(t)
    BY <2>4 DEF WriteFails, LockInv, TypeOK
  <2>5. CASE WritePanics(t)
    BY <2>5 DEF WritePanics, LockInv, TypeOK
  <2> QED  BY <2>1, <2>2, <2>3, <2>4, <2>5
<1>7. TypeOK'
  <2>1. wpc' \in [Threads -> {"idle", "held", "payload", "sealed", "panicked"}]
    <3>1. wpc \in [Threads -> {"idle", "held", "payload", "sealed", "panicked"}]
      BY DEF TypeOK
    <3>2. \E x \in {"idle", "held", "panicked"} : wpc' = [wpc EXCEPT ![t] = x]
      BY DEF OpenWriter, OpenPoisoned, DropWriter, WriteFails, WritePanics
    <3> QED  BY <3>1, <3>2
  <2>2. /\ exists' \in BOOLEAN /\ handle' \in BOOLEAN /\ poisoned' \in BOOLEAN
        /\ owner' \in Threads \cup {NoOne}
    <3>1. exists \in BOOLEAN /\ handle \in BOOLEAN /\ poisoned \in BOOLEAN
          /\ owner \in Threads \cup {NoOne}
      BY DEF TypeOK
    <3> QED  BY <3>1 DEF OpenWriter, OpenPoisoned, DropWriter, WriteFails, WritePanics,
                         fileVars
  <2> QED  BY <1>1, <2>1, <2>2 DEF TypeOK, readerVars
<1> QED  BY <1>2, <1>3, <1>5, <1>6, <1>7

LEMMA BeginWriteShortStep ==
  ASSUME WInv, NEW t \in Threads, BeginWriteShort(t)
  PROVE  WInv' /\ FileStep
<1> DEFINE c == Torn(attempts + 1)
<1>1. /\ file \in Seq(Cell) /\ c \in Cell /\ file' = Append(file, c)
      /\ attempts' \in Nat
  BY CellTypes DEF WInv, TypeOK, BeginWriteShort
<1>2. FileStep /\ file' \in Seq(Cell)
  BY <1>1, AppendStep
<1>3. TypeOK'
  BY <1>1, <1>2 DEF WInv, TypeOK, BeginWriteShort, readerVars
<1>4. LockInv'
  BY DEF WInv, LockInv, BeginWriteShort
<1>5. WriteInv'
  <2>1. \A u \in Threads : wpc'[u] \notin {"payload", "sealed"}
    BY OneWriter DEF WInv, BeginWriteShort
  <2> QED  BY <2>1 DEF WriteInv
<1>6. ReturnedOffsetsGood'
  BY <1>2, ReturnedStable DEF WInv, BeginWriteShort
<1> QED  BY <1>2, <1>3, <1>4, <1>5, <1>6 DEF WInv

LEMMA EndWriteStep ==
  ASSUME WInv, NEW t \in Threads, EndWrite(t)
  PROVE  WInv' /\ FileStep
<1> DEFINE new == [id |-> cur.id, start |-> cur.start, n |-> cur.n]
<1>1. /\ file \in Seq(Cell) /\ Len(file) \in Nat
      /\ cur \in [id : Nat, start : Nat, n : Nat, k : Nat, z : BOOLEAN]
      /\ returned' = returned \cup {new}
      /\ file' = file /\ cur' = cur
  BY DEF WInv, TypeOK, EndWrite, StartOffset, fileVars
<1>2. /\ cur.start + 1 + cur.n = Len(file)
      /\ file[cur.start + 1] = DialogHead(cur.id, cur.n, cur.z)
      /\ \A j \in 1 .. cur.n : file[cur.start + 1 + j] = Data(cur.id, j)
  BY DEF WInv, WriteInv, EndWrite
<1>3. FileStep
  BY <1>1 DEF FileStep
<1>4. TypeOK'
  <2>1. wpc' \in [Threads -> {"idle", "held", "payload", "sealed", "panicked"}]
    BY DEF WInv, TypeOK, EndWrite
  <2>2. returned' \subseteq [id : Nat, start : Nat, n : Nat]
    BY <1>1 DEF WInv, TypeOK
  <2> QED  BY <2>1, <2>2 DEF WInv, TypeOK, EndWrite, readerVars, fileVars
<1>5. LockInv'
  BY DEF WInv, TypeOK, LockInv, EndWrite
<1>6. WriteInv'
  <2>1. \A u \in Threads : wpc'[u] \notin {"payload", "sealed"}
    BY OneWriter DEF WInv, TypeOK, EndWrite
  <2> QED  BY <2>1 DEF WriteInv
<1>7. ReturnedOffsetsGood'
  <2> SUFFICES ASSUME NEW w \in returned \cup {new}
               PROVE  /\ CommittedAt(w.start)
                      /\ file[w.start + 1].id = w.id
                      /\ file[w.start + 1].n = w.n
                      /\ w.start + 1 + w.n <= Len(file)
                      /\ \A i \in 1 .. w.n : file[w.start + 1 + i] = Data(w.id, i)
    BY <1>1 DEF ReturnedOffsetsGood, CommittedAt
  <2>1. CASE w \in returned
    BY <2>1 DEF WInv, ReturnedOffsetsGood
  <2>2. CASE w = new
    <3>1. w.id = cur.id /\ w.start = cur.start /\ w.n = cur.n
      BY <2>2
    <3>2. /\ file[cur.start + 1].kind = "head" /\ file[cur.start + 1].type = "D"
          /\ file[cur.start + 1].id = cur.id /\ file[cur.start + 1].n = cur.n
      BY <1>2 DEF DialogHead
    <3>3. cur.start \in 0 .. Len(file) - 1
      BY <1>1, <1>2
    <3> QED  BY <1>1, <1>2, <3>1, <3>2, <3>3 DEF CommittedAt
  <2> QED  BY <2>1, <2>2
<1> QED  BY <1>3, <1>4, <1>5, <1>6, <1>7 DEF WInv

LEMMA CrashStep ==
  ASSUME WInv, Crash
  PROVE  WInv' /\ FileStep
<1>1. UNCHANGED <<file, exists, cur, returned, attempts, readerVars>>
  BY DEF Crash, fileVars
<1>2. \A t \in Threads : wpc'[t] = "idle"
  BY DEF Crash
<1>3. FileStep
  BY <1>1 DEF FileStep, WInv, TypeOK
<1>4. TypeOK'
  <2>1. wpc' \in [Threads -> {"idle", "held", "payload", "sealed", "panicked"}]
    BY DEF Crash
  <2>2. handle' \in BOOLEAN /\ poisoned' \in BOOLEAN /\ owner' \in Threads \cup {NoOne}
    BY DEF Crash
  <2> QED  BY <1>1, <2>1, <2>2 DEF WInv, TypeOK, readerVars
<1>5. ReturnedOffsetsGood'
  BY <1>1, <1>3, ReturnedStable DEF WInv, TypeOK
<1> QED  BY <1>2, <1>3, <1>4, <1>5 DEF WInv, LockInv, WriteInv

\* A step that leaves the file and the writers alone.
LEMMA QuietStep ==
  ASSUME WInv, TypeOK', UNCHANGED <<fileVars, writerVars>>
  PROVE  WInv' /\ FileStep
<1>1. file' = file /\ wpc' = wpc /\ owner' = owner /\ cur' = cur
      /\ returned' = returned
  BY DEF fileVars, writerVars
<1>2. FileStep
  BY <1>1 DEF FileStep, WInv, TypeOK
<1>3. LockInv' /\ WriteInv'
  BY <1>1 DEF WInv, LockInv, WriteInv
<1>4. ReturnedOffsetsGood'
  BY <1>1, <1>2, ReturnedStable DEF WInv, TypeOK
<1> QED  BY <1>2, <1>3, <1>4 DEF WInv

\* Every step keeps the writers' invariant and changes the file only by
\* appending and by overwriting reserved heads.
LEMMA WInvNext ==
  ASSUME WInv, [Next]_vars
  PROVE  WInv' /\ FileStep
<1>1. CASE UNCHANGED vars
  <2>1. UNCHANGED <<fileVars, writerVars, readerVars>>
    BY <1>1 DEF vars
  <2>2. TypeOK'
    BY <2>1 DEF WInv, TypeOK, fileVars, writerVars, readerVars
  <2> QED  BY <2>1, <2>2, QuietStep
<1>2. CASE ReaderNext
  BY <1>2, ReaderTypes, QuietStep DEF WInv
<1>3. CASE WriterNext
  BY <1>3, BeginWriteStep, WriteChunkStep, SealHeadStep, QuietWriterStep,
     BeginWriteShortStep, EndWriteStep, CrashStep DEF WriterNext
<1> QED  BY <1>1, <1>2, <1>3 DEF Next

\* The type invariant holds for every number of threads, readers and writes,
\* every set of faults and every initial file: in particular the length that
\* SealHead computes from file offsets is never negative.
THEOREM TypeCorrect == Spec => []TypeOK
<1>1. WInv /\ [Next]_vars => WInv'
  BY WInvNext
<1>2. WInv => TypeOK
  BY DEF WInv
<1> QED  BY WInvInit, <1>1, <1>2, PTL DEF Spec

\* Random access is sound: at every offset that BarcWriter::write returned stays
\* the complete record of that write, whatever later writes, failures, panics
\* and crashes do to the file.
THEOREM OffsetsStayGood == Spec => []ReturnedOffsetsGood
<1>1. WInv /\ [Next]_vars => WInv'
  BY WInvNext
<1>2. WInv => ReturnedOffsetsGood
  BY DEF WInv
<1> QED  BY WInvInit, <1>1, <1>2, PTL DEF Spec

\* No step of any thread shortens the file or changes a byte of it, other than a
\* reserved head that its own write replaces: what slice_body's memory maps and
\* positional reads rely on.
THEOREM FileAppendOnly == Spec => AppendOnly
<1> DEFINE A == /\ Len(file') >= Len(file)
                /\ \A i \in 1 .. Len(file) :
                     file'[i] # file[i] =>
                       /\ file[i].kind = "head" /\ file[i].type = "R"
                       /\ file'[i].kind = "head" /\ file'[i].id = file[i].id
<1>1. WInv /\ [Next]_vars => WInv' /\ [A]_file
  BY WInvNext DEF FileStep
<1> QED  BY WInvInit, <1>1, PTL DEF Spec, AppendOnly

-----------------------------------------------------------------------------
(* What readers get.  The invariant adds to the writers' one that every       *)
(* committed record is complete, that a reader inside a record has parsed the *)
(* head that is in the file and copied a prefix of its payload, and that the  *)
(* records returned so far are the committed ones at their offsets.  It says  *)
(* so of the records with ids in S: all of them, or those of this session.    *)

\* The committed records of f with ids in S have their whole payload.
CompleteIn(f, S) ==
  \A i \in 1 .. Len(f) :
    f[i].kind = "head" /\ f[i].type = "D" /\ f[i].id \in S =>
      /\ i + f[i].n <= Len(f)
      /\ \A j \in 1 .. f[i].n : f[i + j] = Data(f[i].id, j)

\* head h is committed at offset p, and cells is a copy of its payload so far.
CopyOf(p, h, cells) ==
  /\ CommittedAt(p)
  /\ file[p + 1] = h
  /\ \A i \in 1 .. Len(cells) : cells[i] \in {Data(h.id, i), Slice}

ReadingInv(S) ==
  \A r \in Readers :
    rpc[r] = "payload" /\ rhead[r].id \in S =>
      /\ CopyOf(rstart[r], rhead[r], got[r])
      /\ Len(got[r]) <= rhead[r].n

OutInv(S) ==
  \A r \in Readers : \A j \in 1 .. Len(out[r]) :
    out[r][j].head.id \in S =>
      /\ CopyOf(out[r][j].start, out[r][j].head, out[r][j].got)
      /\ Len(out[r][j].got) = out[r][j].head.n

RInv(S) == WInv /\ CompleteIn(file, S) /\ ReadingInv(S) /\ OutInv(S)

\* What was returned stays what it is while neither it nor the file changes.
LEMMA OutStays ==
  ASSUME NEW S, OutInv(S), file' = file, out' = out
  PROVE  OutInv(S)'
<1> SUFFICES ASSUME NEW r \in Readers, NEW j \in 1 .. Len(out[r]), out[r][j].head.id \in S
             PROVE  /\ CopyOf(out[r][j].start, out[r][j].head, out[r][j].got)'
                    /\ (Len(out[r][j].got) = out[r][j].head.n)'
  BY DEF OutInv
<1>1. /\ CopyOf(out[r][j].start, out[r][j].head, out[r][j].got)
      /\ Len(out[r][j].got) = out[r][j].head.n
  BY DEF OutInv
<1> QED  BY ONLY <1>1, file' = file, out' = out DEF CopyOf, CommittedAt

\* A copy of a record stays one.
LEMMA CopyStable ==
  ASSUME TypeOK, FileStep, file' \in Seq(Cell),
         NEW p \in Nat, NEW h \in Cell, NEW cells, CopyOf(p, h, cells)
  PROVE  CopyOf(p, h, cells)'
<1>1. Len(file) \in Nat /\ Len(file') \in Nat /\ Len(file') >= Len(file)
  BY DEF TypeOK, FileStep
<1>2. p + 1 \in 1 .. Len(file) /\ file[p + 1].type = "D"
  BY <1>1 DEF CopyOf, CommittedAt
<1>3. file'[p + 1] = file[p + 1]
  BY <1>2 DEF FileStep
<1>4. CommittedAt(p)'
  BY <1>1, <1>3 DEF CopyOf, CommittedAt
<1> QED  BY <1>3, <1>4 DEF CopyOf

\* No step leaves a committed record incomplete.
LEMMA RecordsNext ==
  ASSUME WInv, NEW S, CompleteIn(file, S), [Next]_vars
  PROVE  CompleteIn(file', S)
<1>1. WInv' /\ FileStep
  BY WInvNext
<1>2. file \in Seq(Cell) /\ file' \in Seq(Cell) /\ Len(file) \in Nat /\ Len(file') \in Nat
  BY <1>1 DEF WInv, TypeOK
<1>3. ASSUME NEW i \in 1 .. Len(file), file'[i] = file[i],
             file'[i].kind = "head", file'[i].type = "D", file'[i].id \in S
      PROVE  /\ i + file'[i].n <= Len(file')
             /\ \A j \in 1 .. file'[i].n : file'[i + j] = Data(file'[i].id, j)
  <2>1. /\ i + file[i].n <= Len(file)
        /\ \A j \in 1 .. file[i].n : file[i + j] = Data(file[i].id, j)
    BY <1>3 DEF CompleteIn
  <2>2. file[i].n \in Nat
    <3>1. file[i] \in Cell
      BY <1>2
    <3> QED  BY <3>1 DEF Cell
  <2>3. ASSUME NEW j \in 1 .. file[i].n
        PROVE  file'[i + j] = Data(file[i].id, j)
    <3>1. i + j \in 1 .. Len(file)
      BY <1>2, <2>1, <2>2
    <3>2. file[i + j] = Data(file[i].id, j)
      BY <2>1
    <3>3. file[i + j].kind # "head"
      BY <3>2 DEF Data
    <3> QED  BY <1>1, <3>1, <3>2, <3>3 DEF FileStep
  <2> QED  BY <1>1, <1>2, <1>3, <2>1, <2>2, <2>3 DEF FileStep
<1>4. ASSUME NEW c, file' = Append(file, c), ~ (c.kind = "head" /\ c.type = "D")
      PROVE  CompleteIn(file', S)
  <2> SUFFICES ASSUME NEW i \in 1 .. Len(file'),
                      file'[i].kind = "head", file'[i].type = "D", file'[i].id \in S
               PROVE  /\ i + file'[i].n <= Len(file')
                      /\ \A j \in 1 .. file'[i].n : file'[i + j] = Data(file'[i].id, j)
    BY DEF CompleteIn
  <2>1. Len(file') = Len(file) + 1 /\ file'[Len(file) + 1] = c
    BY <1>2, <1>4
  <2>2. i \in 1 .. Len(file)
    BY <1>2, <1>4, <2>1
  <2>3. file'[i] = file[i]
    BY <1>2, <1>4, <2>2
  <2> QED  BY <1>3, <2>2, <2>3
<1>5. CASE file' = file
  BY <1>5
<1>6. ASSUME NEW t \in Threads, BeginWrite(t)
      PROVE  CompleteIn(file', S)
  <2>1. /\ ReserveHead(attempts + 1) \in Cell
        /\ file' = WriteAt(SeekEnd, ReserveHead(attempts + 1))
    BY <1>6, CellTypes DEF BeginWrite, WInv, TypeOK
  <2>2. file' = Append(file, ReserveHead(attempts + 1))
    BY <1>2, <2>1, WriteAtEnd
  <2> QED  BY <2>2, <1>4 DEF ReserveHead
<1>7. ASSUME NEW t \in Threads, WriteChunk(t)
      PROVE  CompleteIn(file', S)
  <2>1. Data(cur.id, cur.k + 1).kind # "head"
    BY DEF Data
  <2> QED  BY <1>4, <1>7, <2>1 DEF WriteChunk
<1>8. ASSUME NEW t \in Threads, BeginWriteShort(t)
      PROVE  CompleteIn(file', S)
  <2>1. Torn(attempts + 1).kind # "head"
    BY DEF Torn
  <2> QED  BY <1>4, <1>8, <2>1 DEF BeginWriteShort
<1>9. ASSUME NEW t \in Threads, SealHead(t)
      PROVE  CompleteIn(file', S)
  <2> DEFINE s == cur.start + 1
  <2>1. wpc'[t] = "sealed" /\ cur' = cur
    BY <1>9 DEF SealHead, WInv, TypeOK
  <2>2. /\ s + cur.n = Len(file')
        /\ file'[s] = DialogHead(cur.id, cur.n, cur.z)
        /\ \A j \in 1 .. cur.n : file'[s + j] = Data(cur.id, j)
    BY <1>1, <2>1 DEF WInv, WriteInv
  <2>3. file'[s].n = cur.n /\ file'[s].id = cur.id
    BY <2>2 DEF DialogHead
  <2>4. Len(file') = Len(file) /\ \A i \in 1 .. Len(file) : i # s => file'[i] = file[i]
    BY <1>2, <1>9 DEF SealHead
  <2> SUFFICES ASSUME NEW i \in 1 .. Len(file'),
                      file'[i].kind = "head", file'[i].type = "D", file'[i].id \in S
               PROVE  /\ i + file'[i].n <= Len(file')
                      /\ \A j \in 1 .. file'[i].n : file'[i + j] = Data(file'[i].id, j)
    BY DEF CompleteIn
  <2>5. CASE i = s
    BY <1>2, <2>2, <2>3, <2>5
  <2>6. CASE i # s
    BY <1>3, <2>4, <2>6
  <2> QED  BY <2>5, <2>6
<1>10. CASE UNCHANGED vars
  BY <1>5, <1>10 DEF vars, fileVars
<1>11. CASE ReaderNext
  BY <1>5, <1>11, ReaderTypes DEF WInv, fileVars
<1>12. CASE WriterNext
  <2>1. ASSUME NEW t \in Threads,
               \/ OpenWriter(t) \/ OpenPoisoned(t) \/ DropWriter(t)
               \/ EndWrite(t) \/ WriteFails(t) \/ WritePanics(t)
        PROVE  file' = file
    BY <2>1 DEF OpenWriter, OpenPoisoned, DropWriter, EndWrite, WriteFails,
                WritePanics, fileVars
  <2>2. Crash => file' = file
    BY DEF Crash, fileVars
  <2> QED  BY <1>5, <1>6, <1>7, <1>8, <1>9, <1>12, <2>1, <2>2 DEF WriterNext
<1> QED  BY <1>10, <1>11, <1>12 DEF Next

\* A step that leaves the readers alone keeps what they hold.
LEMMA CopiesKept ==
  ASSUME NEW S, RInv(S), FileStep, file' \in Seq(Cell), UNCHANGED readerVars
  PROVE  ReadingInv(S)' /\ OutInv(S)'
<1>1. TypeOK
  BY DEF RInv, WInv
<1>2. /\ rpc' = rpc /\ rstart' = rstart /\ rhead' = rhead /\ got' = got
      /\ out' = out
  BY DEF readerVars
<1>3. ASSUME NEW r \in Readers, rpc[r] = "payload", rhead[r].id \in S
      PROVE  CopyOf(rstart[r], rhead[r], got[r])'
  <2>1. rstart[r] \in Nat /\ rhead[r] \in Cell
    BY <1>1 DEF TypeOK
  <2>2. CopyOf(rstart[r], rhead[r], got[r])
    BY <1>3 DEF RInv, ReadingInv
  <2> QED  BY <1>1, <1>2, <2>1, <2>2, CopyStable DEF CopyOf, CommittedAt
<1>4. ASSUME NEW r \in Readers, NEW j \in 1 .. Len(out[r]), out[r][j].head.id \in S
      PROVE  CopyOf(out[r][j].start, out[r][j].head, out[r][j].got)'
  <2>1. out[r][j] \in [start : Nat, head : Cell, got : Seq(Cell)]
    <3>1. out[r] \in Seq([start : Nat, head : Cell, got : Seq(Cell)])
      BY <1>1 DEF TypeOK
    <3> QED  BY <3>1, ElementOfSeq
  <2>2. out[r][j].start \in Nat /\ out[r][j].head \in Cell
    BY <2>1
  <2>3. CopyOf(out[r][j].start, out[r][j].head, out[r][j].got)
    BY <1>4 DEF RInv, OutInv
  <2> QED  BY <1>1, <1>2, <2>2, <2>3, CopyStable DEF CopyOf, CommittedAt
<1>5. ReadingInv(S)'
  BY <1>2, <1>3 DEF RInv, ReadingInv
<1>6. OutInv(S)'
  BY <1>2, <1>4 DEF RInv, OutInv
<1> QED  BY <1>5, <1>6

\* The readers' own steps: a head is only parsed where it is committed, every
\* copied cell is the payload cell in turn, and only a complete copy is returned.
LEMMA CopiesRead ==
  ASSUME NEW S, RInv(S), ReaderNext
  PROVE  ReadingInv(S)' /\ OutInv(S)'
<1>1. TypeOK /\ TypeOK' /\ UNCHANGED <<fileVars, writerVars>>
  BY ReaderTypes DEF RInv, WInv
<1>2. file' = file /\ file \in Seq(Cell) /\ Len(file) \in Nat
  BY <1>1 DEF fileVars, TypeOK
<1>3. PICK r \in Readers : OpenReader(r) \/ ReadNone(r) \/ ReadStep(r) \/ Seek(r)
  BY DEF ReaderNext
<1>4. CASE OpenReader(r) \/ ReadNone(r) \/ ReadReserved(r) \/ ReadBadHead(r)
           \/ ReadLost(r) \/ ReadEof(r) \/ ReadFails(r)
  <2>1. /\ rhead' = rhead /\ got' = got /\ out' = out
        /\ \A q \in Readers : rpc'[q] = "payload" =>
             rpc[q] = "payload" /\ rstart'[q] = rstart[q]
    BY <1>1, <1>4 DEF OpenReader, ReadNone, ReadReserved, ReadBadHead, ReadLost,
                      ReadEof, ReadFails, vars, readerVars, TypeOK
  <2>2. ReadingInv(S) /\ OutInv(S) /\ file' = file
    BY <1>2 DEF RInv
  <2>3. ReadingInv(S)'
    BY ONLY <2>1, <2>2 DEF ReadingInv, CopyOf, CommittedAt
  <2> QED  BY <2>1, <2>2, <2>3, OutStays
<1>5. CASE Seek(r)
  <2>1. /\ rstart' = rstart /\ rhead' = rhead /\ got' = got /\ rpc' = rpc
        /\ out' = [out EXCEPT ![r] = << >>]
    BY <1>5 DEF Seek
  <2>2. ReadingInv(S)'
    BY <1>2, <2>1 DEF RInv, ReadingInv, CopyOf, CommittedAt
  <2>3. ASSUME NEW q \in Readers, NEW j \in 1 .. Len(out'[q])
        PROVE  q # r /\ out'[q] = out[q]
    <3>1. out'[r] = << >>
      BY <1>1, <2>1 DEF TypeOK
    <3>2. q # r
      BY <3>1
    <3> QED  BY <1>1, <2>1, <3>2 DEF TypeOK
  <2>4. ASSUME NEW q \in Readers, NEW j \in 1 .. Len(out'[q]), out'[q][j].head.id \in S
        PROVE  /\ CopyOf(out'[q][j].start, out'[q][j].head, out'[q][j].got)
               /\ Len(out'[q][j].got) = out'[q][j].head.n
    <3>1. out'[q] = out[q]
      BY <2>3
    <3> QED  BY <2>4, <3>1 DEF RInv, OutInv
  <2>5. OutInv(S)'
    <3>1. file' = file
      BY <1>2
    <3> QED  BY ONLY <3>1, <2>4 DEF OutInv, CopyOf, CommittedAt
  <2> QED  BY <2>2, <2>5
<1>6. CASE ReadHead(r)
  <2>1. out' = out
    BY <1>6 DEF ReadHead
  <2>2. OutInv(S)'
    BY <1>2, <2>1, OutStays DEF RInv
  <2>3. ASSUME NEW q \in Readers, rpc'[q] = "payload", rhead'[q].id \in S
        PROVE  CopyOf(rstart'[q], rhead'[q], got'[q]) /\ Len(got'[q]) <= rhead'[q].n
    <3>1. CASE q = r
      <4>1. /\ rstart'[r] = pos[r] /\ rhead'[r] = file[pos[r] + 1]
            /\ got'[r] = << >>
        BY <1>1, <1>6 DEF ReadHead, TypeOK
      <4>2. CommittedAt(pos[r])
        BY <1>6 DEF ReadHead, AtHead, CommittedAt
      <4>3. rhead'[r] \in Cell
        BY <1>1 DEF TypeOK
      <4>4. rhead'[r].n \in Nat
        BY <4>3 DEF Cell
      <4> QED  BY <3>1, <4>1, <4>2, <4>4 DEF CopyOf
    <3>2. CASE q # r
      <4>1. /\ rstart'[q] = rstart[q] /\ rhead'[q] = rhead[q] /\ got'[q] = got[q]
            /\ rpc[q] = "payload"
        BY <1>1, <1>6, <2>3, <3>2 DEF ReadHead, TypeOK
      <4> QED  BY <2>3, <4>1 DEF RInv, ReadingInv
    <3> QED  BY <3>1, <3>2
  <2>4. ReadingInv(S)'
    BY <1>2, <2>3 DEF ReadingInv, CopyOf, CommittedAt
  <2> QED  BY <2>2, <2>4
<1>7. CASE ReadCell(r) \/ SliceCell(r)
  <2> DEFINE n == Len(got[r])
  <2>1. out' = out /\ rpc' = rpc /\ rstart' = rstart /\ rhead' = rhead
    BY <1>7 DEF ReadCell, SliceCell
  <2>2. OutInv(S)'
    BY <1>2, <2>1, OutStays DEF RInv
  <2>3. /\ rhead[r].id \in S => CopyOf(rstart[r], rhead[r], got[r])
        /\ n < rhead[r].n
    BY <1>7 DEF RInv, ReadingInv, ReadCell, SliceCell, PayloadLeft
  <2>4. rstart[r] \in Nat /\ rhead[r].n \in Nat /\ got[r] \in Seq(Cell) /\ n \in Nat
    <3>1. rhead[r] \in Cell
      BY <1>1 DEF TypeOK
    <3> QED  BY <1>1, <3>1 DEF TypeOK, Cell
  <2>5. PICK c \in Cell :
             /\ rhead[r].id \in S => c \in {Data(rhead[r].id, n + 1), Slice}
             /\ got' = [got EXCEPT ![r] = Append(got[r], c)]
    <3>0. Slice \in Cell
      BY DEF Slice, Cell
    <3>1. CASE SliceCell(r)
      BY <3>0, <3>1 DEF SliceCell
    <3>2. CASE ReadCell(r) /\ rhead[r].id \notin S
      <4>1. Cursor(r) + 1 \in 1 .. Len(file)
        BY <1>2, <2>4, <3>2 DEF ReadCell, Cursor
      <4>2. file[Cursor(r) + 1] \in Cell
        BY <1>2, <4>1
      <4> QED  BY <3>2, <4>2 DEF ReadCell
    <3>3. CASE ReadCell(r) /\ rhead[r].id \in S
      <4>1. /\ rstart[r] + 1 \in 1 .. Len(file)
            /\ file[rstart[r] + 1] = rhead[r]
            /\ rhead[r].kind = "head" /\ rhead[r].type = "D"
        BY <1>2, <2>3, <2>4, <3>3 DEF CopyOf, CommittedAt
      <4>2. n + 1 \in 1 .. rhead[r].n
        BY <2>3, <2>4
      <4>3. file[rstart[r] + 1 + (n + 1)] = Data(rhead[r].id, n + 1)
        BY <3>3, <4>1, <4>2 DEF RInv, CompleteIn
      <4>4. Cursor(r) + 1 = rstart[r] + 1 + (n + 1)
        <5>1. Cursor(r) = rstart[r] + 1 + n
          BY DEF Cursor
        <5>2. \A a, b \in Nat : (a + 1 + b) + 1 = a + 1 + (b + 1)
          OBVIOUS
        <5> HIDE DEF n
        <5> QED  BY <2>4, <5>1, <5>2
      <4>5. Data(rhead[r].id, n + 1) \in Cell
        <5>1. rhead[r] \in Cell
          BY <1>1 DEF TypeOK
        <5>2. rhead[r].id \in Nat
          BY <5>1 DEF Cell
        <5>3. n + 1 \in Nat
          BY <2>4
        <5> QED  BY <5>2, <5>3, CellTypes
      <4> QED  BY <3>3, <4>3, <4>4, <4>5 DEF ReadCell
    <3> QED  BY <1>7, <3>1, <3>2, <3>3
  <2>7. /\ got'[r] = Append(got[r], c)
        /\ Len(got'[r]) = n + 1
        /\ got'[r][n + 1] = c
        /\ \A i \in 1 .. n : got'[r][i] = got[r][i]
    BY <1>1, <2>4, <2>5 DEF TypeOK
  <2>8. /\ rhead[r].id \in S => CopyOf(rstart[r], rhead[r], got'[r])
        /\ Len(got'[r]) <= rhead[r].n
    <3>1. ASSUME NEW i \in 1 .. n + 1, rhead[r].id \in S
          PROVE  got'[r][i] \in {Data(rhead[r].id, i), Slice}
      <4>1. CASE i = n + 1
        BY <2>5, <2>7, <3>1, <4>1
      <4>2. CASE i \in 1 .. n
        BY <2>3, <2>7, <3>1, <4>2 DEF CopyOf
      <4> QED  BY <2>4, <4>1, <4>2
    <3> QED  BY <2>3, <2>4, <2>7, <3>1 DEF CopyOf
  <2>9. \A q \in Readers : q # r => got'[q] = got[q]
    BY <1>1, <2>5 DEF TypeOK
  <2>10. ASSUME NEW q \in Readers, rpc[q] = "payload", rhead[q].id \in S
         PROVE  CopyOf(rstart[q], rhead[q], got'[q]) /\ Len(got'[q]) <= rhead[q].n
    BY <2>8, <2>9, <2>10 DEF RInv, ReadingInv
  <2>11. ReadingInv(S)'
    BY <1>2, <2>1, <2>10 DEF ReadingInv, CopyOf, CommittedAt
  <2> QED  BY <2>2, <2>11
<1>8. CASE ReadDone(r)
  <2> DEFINE rec == [start |-> rstart[r], head |-> rhead[r], got |-> got[r]]
             Rec == [start : Nat, head : Cell, got : Seq(Cell)]
  <2>1. /\ rstart' = rstart /\ rhead' = rhead /\ got' = got
        /\ \A q \in Readers : rpc'[q] = "payload" => rpc[q] = "payload"
    BY <1>1, <1>8 DEF ReadDone, TypeOK
  <2>2. ReadingInv(S)'
    BY <1>2, <2>1 DEF RInv, ReadingInv, CopyOf, CommittedAt
  <2>3. rhead[r].id \in S => CopyOf(rstart[r], rhead[r], got[r]) /\ Len(got[r]) = rhead[r].n
    BY <1>8 DEF RInv, ReadingInv, ReadDone
  <2>4. rec.head.id \in S => CopyOf(rec.start, rec.head, rec.got) /\ Len(rec.got) = rec.head.n
    BY <2>3
  <2>5. rec \in Rec
    BY <1>1 DEF TypeOK
  <2>6. out \in [Readers -> Seq(Rec)] /\ out' = [out EXCEPT ![r] = Append(out[r], rec)]
    BY <1>1, <1>8 DEF TypeOK, ReadDone
  <2> HIDE DEF rec, Rec
  <2>7. /\ out'[r] = Append(out[r], rec)
        /\ \A q \in Readers : q # r => out'[q] = out[q]
    BY <2>6
  <2>8. ASSUME NEW q \in Readers, NEW j \in 1 .. Len(out'[q]), out'[q][j].head.id \in S
        PROVE  /\ CopyOf(out'[q][j].start, out'[q][j].head, out'[q][j].got)
               /\ Len(out'[q][j].got) = out'[q][j].head.n
    <3>1. CASE q # r
      BY <2>7, <2>8, <3>1 DEF RInv, OutInv
    <3>2. CASE q = r /\ j \in 1 .. Len(out[r])
      <4>1. out'[q][j] = out[r][j]
        BY <2>5, <2>6, <2>7, <3>2
      <4> QED  BY <2>8, <3>2, <4>1 DEF RInv, OutInv
    <3>3. CASE q = r /\ j = Len(out[r]) + 1
      <4>1. out'[q][j] = rec
        BY <2>5, <2>6, <2>7, <3>3
      <4> QED  BY <2>8, <4>1, <2>4
    <3> QED  BY <2>5, <2>6, <2>7, <3>1, <3>2, <3>3
  <2>9. OutInv(S)'
    <3>1. file' = file
      BY <1>2
    <3> QED  BY ONLY <3>1, <2>8 DEF OutInv, CopyOf, CommittedAt
  <2> QED  BY <2>2, <2>9
<1> QED  BY <1>3, <1>4, <1>5, <1>6, <1>7, <1>8 DEF ReadStep

\* RInv is inductive, given that the committed records of the file were complete
\* when the session began.
LEMMA RInvInit ==
  ASSUME NEW S, \A f \in InitFiles : CompleteIn(f, S)
  PROVE  Init => RInv(S)
<1> SUFFICES ASSUME Init PROVE RInv(S)
  OBVIOUS
<1>1. WInv
  BY WInvInit
<1>2. CompleteIn(file, S)
  BY DEF Init
<1>3. ReadingInv(S)
  BY DEF Init, ReadingInv
<1>4. \A r \in Readers : out[r] = << >>
  BY DEF Init
<1>5. OutInv(S)
  BY <1>4 DEF OutInv
<1> QED  BY <1>1, <1>2, <1>3, <1>5 DEF RInv

LEMMA RInvNext ==
  ASSUME NEW S, RInv(S), [Next]_vars
  PROVE  RInv(S)'
<1>1. WInv' /\ FileStep
  BY WInvNext DEF RInv
<1>2. CompleteIn(file', S)
  BY RecordsNext DEF RInv
<1>3. file' \in Seq(Cell)
  BY <1>1 DEF WInv, TypeOK
<1>4. ReadingInv(S)' /\ OutInv(S)'
  <2>1. CASE UNCHANGED vars
    BY <1>1, <1>3, <2>1, CopiesKept DEF vars
  <2>2. CASE WriterNext
    <3>1. UNCHANGED readerVars
      BY <2>2 DEF WriterNext, OpenWriter, OpenPoisoned, DropWriter, BeginWrite,
                  BeginWriteShort, WriteChunk, SealHead, EndWrite, WriteFails,
                  WritePanics, Crash
    <3> QED  BY <1>1, <1>3, <3>1, CopiesKept
  <2>3. CASE ReaderNext
    BY <2>3, CopiesRead
  <2> QED  BY <2>1, <2>2, <2>3 DEF Next
<1> QED  BY <1>1, <1>2, <1>4 DEF RInv, CompleteIn

LEMMA RInvWhole ==
  ASSUME NEW S, RInv(S), NEW r \in Readers, NEW k \in 1 .. Len(out[r]),
         out[r][k].head.id \in S
  PROVE  Whole(out[r][k])
<1> DEFINE rec == out[r][k]
<1>1. CopyOf(rec.start, rec.head, rec.got) /\ Len(rec.got) = rec.head.n
  BY DEF RInv, OutInv
<1>2. rec \in [start : Nat, head : Cell, got : Seq(Cell)]
  <2>1. out[r] \in Seq([start : Nat, head : Cell, got : Seq(Cell)])
    BY DEF RInv, WInv, TypeOK
  <2> QED  BY <2>1, ElementOfSeq
<1>0. rec.head.id \in S
  OBVIOUS
<1> HIDE DEF rec
<1>3. rec.start \in Nat /\ rec.head.n \in Nat /\ Len(file) \in Nat
  <2>1. rec.start \in Nat /\ rec.head \in Cell
    BY <1>2
  <2>2. rec.head.n \in Nat
    BY <2>1 DEF Cell
  <2>3. Len(file) \in Nat
    BY DEF RInv, WInv, TypeOK
  <2> QED  BY <2>1, <2>2, <2>3
<1>4. /\ rec.start + 1 \in 1 .. Len(file)
      /\ file[rec.start + 1] = rec.head
      /\ rec.head.kind = "head" /\ rec.head.type = "D"
  BY <1>1, <1>3 DEF CopyOf, CommittedAt
<1>5. /\ rec.start + 1 + rec.head.n <= Len(file)
      /\ \A j \in 1 .. rec.head.n :
           file[rec.start + 1 + j] = Data(rec.head.id, j)
  BY <1>0, <1>4 DEF RInv, CompleteIn
<1>6. ASSUME NEW i \in 1 .. rec.head.n
      PROVE  CellNow(rec, i) = Data(rec.head.id, i)
  <2>1. rec.got[i] \in {Data(rec.head.id, i), Slice}
    BY <1>1 DEF CopyOf
  <2>2. rec.start + 1 + i <= Len(file)
    BY <1>3, <1>5
  <2>3. Data(rec.head.id, i).kind = "data" /\ Slice.kind = "slice"
    BY DEF Data, Slice
  <2> QED  BY <1>5, <2>1, <2>2, <2>3 DEF CellNow
<1>7. Whole(rec)
  BY <1>1, <1>6 DEF Whole
<1> QED  BY <1>7 DEF rec

LEMMA HeadTypes ==
  ASSUME TypeOK, NEW r \in Readers, NEW k \in 1 .. Len(out[r])
  PROVE  out[r][k].head \in Cell /\ out[r][k].head.id \in Nat
<1>1. out[r][k] \in [start : Nat, head : Cell, got : Seq(Cell)]
  <2>1. out[r] \in Seq([start : Nat, head : Cell, got : Seq(Cell)])
    BY DEF TypeOK
  <2> QED  BY <2>1, ElementOfSeq
<1> QED  BY <1>1 DEF Cell

LEMMA AllComplete ==
  ASSUME NEW f, CompleteRecords(f)
  PROVE  CompleteIn(f, Nat)
BY DEF CompleteRecords, CompleteIn

\* A reader never sees part of a record, a mix of two or bytes of an unfinished
\* one: for all numbers of threads, readers and writes and all faults the model
\* has, provided the records already in the file were complete.
THEOREM ReadersGetWholeRecords ==
  ASSUME \A f \in InitFiles : CompleteRecords(f)
  PROVE  Spec => []DeliveredWhole
<1>1. Init => RInv(Nat)
  BY AllComplete, RInvInit
<1>2. RInv(Nat) /\ [Next]_vars => RInv(Nat)'
  BY RInvNext
<1>3. RInv(Nat) => DeliveredWhole
  BY HeadTypes, RInvWhole DEF RInv, WInv, DeliveredWhole
<1> QED  BY <1>1, <1>2, <1>3, PTL DEF Spec

\* The same of the records of this session, whatever the file held before it: a record that
\* was cut off, or cells in any order, as long as none of them is of this session.
THEOREM SessionAppendsWhole ==
  ASSUME \A f \in InitFiles : \A i \in 1 .. Len(f) : f[i].id = 0
  PROVE  Spec => []SessionRecordsWhole
<1> DEFINE S == Nat \ {0}
<1>1. Init => RInv(S)
  <2>1. \A f \in InitFiles : CompleteIn(f, S)
    BY DEF CompleteIn
  <2> QED  BY <2>1, RInvInit
<1>2. RInv(S) /\ [Next]_vars => RInv(S)'
  BY RInvNext
<1>3. RInv(S) => SessionRecordsWhole
  <2> SUFFICES ASSUME RInv(S), NEW r \in Readers, NEW k \in 1 .. Len(out[r]),
                      out[r][k].head.id > 0
               PROVE  Whole(out[r][k])
    BY DEF SessionRecordsWhole
  <2>1. out[r][k].head.id \in S
    BY HeadTypes DEF RInv, WInv
  <2> HIDE DEF S
  <2> QED  BY <2>1, RInvWhole
<1> HIDE DEF S
<1> QED  BY <1>1, <1>2, <1>3, PTL DEF Spec

-----------------------------------------------------------------------------
(* Where the next committed record can appear.  Only SealHead commits one, at  *)
(* the start of the record being written; everything committed before, and     *)
(* every reader that met no error, is behind that place.                       *)

Behind(p) ==
  /\ p \in 0 .. Len(file)
  /\ \A t \in Threads : wpc[t] = "payload" => p <= cur.start

CommittedBehind ==
  \A i \in 1 .. Len(file) :
    file[i].kind = "head" /\ file[i].type = "D" => Behind(i + file[i].n)

\* What the steps other than BeginWrite do to the record being written.
LEMMA PayloadSteps ==
  ASSUME WInv, [Next]_vars, \A t \in Threads : ~ BeginWrite(t)
  PROVE  /\ cur'.start = cur.start
         /\ \A u \in Threads : wpc'[u] = "payload" => wpc[u] = "payload"
<1>1. /\ cur \in [id : Nat, start : Nat, n : Nat, k : Nat, z : BOOLEAN]
      /\ wpc \in [Threads -> {"idle", "held", "payload", "sealed", "panicked"}]
  BY DEF WInv, TypeOK
<1>2. ASSUME NEW t \in Threads,
             \/ OpenWriter(t) \/ OpenPoisoned(t) \/ DropWriter(t)
             \/ BeginWriteShort(t) \/ SealHead(t)
             \/ EndWrite(t) \/ WriteFails(t) \/ WritePanics(t)
      PROVE  cur' = cur /\ \A u \in Threads : wpc'[u] = "payload" => wpc[u] = "payload"
  <2>1. cur' = cur
    BY <1>2 DEF OpenWriter, OpenPoisoned, DropWriter, BeginWriteShort, SealHead,
                EndWrite, WriteFails, WritePanics
  <2>2. wpc' = wpc \/ \E x \in {"idle", "held", "sealed", "panicked"} :
                         wpc' = [wpc EXCEPT ![t] = x]
    BY <1>2 DEF OpenWriter, OpenPoisoned, DropWriter, BeginWriteShort, SealHead,
                EndWrite, WriteFails, WritePanics
  <2> QED  BY <1>1, <2>1, <2>2
<1>3. ASSUME NEW t \in Threads, WriteChunk(t)
      PROVE  cur'.start = cur.start /\ wpc' = wpc
  BY <1>1, <1>3 DEF WriteChunk
<1>4. CASE Crash
  BY <1>4 DEF Crash
<1>5. CASE UNCHANGED vars
  BY <1>5 DEF vars, writerVars
<1>6. CASE ReaderNext
  BY <1>6, ReaderTypes DEF WInv, writerVars
<1>7. CASE WriterNext
  BY <1>2, <1>3, <1>4, <1>7 DEF WriterNext
<1> QED  BY <1>5, <1>6, <1>7 DEF Next

\* What is behind the record being written stays behind it and later ones.
LEMMA BehindStable ==
  ASSUME WInv, [Next]_vars, NEW p \in Nat, Behind(p)
  PROVE  Behind(p)'
<1>1. WInv' /\ FileStep
  BY WInvNext
<1>2. Len(file) \in Nat /\ Len(file') \in Nat
  BY <1>1 DEF WInv, TypeOK
<1>3. p <= Len(file) /\ p <= Len(file')
  BY <1>1, <1>2 DEF Behind, FileStep
<1>4. ASSUME NEW t \in Threads, BeginWrite(t)
      PROVE  Behind(p)'
  <2>1. cur'.start = Len(file)
    BY <1>4 DEF BeginWrite, SeekEnd
  <2> QED  BY <1>2, <1>3, <2>1 DEF Behind
<1>5. CASE \A t \in Threads : ~ BeginWrite(t)
  <2>1. /\ cur'.start = cur.start
        /\ \A u \in Threads : wpc'[u] = "payload" => wpc[u] = "payload"
    BY <1>5, PayloadSteps
  <2> QED  BY <1>2, <1>3, <2>1 DEF Behind
<1> QED  BY <1>4, <1>5

\* A committed head that was not there before is that of the record being
\* written.
LEMMA OnlySealCommits ==
  ASSUME WInv, [Next]_vars, NEW i \in 1 .. Len(file'),
         file'[i].kind = "head", file'[i].type = "D",
         i \notin 1 .. Len(file) \/ file'[i] # file[i]
  PROVE  \E t \in Threads : SealHead(t) /\ i = cur.start + 1
<1>1. WInv' /\ FileStep
  BY WInvNext
<1>2. /\ file \in Seq(Cell) /\ file' \in Seq(Cell)
      /\ Len(file) \in Nat /\ Len(file') \in Nat
  BY <1>1 DEF WInv, TypeOK
<1>3. ASSUME NEW c, file' = Append(file, c), c.kind # "head" \/ c.type # "D"
      PROVE  FALSE
  BY <1>2, <1>3
<1>4. ASSUME NEW t \in Threads, BeginWrite(t) PROVE FALSE
  <2>1. ReserveHead(attempts + 1) \in Cell
    BY CellTypes DEF WInv, TypeOK
  <2>2. file' = Append(file, ReserveHead(attempts + 1))
    BY <1>2, <1>4, <2>1, WriteAtEnd DEF BeginWrite
  <2>3. ReserveHead(attempts + 1).type # "D"
    BY DEF ReserveHead
  <2> QED  BY <1>3, <2>2, <2>3
<1>5. ASSUME NEW t \in Threads, WriteChunk(t) PROVE FALSE
  <2>1. Data(cur.id, cur.k + 1).kind # "head"
    BY DEF Data
  <2> QED  BY <1>3, <1>5, <2>1 DEF WriteChunk
<1>6. ASSUME NEW t \in Threads, BeginWriteShort(t) PROVE FALSE
  <2>1. Torn(attempts + 1).kind # "head"
    BY DEF Torn
  <2> QED  BY <1>3, <1>6, <2>1 DEF BeginWriteShort
<1>7. file' # file
  OBVIOUS
<1>8. ~ ReaderNext /\ ~ UNCHANGED vars /\ ~ Crash
  BY <1>7, ReaderTypes DEF WInv, Crash, fileVars, vars
<1>9. ASSUME NEW t \in Threads
      PROVE  ~ (\/ OpenWriter(t) \/ OpenPoisoned(t) \/ DropWriter(t)
                \/ EndWrite(t) \/ WriteFails(t) \/ WritePanics(t))
  BY <1>7 DEF OpenWriter, OpenPoisoned, DropWriter, EndWrite, WriteFails,
              WritePanics, fileVars
<1>10. PICK t \in Threads : SealHead(t)
  BY <1>4, <1>5, <1>6, <1>8, <1>9 DEF Next, WriterNext
<1>11. i = cur.start + 1
  BY <1>2, <1>10 DEF SealHead
<1> QED  BY <1>10, <1>11

LEMMA CommittedBehindNext ==
  ASSUME WInv, CommittedBehind, [Next]_vars
  PROVE  CommittedBehind'
<1>1. WInv' /\ FileStep
  BY WInvNext
<1>2. /\ file \in Seq(Cell) /\ file' \in Seq(Cell)
      /\ Len(file) \in Nat /\ Len(file') \in Nat
  BY <1>1 DEF WInv, TypeOK
<1>3. ASSUME NEW i \in 1 .. Len(file), file'[i] = file[i],
             file'[i].kind = "head", file'[i].type = "D"
      PROVE  Behind(i + file[i].n)'
  <2>1. file[i].n \in Nat
    <3>1. file[i] \in Cell
      BY <1>2
    <3> QED  BY <3>1 DEF Cell
  <2>2. PICK m \in Nat : m = i + file[i].n
    BY <2>1
  <2>3. Behind(m)
    BY <1>3, <2>2 DEF CommittedBehind
  <2>4. Behind(m)'
    BY <2>3, BehindStable
  <2>5. m = i + file'[i].n
    BY <1>3, <2>2
  <2> QED  BY <2>4, <2>5 DEF Behind
<1>4. ASSUME NEW i \in 1 .. Len(file'),
             file'[i].kind = "head", file'[i].type = "D",
             i \notin 1 .. Len(file) \/ file'[i] # file[i]
      PROVE  Behind(i + file[i].n)'
  <2>1. PICK t \in Threads : SealHead(t) /\ i = cur.start + 1
    BY <1>4, OnlySealCommits
  <2>2. wpc'[t] = "sealed" /\ cur' = cur
    BY <2>1 DEF SealHead, WInv, TypeOK
  <2>3. /\ cur.start + 1 + cur.n = Len(file')
        /\ file'[cur.start + 1] = DialogHead(cur.id, cur.n, cur.z)
    BY <1>1, <2>2 DEF WInv, WriteInv
  <2>4. i + file'[i].n = Len(file')
    BY <2>1, <2>3 DEF DialogHead
  <2>5. \A u \in Threads : wpc'[u] # "payload"
    BY <1>1, <2>2, OneWriter DEF WInv, LockInv
  <2> QED  BY <1>2, <2>4, <2>5 DEF Behind
<1> QED  BY <1>3, <1>4 DEF CommittedBehind

-----------------------------------------------------------------------------
(* Readers meet no errors.  A reader between two calls of read() stands at a   *)
(* boundary: the end of the file or a head.  The end of the file is one only   *)
(* while no payload is being written, for the next cell is not a head then.    *)

Boundary(p) == Behind(p) /\ (p = Len(file) \/ file[p + 1].kind = "head")

EndsInv ==
  \A i \in 1 .. Len(file) :
    file[i].kind = "head" /\ file[i].type = "D" => Boundary(i + file[i].n)

StandsInv == \A r \in Readers : rpc[r] # "payload" => Boundary(pos[r])

BInv == RInv(Nat) /\ Boundary(0) /\ EndsInv /\ StandsInv /\ ReadersNeverErr

LEMMA BoundaryStable ==
  ASSUME WInv, [Next]_vars, "short" \notin Faults, NEW p \in Nat, Boundary(p)
  PROVE  Boundary(p)'
<1>1. WInv' /\ FileStep /\ Behind(p)'
  BY WInvNext, BehindStable DEF Boundary
<1>2. /\ file \in Seq(Cell) /\ file' \in Seq(Cell)
      /\ Len(file) \in Nat /\ Len(file') \in Nat
  BY <1>1 DEF WInv, TypeOK
<1>3. p <= Len(file) /\ Len(file) <= Len(file')
  BY <1>1, <1>2 DEF Boundary, Behind, FileStep
<1>4. ASSUME p < Len(file)
      PROVE  p < Len(file') /\ file'[p + 1].kind = "head"
  <2>1. p + 1 \in 1 .. Len(file) /\ file[p + 1].kind = "head"
    BY <1>2, <1>4 DEF Boundary
  <2> QED  BY <1>1, <1>2, <1>3, <1>4, <2>1 DEF FileStep
<1>5. CASE p < Len(file)
  BY <1>1, <1>4, <1>5 DEF Boundary
<1>6. CASE p = Len(file)
  <2>1. CASE Len(file') = Len(file)
    BY <1>1, <1>6, <2>1 DEF Boundary
  <2>2. ASSUME NEW t \in Threads, BeginWrite(t)
        PROVE  file'[p + 1].kind = "head"
    <3>1. ReserveHead(attempts + 1) \in Cell
      BY CellTypes DEF WInv, TypeOK
    <3>2. file' = Append(file, ReserveHead(attempts + 1))
      BY <1>2, <2>2, <3>1, WriteAtEnd DEF BeginWrite
    <3> QED  BY <1>2, <1>6, <3>2 DEF ReserveHead
  <2>3. ASSUME NEW t \in Threads, WriteChunk(t)
        PROVE  FALSE
    <3>1. wpc[t] = "payload" /\ cur.start \in Nat /\ cur.k \in Nat
      BY <2>3 DEF WriteChunk, WInv, TypeOK
    <3>2. p <= cur.start /\ Len(file) = cur.start + 1 + cur.k
      BY <3>1 DEF Boundary, Behind, WInv, WriteInv
    <3> QED  BY <1>6, <3>1, <3>2
  <2>4. ASSUME NEW t \in Threads
        PROVE  /\ ~ BeginWriteShort(t)
               /\ (\/ OpenWriter(t) \/ OpenPoisoned(t) \/ DropWriter(t) \/ SealHead(t)
                   \/ EndWrite(t) \/ WriteFails(t) \/ WritePanics(t))
                    => Len(file') = Len(file)
    BY <1>2 DEF BeginWriteShort, OpenWriter, OpenPoisoned, DropWriter, SealHead,
                EndWrite, WriteFails, WritePanics, fileVars
  <2>5. ReaderNext \/ Crash \/ UNCHANGED vars => file' = file
    BY ReaderTypes DEF WInv, Crash, fileVars, vars
  <2> QED  BY <1>1, <2>1, <2>2, <2>3, <2>4, <2>5 DEF Boundary, Next, WriterNext
<1> QED  BY <1>2, <1>3, <1>5, <1>6

LEMMA EndsNext ==
  ASSUME WInv, EndsInv, [Next]_vars, "short" \notin Faults
  PROVE  EndsInv'
<1>1. WInv' /\ FileStep
  BY WInvNext
<1>2. /\ file \in Seq(Cell) /\ file' \in Seq(Cell)
      /\ Len(file) \in Nat /\ Len(file') \in Nat
  BY <1>1 DEF WInv, TypeOK
<1>3. ASSUME NEW i \in 1 .. Len(file), file'[i] = file[i],
             file'[i].kind = "head", file'[i].type = "D"
      PROVE  Boundary(i + file[i].n)'
  <2>1. file[i].n \in Nat
    <3>1. file[i] \in Cell
      BY <1>2
    <3> QED  BY <3>1 DEF Cell
  <2>2. PICK m \in Nat : m = i + file[i].n
    BY <2>1
  <2>3. Boundary(m)
    BY <1>3, <2>2 DEF EndsInv
  <2>4. Boundary(m)'
    BY <2>3, BoundaryStable
  <2>5. m = i + file'[i].n
    BY <1>3, <2>2
  <2> QED  BY <2>4, <2>5 DEF Boundary, Behind
<1>4. ASSUME NEW i \in 1 .. Len(file'),
             file'[i].kind = "head", file'[i].type = "D",
             i \notin 1 .. Len(file) \/ file'[i] # file[i]
      PROVE  Boundary(i + file[i].n)'
  <2>1. PICK t \in Threads : SealHead(t) /\ i = cur.start + 1
    BY <1>4, OnlySealCommits
  <2>2. wpc'[t] = "sealed" /\ cur' = cur
    BY <2>1 DEF SealHead, WInv, TypeOK
  <2>3. /\ cur.start + 1 + cur.n = Len(file')
        /\ file'[cur.start + 1] = DialogHead(cur.id, cur.n, cur.z)
    BY <1>1, <2>2 DEF WInv, WriteInv
  <2>4. i + file'[i].n = Len(file')
    BY <2>1, <2>3 DEF DialogHead
  <2>5. \A u \in Threads : wpc'[u] # "payload"
    BY <1>1, <2>2, OneWriter DEF WInv, LockInv
  <2> QED  BY <1>2, <2>4, <2>5 DEF Boundary, Behind
<1> QED  BY <1>3, <1>4 DEF EndsInv

\* A reader that stands at a boundary, or is inside a committed record, cannot
\* fail, and stands at a boundary again when its read() returns.
LEMMA StandsRead ==
  ASSUME BInv, ReaderNext, "readerr" \notin Faults
  PROVE  StandsInv' /\ ReadersNeverErr'
<1>1. TypeOK /\ TypeOK' /\ UNCHANGED <<fileVars, writerVars>>
  BY ReaderTypes DEF BInv, RInv, WInv
<1>2. /\ file' = file /\ wpc' = wpc /\ cur' = cur
      /\ file \in Seq(Cell) /\ Len(file) \in Nat
      /\ pos \in [Readers -> Nat \cup {Lost}] /\ clean \in [Readers -> BOOLEAN]
      /\ rpc \in [Readers -> {"closed", "idle", "payload"}]
  BY <1>1 DEF fileVars, writerVars, TypeOK
<1>3. PICK r \in Readers : OpenReader(r) \/ ReadNone(r) \/ ReadStep(r) \/ Seek(r)
  BY DEF ReaderNext
<1>4. rpc[r] # "payload" => Boundary(pos[r])
  BY DEF BInv, StandsInv
<1>5. ASSUME NEW p, Boundary(p), pos' = [pos EXCEPT ![r] = p], clean' = clean,
             \A q \in Readers : q # r => rpc'[q] = rpc[q]
      PROVE  StandsInv' /\ ReadersNeverErr'
  <2>1. ASSUME NEW q \in Readers, rpc'[q] # "payload"
        PROVE  Boundary(pos'[q])
    BY <1>2, <1>5, <2>1 DEF BInv, StandsInv
  <2> QED  BY <1>2, <1>5, <2>1 DEF BInv, ReadersNeverErr, StandsInv, Boundary, Behind
<1>6. rpc[r] = "payload" => /\ CopyOf(rstart[r], rhead[r], got[r])
                            /\ Len(got[r]) <= rhead[r].n
  <2>1. rhead[r] \in Cell
    BY <1>1 DEF TypeOK
  <2>2. rhead[r].id \in Nat
    BY <2>1 DEF Cell
  <2> QED  BY <2>2 DEF BInv, RInv, ReadingInv
<1>7. rstart[r] \in Nat /\ rhead[r].n \in Nat /\ Len(got[r]) \in Nat
  <2>1. rhead[r] \in Cell
    BY <1>1 DEF TypeOK
  <2>2. rhead[r].n \in Nat
    BY <2>1 DEF Cell
  <2> QED  BY <1>1, <2>2 DEF TypeOK
<1>8. rpc[r] = "payload" =>
        /\ rstart[r] + 1 \in 1 .. Len(file) /\ file[rstart[r] + 1] = rhead[r]
        /\ rhead[r].kind = "head" /\ rhead[r].type = "D"
  BY <1>2, <1>6, <1>7 DEF CopyOf, CommittedAt
<1>9. CASE OpenReader(r) \/ ReadNone(r)
  <2>1. /\ pos' = pos /\ clean' = clean
        /\ \A q \in Readers : rpc'[q] # "payload" => rpc[q] # "payload"
    BY <1>2, <1>9 DEF OpenReader, ReadNone, vars, readerVars
  <2> QED  BY <1>2, <2>1 DEF BInv, StandsInv, ReadersNeverErr, Boundary, Behind
<1>10. CASE ReadReserved(r)
  BY <1>4, <1>5, <1>10 DEF ReadReserved, AtHead, SeekBack
<1>11. CASE ReadHead(r)
  <2>1. /\ rpc'[r] = "payload" /\ clean' = clean
        /\ \A q \in Readers : q # r => rpc'[q] = rpc[q] /\ pos'[q] = pos[q]
    BY <1>2, <1>11 DEF ReadHead
  <2> QED  BY <1>2, <2>1 DEF BInv, StandsInv, ReadersNeverErr, Boundary, Behind
<1>12. CASE ReadBadHead(r)
  BY <1>2, <1>4, <1>12 DEF ReadBadHead, Boundary, Behind
<1>13. CASE ReadLost(r)
  <2>1. pos[r] \in Nat
    BY <1>2, <1>4, <1>13 DEF ReadLost, Boundary, Behind
  <2> QED  BY <1>13, <2>1 DEF ReadLost, Lost
<1>14. CASE ReadCell(r) \/ SliceCell(r)
  <2>1. /\ rpc' = rpc /\ rpc[r] = "payload" /\ clean' = clean
        /\ \A q \in Readers : q # r => pos'[q] = pos[q]
    BY <1>2, <1>14 DEF ReadCell, SliceCell, PayloadLeft, Advance
  <2> QED  BY <1>2, <2>1 DEF BInv, StandsInv, ReadersNeverErr, Boundary, Behind
<1>15. CASE ReadEof(r)
  <2>1. rpc[r] = "payload" /\ Len(got[r]) < rhead[r].n /\ Cursor(r) >= Len(file)
    BY <1>15 DEF ReadEof, PayloadLeft
  <2>2. rstart[r] + 1 + rhead[r].n <= Len(file)
    <3>1. rhead[r] \in Cell
      BY <1>1 DEF TypeOK
    <3>2. rhead[r].id \in Nat
      BY <3>1 DEF Cell
    <3> QED  BY <1>8, <2>1, <3>2 DEF BInv, RInv, CompleteIn
  <2> QED  BY <1>2, <1>7, <2>1, <2>2 DEF Cursor
<1>16. CASE ReadDone(r)
  <2>1. Boundary(rstart[r] + 1 + rhead[r].n)
    BY <1>8, <1>16 DEF ReadDone, BInv, EndsInv
  <2>2. /\ pos' = [pos EXCEPT ![r] = rstart[r] + 1 + rhead[r].n] /\ clean' = clean
        /\ \A q \in Readers : q # r => rpc'[q] = rpc[q]
    BY <1>2, <1>16 DEF ReadDone
  <2> QED  BY <1>5, <2>1, <2>2
<1>17. CASE Seek(r)
  <2>1. PICK p \in {0} \cup {w.start : w \in returned} :
               pos' = [pos EXCEPT ![r] = p]
    BY <1>17 DEF Seek
  <2>2. ASSUME NEW w \in returned PROVE Boundary(w.start)
    <3>1. w.start \in Nat /\ CommittedAt(w.start)
      BY <1>1 DEF TypeOK, BInv, RInv, WInv, ReturnedOffsetsGood
    <3>2. /\ w.start + 1 \in 1 .. Len(file)
          /\ file[w.start + 1].kind = "head" /\ file[w.start + 1].type = "D"
      BY <1>2, <3>1 DEF CommittedAt
    <3>3. Boundary(w.start + 1 + file[w.start + 1].n)
      BY <3>2 DEF BInv, EndsInv
    <3>4. file[w.start + 1] \in Cell
      BY <1>2, <3>2
    <3>5. file[w.start + 1].n \in Nat
      BY <3>4 DEF Cell
    <3>6. ASSUME NEW t \in Threads, wpc[t] = "payload" PROVE w.start <= cur.start
      <4>1. w.start + 1 + file[w.start + 1].n <= cur.start
        BY <3>3, <3>6 DEF Boundary, Behind
      <4>2. cur.start \in Nat
        BY <1>1 DEF TypeOK
      <4> QED  BY <3>1, <3>5, <4>1, <4>2
    <3> QED  BY <1>2, <3>1, <3>2, <3>6 DEF Boundary, Behind
  <2>3. Boundary(p)
    BY <2>2 DEF BInv
  <2>4. rpc' = rpc /\ clean' = [clean EXCEPT ![r] = TRUE]
    BY <1>17 DEF Seek
  <2>5. clean' = clean
    BY <1>2, <2>4 DEF BInv, ReadersNeverErr
  <2> QED  BY <1>5, <2>1, <2>3, <2>4, <2>5
<1>18. ~ ReadFails(r)
  BY DEF ReadFails
<1> QED
  BY <1>3, <1>9, <1>10, <1>11, <1>12, <1>13, <1>14, <1>15, <1>16, <1>17,
     <1>18 DEF ReadStep

LEMMA BInvInit ==
  ASSUME \A f \in InitFiles : CompleteRecords(f) /\ AlignedRecords(f)
  PROVE  Init => BInv
<1> SUFFICES ASSUME Init PROVE BInv
  OBVIOUS
<1>1. RInv(Nat)
  BY AllComplete, RInvInit
<1>2. /\ file \in Seq(Cell) /\ Len(file) \in Nat
      /\ CompleteRecords(file) /\ AlignedRecords(file)
      /\ \A t \in Threads : wpc[t] # "payload"
  BY <1>1 DEF Init, RInv, WInv, TypeOK
<1>3. Boundary(0)
  BY <1>2 DEF Boundary, Behind, AlignedRecords
<1>4. EndsInv
  <2> SUFFICES ASSUME NEW i \in 1 .. Len(file),
                      file[i].kind = "head", file[i].type = "D"
               PROVE  Boundary(i + file[i].n)
    BY DEF EndsInv
  <2>1. file[i] \in Cell
    BY <1>2
  <2>2. file[i].n \in Nat
    BY <2>1 DEF Cell
  <2>3. /\ i + file[i].n <= Len(file)
        /\ i + file[i].n = Len(file) \/ file[i + file[i].n + 1].kind = "head"
    BY <1>2 DEF CompleteRecords, AlignedRecords
  <2> QED  BY <1>2, <2>2, <2>3 DEF Boundary, Behind
<1>5. StandsInv
  BY <1>3 DEF Init, StandsInv
<1>6. ReadersNeverErr
  BY DEF Init, ReadersNeverErr
<1> QED  BY <1>1, <1>3, <1>4, <1>5, <1>6 DEF BInv

LEMMA BInvNext ==
  ASSUME BInv, [Next]_vars, "short" \notin Faults, "readerr" \notin Faults
  PROVE  BInv'
<1>1. RInv(Nat)'
  BY RInvNext DEF BInv
<1>2. Boundary(0)'
  BY BoundaryStable DEF BInv, RInv
<1>3. EndsInv'
  BY EndsNext DEF BInv, RInv
<1>4. StandsInv' /\ ReadersNeverErr'
  <2>1. CASE ReaderNext
    BY <2>1, StandsRead
  <2>2. CASE WriterNext \/ UNCHANGED vars
    <3>1. UNCHANGED readerVars
      BY <2>2 DEF WriterNext, OpenWriter, OpenPoisoned, DropWriter, BeginWrite,
                  BeginWriteShort, WriteChunk, SealHead, EndWrite, WriteFails,
                  WritePanics, Crash, vars
    <3>2. rpc' = rpc /\ pos' = pos /\ clean' = clean
      BY <3>1 DEF readerVars
    <3>3. ASSUME NEW r \in Readers, rpc[r] # "payload"
          PROVE  Boundary(pos[r])'
      <4>1. Boundary(pos[r])
        BY <3>3 DEF BInv, StandsInv
      <4>2. PICK p \in Nat : p = pos[r]
        BY <4>1 DEF Boundary, Behind
      <4>3. Boundary(p)'
        BY <4>1, <4>2, BoundaryStable DEF BInv, RInv
      <4> QED  BY <3>2, <4>2, <4>3 DEF Boundary, Behind
    <3> QED  BY <3>2, <3>3 DEF BInv, StandsInv, ReadersNeverErr
  <2> QED  BY <2>1, <2>2 DEF Next
<1> QED  BY <1>1, <1>2, <1>3, <1>4 DEF BInv

\* "Single-writer sessions are guaranteed safe with N concurrent readers": for
\* any N, any number of writes, and also after writes that failed, panicked or
\* died with the process, read() never returns Err.  Only a head that could not
\* be written in full ("short") and the reader's own failures ("readerr") are
\* excepted.
THEOREM ReadersMeetNoError ==
  ASSUME \A f \in InitFiles : CompleteRecords(f) /\ AlignedRecords(f),
         "short" \notin Faults, "readerr" \notin Faults
  PROVE  Spec => []ReadersNeverErr
<1>1. Init => BInv
  BY BInvInit
<1>2. BInv /\ [Next]_vars => BInv'
  BY BInvNext
<1>3. BInv => ReadersNeverErr
  BY DEF BInv
<1> QED  BY <1>1, <1>2, <1>3, PTL DEF Spec

-----------------------------------------------------------------------------
(* Readers pass over no record.  A record can appear behind a reader only at   *)
(* the start of the record being written, and no reader without an error is    *)
(* beyond that place, for it only ever moves to the end of a committed record. *)

\* Where the call of read() in progress, or the next one, begins.
Place(r) == IF rpc[r] = "payload" THEN rstart[r] ELSE pos[r]

\* Reader r was given all committed records from where it began up to p.
GivenUpTo(r, p) ==
  \A q \in from[r] .. p - 1 :
    CommittedAt(q) => \E j \in 1 .. Len(out[r]) : out[r][j].start = q

PlaceInv ==
  \A r \in Readers :
    clean[r] => Behind(Place(r)) /\ GivenUpTo(r, Place(r))

SInv == RInv(Nat) /\ Behind(0) /\ CommittedBehind /\ PlaceInv

\* The writers commit nothing between a reader's beginning and its place.
LEMMA PlaceWriter ==
  ASSUME WInv, PlaceInv, [Next]_vars, UNCHANGED readerVars
  PROVE  PlaceInv'
<1>1. WInv' /\ FileStep
  BY WInvNext
<1>2. /\ file \in Seq(Cell) /\ file' \in Seq(Cell)
      /\ Len(file) \in Nat /\ Len(file') \in Nat
  BY <1>1 DEF WInv, TypeOK
<1>3. /\ rpc' = rpc /\ pos' = pos /\ rstart' = rstart /\ clean' = clean
      /\ from' = from /\ out' = out
  BY DEF readerVars
<1> SUFFICES ASSUME NEW r \in Readers, clean[r]
             PROVE  Behind(Place(r))' /\ GivenUpTo(r, Place(r))'
  BY <1>3 DEF PlaceInv
<1>4. Behind(Place(r)) /\ GivenUpTo(r, Place(r))
  BY DEF PlaceInv
<1>5. PICK p \in Nat : p = Place(r)
  BY <1>2, <1>4 DEF Behind
<1>6. Place(r)' = p
  BY <1>3, <1>5 DEF Place
<1>7. Behind(p) /\ Behind(p)'
  BY <1>4, <1>5, BehindStable
<1>8. from[r] \in Nat
  BY DEF WInv, TypeOK
<1>9. ASSUME NEW q \in from[r] .. p - 1, CommittedAt(q)'
      PROVE  CommittedAt(q)
  <2>1. /\ q \in Nat /\ q < p /\ p <= Len(file)
        /\ q + 1 \in 1 .. Len(file) /\ q + 1 \in 1 .. Len(file')
        /\ file'[q + 1].kind = "head" /\ file'[q + 1].type = "D"
    BY <1>2, <1>7, <1>8, <1>9 DEF Behind, CommittedAt
  <2>2. file'[q + 1] = file[q + 1]
    <3> SUFFICES ASSUME file'[q + 1] # file[q + 1] PROVE FALSE
      OBVIOUS
    <3>1. PICK t \in Threads : SealHead(t) /\ q + 1 = cur.start + 1
      BY <2>1, OnlySealCommits
    <3>2. cur.start \in Nat
      BY DEF WInv, TypeOK
    <3>3. p <= cur.start
      BY <1>7, <3>1 DEF SealHead, Behind
    <3> QED  BY <2>1, <3>1, <3>2, <3>3
  <2> QED  BY <2>1, <2>2 DEF CommittedAt
<1>10. GivenUpTo(r, p)'
  BY <1>3, <1>4, <1>5, <1>9 DEF GivenUpTo
<1>11. GivenUpTo(r, Place(r))'
  BY <1>6, <1>10 DEF GivenUpTo
<1> QED  BY <1>6, <1>7, <1>11 DEF Behind

\* A step of a reader moves its place only past the record it returns, or to
\* where it begins anew.
LEMMA PlaceReader ==
  ASSUME SInv, ReaderNext
  PROVE  PlaceInv'
<1>1. TypeOK /\ TypeOK' /\ UNCHANGED <<fileVars, writerVars>>
  BY ReaderTypes DEF SInv, RInv, WInv
<1>2. /\ file' = file /\ wpc' = wpc /\ cur' = cur
      /\ file \in Seq(Cell) /\ Len(file) \in Nat
  BY <1>1 DEF fileVars, writerVars, TypeOK
<1>3. /\ pos \in [Readers -> Nat \cup {Lost}] /\ clean \in [Readers -> BOOLEAN]
      /\ rpc \in [Readers -> {"closed", "idle", "payload"}]
      /\ rstart \in [Readers -> Nat] /\ from \in [Readers -> Nat]
  BY <1>1 DEF TypeOK
<1>4. PICK r \in Readers : OpenReader(r) \/ ReadNone(r) \/ ReadStep(r) \/ Seek(r)
  BY DEF ReaderNext
<1>5. ASSUME NEW q \in Readers, q # r
      PROVE  /\ Place(q)' = Place(q) /\ clean'[q] = clean[q]
             /\ from'[q] = from[q] /\ out'[q] = out[q]
  <2> USE <1>3, <1>5 DEF Place
  <2>1. CASE OpenReader(r) \/ ReadNone(r) \/ ReadReserved(r)
    BY <2>1 DEF OpenReader, ReadNone, ReadReserved, vars, readerVars
  <2>2. CASE ReadHead(r)
    BY <2>2 DEF ReadHead
  <2>3. CASE ReadBadHead(r) \/ ReadLost(r) \/ ReadEof(r) \/ ReadFails(r)
    BY <2>3 DEF ReadBadHead, ReadLost, ReadEof, ReadFails
  <2>4. CASE ReadCell(r) \/ SliceCell(r)
    BY <2>4 DEF ReadCell, SliceCell, Advance
  <2>5. CASE ReadDone(r)
    <3>1. out'[q] = out[q]
      BY <1>1, <2>5 DEF ReadDone, TypeOK
    <3> QED  BY <2>5, <3>1 DEF ReadDone
  <2>6. CASE Seek(r)
    <3>1. out'[q] = out[q]
      BY <2>6, <1>1 DEF Seek, TypeOK
    <3> QED  BY <2>6, <3>1 DEF Seek
  <2> QED  BY <1>4, <2>1, <2>2, <2>3, <2>4, <2>5, <2>6 DEF ReadStep
<1>6. ASSUME Place(r)' = Place(r), from'[r] = from[r], out'[r] = out[r],
             clean'[r] => clean[r]
      PROVE  clean'[r] => Behind(Place(r))' /\ GivenUpTo(r, Place(r))'
  <2> SUFFICES ASSUME clean'[r]
               PROVE  Behind(Place(r))' /\ GivenUpTo(r, Place(r))'
    OBVIOUS
  <2>1. PICK p : p = Place(r)
    OBVIOUS
  <2>2. Place(r)' = p
    BY <1>6, <2>1
  <2>3. Behind(p) /\ GivenUpTo(r, p)
    BY <1>6, <2>1 DEF SInv, PlaceInv
  <2>4. Behind(p)'
    BY <1>2, <2>3 DEF Behind
  <2>5. GivenUpTo(r, p)'
    BY <1>2, <1>6, <2>3 DEF GivenUpTo, CommittedAt
  <2>6. Behind(Place(r))'
    BY <2>2, <2>4 DEF Behind
  <2>7. GivenUpTo(r, Place(r))'
    BY <2>2, <2>5 DEF GivenUpTo
  <2> QED  BY <2>6, <2>7
<1>7. clean'[r] => Behind(Place(r))' /\ GivenUpTo(r, Place(r))'
  <2>1. CASE OpenReader(r) \/ ReadNone(r) \/ ReadReserved(r)
    BY <1>3, <1>6, <2>1
       DEF OpenReader, ReadNone, ReadReserved, SeekBack, Place, vars, readerVars,
           AtHead
  <2>2. CASE ReadHead(r)
    BY <1>3, <1>6, <2>2 DEF ReadHead, Place, AtHead
  <2>3. CASE ReadLost(r) \/ ReadEof(r) \/ ReadFails(r)
    BY <1>3, <2>3 DEF ReadLost, ReadEof, ReadFails
  <2>4. CASE ReadBadHead(r)
    BY <1>3, <1>6, <2>4 DEF ReadBadHead, Place
  <2>5. CASE ReadCell(r) \/ SliceCell(r)
    BY <1>3, <1>6, <2>5 DEF ReadCell, SliceCell, PayloadLeft, Place
  <2>6. CASE ReadDone(r)
    <3> DEFINE s == rstart[r]
               n == rhead[r].n
               rec == [start |-> rstart[r], head |-> rhead[r], got |-> got[r]]
    <3>1. /\ rpc[r] = "payload" /\ rpc'[r] = "idle"
          /\ pos'[r] = s + 1 + n /\ clean' = clean /\ from' = from
      BY <1>3, <2>6 DEF ReadDone
    <3>2. rhead[r] \in Cell
      BY <1>1 DEF TypeOK
    <3>3. rhead[r].id \in Nat /\ n \in Nat /\ s \in Nat /\ from[r] \in Nat
      BY <1>3, <3>2 DEF Cell
    <3>4. CommittedAt(s) /\ file[s + 1] = rhead[r]
      BY <3>1, <3>3 DEF SInv, RInv, ReadingInv, CopyOf
    <3>5. /\ s + 1 \in 1 .. Len(file)
          /\ file[s + 1].kind = "head" /\ file[s + 1].type = "D"
          /\ file[s + 1].n = n /\ file[s + 1].id \in Nat
      BY <1>2, <3>3, <3>4 DEF CommittedAt
    <3>6. Behind(s + 1 + n)
      BY <3>5 DEF SInv, CommittedBehind
    <3>7. \A j \in 1 .. n : file[s + 1 + j].kind # "head"
      <4>1. \A j \in 1 .. n : file[s + 1 + j] = Data(file[s + 1].id, j)
        BY <3>5 DEF SInv, RInv, CompleteIn
      <4>2. \A w, j : Data(w, j).kind # "head"
        BY DEF Data
      <4> QED  BY <4>1, <4>2
    <3>8. Place(r)' = s + 1 + n
      BY <3>1 DEF Place
    <3>9. /\ Len(out[r]) \in Nat
          /\ Len(out'[r]) = Len(out[r]) + 1
          /\ \A j \in 1 .. Len(out[r]) : out'[r][j] = out[r][j]
          /\ out'[r][Len(out[r]) + 1].start = s
      <4> DEFINE Rec == [start : Nat, head : Cell, got : Seq(Cell)]
      <4>1. out \in [Readers -> Seq(Rec)]
        BY <1>1 DEF TypeOK
      <4>2. out' = [out EXCEPT ![r] = Append(out[r], rec)]
        BY <2>6 DEF ReadDone
      <4> HIDE DEF Rec
      <4>3. out'[r] = Append(out[r], rec) /\ out[r] \in Seq(Rec)
        BY <4>1, <4>2
      <4>4. rec.start = s
        OBVIOUS
      <4> HIDE DEF rec
      <4> QED  BY <4>3, <4>4
    <3>10. ASSUME clean[r], NEW q \in from[r] .. s + n, CommittedAt(q)
           PROVE  \E j \in 1 .. Len(out'[r]) : out'[r][j].start = q
      <4>1. CASE q < s
        <5>1. GivenUpTo(r, s)
          BY <3>1, <3>10 DEF SInv, PlaceInv, Place
        <5>2. PICK j \in 1 .. Len(out[r]) : out[r][j].start = q
          BY <3>3, <3>10, <4>1, <5>1 DEF GivenUpTo
        <5> QED  BY <3>9, <5>2
      <4>2. CASE q = s
        BY <3>9, <4>2
      <4>3. CASE q > s
        <5>1. q - s \in 1 .. n /\ q + 1 = s + 1 + (q - s)
          BY <3>3, <4>3
        <5>2. file[q + 1].kind # "head"
          BY <3>7, <5>1
        <5> QED  BY <3>10, <5>2 DEF CommittedAt
      <4> QED  BY <3>3, <4>1, <4>2, <4>3
    <3>11. clean[r] => GivenUpTo(r, Place(r))'
      <4>1. \A q : CommittedAt(q)' <=> CommittedAt(q)
        BY <1>2 DEF CommittedAt
      <4>2. Place(r)' - 1 = s + n
        BY <3>3, <3>8
      <4> QED  BY <3>1, <3>10, <4>1, <4>2 DEF GivenUpTo
    <3> QED  BY <1>2, <3>1, <3>6, <3>8, <3>11 DEF Behind
  <2>7. CASE Seek(r)
    <3>1. PICK p \in {0} \cup {w.start : w \in returned} :
                 pos' = [pos EXCEPT ![r] = p] /\ from' = [from EXCEPT ![r] = p]
      BY <2>7 DEF Seek
    <3>2. ASSUME NEW w \in returned PROVE Behind(w.start)
      <4>1. w.start \in Nat /\ CommittedAt(w.start)
        BY <1>1 DEF TypeOK, SInv, RInv, WInv, ReturnedOffsetsGood
      <4>2. /\ w.start + 1 \in 1 .. Len(file)
            /\ file[w.start + 1].kind = "head" /\ file[w.start + 1].type = "D"
        BY <1>2, <4>1 DEF CommittedAt
      <4>3. Behind(w.start + 1 + file[w.start + 1].n)
        BY <4>2 DEF SInv, CommittedBehind
      <4>4. file[w.start + 1] \in Cell
        BY <1>2, <4>2
      <4>5. file[w.start + 1].n \in Nat
        BY <4>4 DEF Cell
      <4>6. ASSUME NEW t \in Threads, wpc[t] = "payload" PROVE w.start <= cur.start
        <5>1. w.start + 1 + file[w.start + 1].n <= cur.start
          BY <4>3, <4>6 DEF Behind
        <5>2. cur.start \in Nat
          BY <1>1 DEF TypeOK
        <5> QED  BY <4>1, <4>5, <5>1, <5>2
      <4> QED  BY <1>2, <4>1, <4>2, <4>6 DEF Behind
    <3>3. Behind(p)
      BY <3>2 DEF SInv
    <3>4. p \in Nat
      BY <1>2, <3>3 DEF Behind
    <3>5. rpc'[r] = "idle"
      BY <2>7 DEF Seek
    <3>6. Place(r)' = p /\ from'[r] = p
      BY <1>3, <3>1, <3>5 DEF Place
    <3>7. from'[r] .. Place(r)' - 1 = {}
      BY <3>4, <3>6
    <3> QED  BY <1>2, <3>3, <3>6, <3>7 DEF Behind, GivenUpTo
  <2> QED  BY <1>4, <2>1, <2>2, <2>3, <2>4, <2>5, <2>6, <2>7 DEF ReadStep
<1>8. ASSUME NEW q \in Readers, q # r, clean'[q]
      PROVE  Behind(Place(q))' /\ GivenUpTo(q, Place(q))'
  <2>1. /\ Place(q)' = Place(q) /\ clean[q]
        /\ from'[q] = from[q] /\ out'[q] = out[q]
    BY <1>5, <1>8
  <2>2. Behind(Place(q)) /\ GivenUpTo(q, Place(q))
    BY <2>1 DEF SInv, PlaceInv
  <2>3. Behind(Place(q))'
    BY <1>2, <2>1, <2>2 DEF Behind
  <2>4. \A p : CommittedAt(p)' <=> CommittedAt(p)
    BY <1>2 DEF CommittedAt
  <2>5. GivenUpTo(q, Place(q))'
    BY <2>1, <2>2, <2>4 DEF GivenUpTo
  <2> QED  BY <2>3, <2>5
<1> QED  BY <1>7, <1>8 DEF PlaceInv

LEMMA SInvInit ==
  ASSUME \A f \in InitFiles : CompleteRecords(f)
  PROVE  Init => SInv
<1> SUFFICES ASSUME Init PROVE SInv
  OBVIOUS
<1>1. RInv(Nat)
  BY AllComplete, RInvInit
<1>2. /\ file \in Seq(Cell) /\ Len(file) \in Nat /\ CompleteRecords(file)
      /\ \A t \in Threads : wpc[t] # "payload"
  BY <1>1 DEF Init, RInv, WInv, TypeOK
<1>3. Behind(0)
  BY <1>2 DEF Behind
<1>4. CommittedBehind
  <2> SUFFICES ASSUME NEW i \in 1 .. Len(file),
                      file[i].kind = "head", file[i].type = "D"
               PROVE  Behind(i + file[i].n)
    BY DEF CommittedBehind
  <2>1. file[i] \in Cell
    BY <1>2
  <2>2. file[i].n \in Nat
    BY <2>1 DEF Cell
  <2>3. i + file[i].n <= Len(file)
    BY <1>2 DEF CompleteRecords
  <2> QED  BY <1>2, <2>2, <2>3 DEF Behind
<1>5. PlaceInv
  <2>1. \A r \in Readers : Place(r) = 0 /\ from[r] = 0
    BY DEF Init, Place
  <2>2. \A r \in Readers : from[r] .. Place(r) - 1 = {}
    BY <2>1
  <2> QED  BY <1>3, <2>1, <2>2 DEF PlaceInv, GivenUpTo
<1> QED  BY <1>1, <1>3, <1>4, <1>5 DEF SInv

LEMMA SInvNext ==
  ASSUME SInv, [Next]_vars
  PROVE  SInv'
<1>1. RInv(Nat)'
  BY RInvNext DEF SInv
<1>2. Behind(0)' /\ CommittedBehind'
  BY BehindStable, CommittedBehindNext DEF SInv, RInv
<1>3. PlaceInv'
  <2>1. CASE ReaderNext
    BY <2>1, PlaceReader
  <2>2. CASE WriterNext \/ UNCHANGED vars
    <3>1. UNCHANGED readerVars
      BY <2>2 DEF WriterNext, OpenWriter, OpenPoisoned, DropWriter, BeginWrite,
                  BeginWriteShort, WriteChunk, SealHead, EndWrite, WriteFails,
                  WritePanics, Crash, vars
    <3> QED  BY <3>1, PlaceWriter DEF SInv, RInv
  <2> QED  BY <2>1, <2>2 DEF Next
<1> QED  BY <1>1, <1>2, <1>3 DEF SInv

\* No reader passes over a committed record: whatever the writer is doing, and
\* whatever writes failed, panicked, stopped short or died with the process, a
\* reader that got no error since it began has been given every record between
\* there and its position.  A record that is committed later appears ahead of it.
THEOREM NothingSkipped ==
  ASSUME \A f \in InitFiles : CompleteRecords(f)
  PROVE  Spec => []NoRecordSkipped
<1>1. Init => SInv
  BY SInvInit
<1>2. SInv /\ [Next]_vars => SInv'
  BY SInvNext
<1>3. SInv => NoRecordSkipped
  BY DEF SInv, PlaceInv, NoRecordSkipped, GivenUpTo, Place
<1> QED  BY <1>1, <1>2, <1>3, PTL DEF Spec

=============================================================================
