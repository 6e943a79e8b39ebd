------------------------------ MODULE BarcFile ------------------------------
(***************************************************************************)
(* A BARC file shared by one writing session and N readers                 *)
(* (barc/src/lib.rs: BarcFile, BarcWriter, BarcReader).                    *)
(*                                                                         *)
(* The file is a sequence of cells: a record head is one cell and the      *)
(* payload of a record (meta, request and response blocks) is n data       *)
(* cells, so an offset is the number of cells before it.  A write appends  *)
(* a Reserved head, then the payload piece by piece, and last overwrites   *)
(* the head in place.  Each step that touches the file is one system call  *)
(* and is atomic; steps of the writer and of the readers interleave freely.*)
(* The "id" of a cell is the write attempt that produced it: it stands for *)
(* the bytes of that record.                                               *)
(***************************************************************************)
EXTENDS Integers, Sequences, FiniteSets

CONSTANTS
  Threads,    \* threads of the writing process, sharing one BarcFile
  Readers,    \* BarcReader instances, in or out of that process
  NoOne,      \* "the write lock is free"
  MaxWrites,  \* bound: number of write attempts
  MaxLen,     \* bound: payload cells of a record
  InitFiles,  \* possible contents of the file before the session
  Faults      \* subset of {"io", "short", "panic", "crash", "readerr"}

\* A cell of the file; n is the length in a head and the place in the payload
\* in a data cell, z tells compressed from plain.
Cell == [kind : {"head", "data", "torn", "slice"}, type : {"R", "D", "-"},
         id : Nat, n : Nat, z : BOOLEAN]

ASSUME BarcAssumption ==
  /\ NoOne \notin Threads
  /\ MaxWrites \in Nat
  /\ MaxLen \in Nat
  /\ InitFiles \subseteq Seq(Cell)
  /\ Faults \subseteq {"io", "short", "panic", "crash", "readerr"}

VARIABLES
  file,      \* the bytes of the file, as cells
  exists,    \* the file was created
  handle,    \* write_lock holds Some(File)
  owner,     \* holder of write_lock (NoOne, or a thread with a BarcWriter)
  poisoned,  \* write_lock was poisoned by a panic
  wpc,       \* where each writer thread stands
  cur,       \* the write attempt in progress
  attempts,  \* write attempts so far
  returned,  \* the writes that returned Ok(start), with what they were to write
  rpc,       \* where each reader stands
  pos,       \* reader's file position (ReadPos), or Lost
  rstart,    \* offset at which the reader's current read() began; for a reader
             \* that is Lost, one before its position
  rhead,     \* the record head that this read() parsed
  got,       \* payload cells this read() has collected
  out,       \* records returned since the last seek()
  from,      \* where the reader was opened or last sought to
  clean      \* no read() returned Err since the last seek()

fileVars   == <<file, exists>>
writerVars == <<handle, owner, poisoned, wpc, cur, attempts, returned>>
readerVars == <<rpc, pos, rstart, rhead, got, out, from, clean>>
vars       == <<fileVars, writerVars, readerVars>>

-----------------------------------------------------------------------------
(* Cells *)

\* The reserved head has length 0 and no compression, whatever follows it.
ReserveHead(w) == [kind |-> "head", type |-> "R", id |-> w, n |-> 0, z |-> FALSE]
DialogHead(w, n, z) == [kind |-> "head", type |-> "D", id |-> w, n |-> n, z |-> z]
Data(w, i) == [kind |-> "data", type |-> "-", id |-> w, n |-> i, z |-> FALSE]
Torn(w) == [kind |-> "torn", type |-> "-", id |-> w, n |-> 0, z |-> FALSE]
\* A body cell left in the file: slice_body returns a ReadSlice over it.
Slice == [kind |-> "slice", type |-> "-", id |-> 0, n |-> 0, z |-> FALSE]

\* A position that is not a cell boundary.
Lost == -1

\* The head found at offset p is a committed record head.
CommittedAt(p) ==
  /\ p \in 0 .. Len(file) - 1
  /\ file[p + 1].kind = "head"
  /\ file[p + 1].type = "D"

NoWrite == [id |-> 0, start |-> 0, n |-> 0, k |-> 0, z |-> FALSE]

-----------------------------------------------------------------------------
Init ==
  /\ file \in InitFiles
  /\ exists = (file # << >>)
  /\ handle = FALSE
  /\ owner = NoOne
  /\ poisoned = FALSE
  /\ wpc = [t \in Threads |-> "idle"]
  /\ cur = NoWrite
  /\ attempts = 0
  /\ returned = {}
  /\ rpc = [r \in Readers |-> "closed"]
  /\ pos = [r \in Readers |-> 0]
  /\ rstart = [r \in Readers |-> 0]
  /\ rhead = [r \in Readers |-> ReserveHead(0)]
  /\ got = [r \in Readers |-> << >>]
  /\ out = [r \in Readers |-> << >>]
  /\ from = [r \in Readers |-> 0]
  /\ clean = [r \in Readers |-> TRUE]

-----------------------------------------------------------------------------
(* Writer *)

\* BarcFile::writer: take the lock, open (and create) the file the first time.
\* A failed open drops the guard again and changes nothing.
OpenWriter(t) ==
  /\ wpc[t] = "idle"
  /\ owner = NoOne
  /\ ~ poisoned
  /\ owner' = t
  /\ handle' = TRUE
  /\ exists' = TRUE
  /\ wpc' = [wpc EXCEPT ![t] = "held"]
  /\ UNCHANGED <<file, poisoned, cur, attempts, returned, readerVars>>

\* lock().unwrap() on a poisoned mutex panics in the calling thread.
OpenPoisoned(t) ==
  /\ wpc[t] = "idle"
  /\ owner = NoOne
  /\ poisoned
  /\ wpc' = [wpc EXCEPT ![t] = "panicked"]
  /\ UNCHANGED <<fileVars, handle, owner, poisoned, cur, attempts, returned,
                 readerVars>>

\* The BarcWriter, and with it the mutex guard, is dropped.
DropWriter(t) ==
  /\ wpc[t] = "held"
  /\ owner' = NoOne
  /\ wpc' = [wpc EXCEPT ![t] = "idle"]
  /\ UNCHANGED <<fileVars, handle, poisoned, cur, attempts, returned, readerVars>>

\* Mutant: write at the start of the previous attempt instead of the end.
StartAtPrevious == cur.start

\* file.seek(SeekFrom::End(0))
SeekEnd == Len(file)

\* The bytes a write at offset p leaves in the file.
WriteAt(p, cell) ==
  [i \in 1 .. (IF p + 1 > Len(file) THEN p + 1 ELSE Len(file)) |->
     IF i = p + 1 THEN cell ELSE file[i]]

\* BarcWriter::write up to and including the reserved head.
BeginWrite(t) ==
  /\ wpc[t] = "held"
  /\ attempts < MaxWrites
  /\ \E n \in 0 .. MaxLen, z \in BOOLEAN :
       cur' = [id |-> attempts + 1, start |-> SeekEnd, n |-> n, k |-> 0, z |-> z]
  /\ file' = WriteAt(SeekEnd, ReserveHead(attempts + 1))
  /\ attempts' = attempts + 1
  /\ wpc' = [wpc EXCEPT ![t] = "payload"]
  /\ UNCHANGED <<exists, handle, owner, poisoned, returned, readerVars>>

\* The write of the reserved head stops short (the device is full): write()
\* returns Err and an incomplete head stays at the end of the file.
BeginWriteShort(t) ==
  /\ "short" \in Faults
  /\ wpc[t] = "held"
  /\ attempts < MaxWrites
  /\ file' = Append(file, Torn(attempts + 1))
  /\ attempts' = attempts + 1
  /\ UNCHANGED <<exists, handle, owner, poisoned, wpc, cur, returned, readerVars>>

\* One write_all of write_record (a header line, a buffer of a body, a flush of
\* the encoder, CRLF padding); the position is at the end of the file.
WriteChunk(t) ==
  /\ wpc[t] = "payload"
  /\ cur.k < cur.n
  /\ file' = Append(file, Data(cur.id, cur.k + 1))
  /\ cur' = [cur EXCEPT !.k = @ + 1]
  /\ UNCHANGED <<exists, handle, owner, poisoned, wpc, attempts, returned,
                 readerVars>>

PayloadWritten == cur.k = cur.n

\* Mutant: forget that the head is not part of the length.
LenWithoutOne == Len(file) - cur.start - 2

\* Mutant: count the head as payload.
LenWithHead == Len(file) - cur.start

\* head.len = end - start - V2_HEAD_SIZE
PayloadLen == Len(file) - cur.start - 1

\* Seek back and write the final head over the reserved one.  These 54 bytes go
\* over bytes that are there already, in one write_all: taken as one step.
SealHead(t) ==
  /\ wpc[t] = "payload"
  /\ PayloadWritten
  /\ file' = [file EXCEPT ![cur.start + 1] =
                DialogHead(cur.id, PayloadLen, cur.z)]
  /\ wpc' = [wpc EXCEPT ![t] = "sealed"]
  /\ UNCHANGED <<exists, handle, owner, poisoned, cur, attempts, returned,
                 readerVars>>

\* Mutant: return the offset of the end of the record.
EndOffset == Len(file)

StartOffset == cur.start

\* Seek to the end, flush, Ok(start).
EndWrite(t) ==
  /\ wpc[t] = "sealed"
  /\ returned' = returned \cup
                   {[id |-> cur.id, start |-> StartOffset, n |-> cur.n]}
  /\ wpc' = [wpc EXCEPT ![t] = "held"]
  /\ UNCHANGED <<fileVars, handle, owner, poisoned, cur, attempts, readerVars>>

\* Any "?" between the reserved head and Ok(start): Err to the caller, which
\* keeps its BarcWriter.  Nothing is undone in the file.
WriteFails(t) ==
  /\ "io" \in Faults
  /\ wpc[t] \in {"payload", "sealed"}
  /\ wpc' = [wpc EXCEPT ![t] = "held"]
  /\ UNCHANGED <<fileVars, handle, owner, poisoned, cur, attempts, returned,
                 readerVars>>

\* An assertion of write_record, write_headers or write fails while the guard
\* is held: unwinding drops the guard and poisons the mutex.
WritePanics(t) ==
  /\ "panic" \in Faults
  /\ wpc[t] = "payload"
  /\ wpc' = [wpc EXCEPT ![t] = "panicked"]
  /\ owner' = NoOne
  /\ poisoned' = TRUE
  /\ UNCHANGED <<fileVars, handle, cur, attempts, returned, readerVars>>

\* The writing process dies and is restarted with a new BarcFile.  What was
\* written stays; the callers of write() are gone, their offsets are not.
Crash ==
  /\ "crash" \in Faults
  /\ handle
  /\ handle' = FALSE
  /\ owner' = NoOne
  /\ poisoned' = FALSE
  /\ wpc' = [t \in Threads |-> "idle"]
  /\ UNCHANGED <<fileVars, cur, attempts, returned, readerVars>>

-----------------------------------------------------------------------------
(* Readers.  BarcReader::read is ReadNone, ReadReserved or ReadBadHead, or    *)
(* ReadHead, then one ReadCell or SliceCell per payload cell, then ReadDone,  *)
(* ReadEof or ReadFails.                                                      *)

\* BarcFile::reader errors, without effect, as long as the file does not exist.
OpenReader(r) ==
  /\ rpc[r] = "closed"
  /\ exists
  /\ rpc' = [rpc EXCEPT ![r] = "idle"]
  /\ UNCHANGED <<fileVars, writerVars, pos, rstart, rhead, got, out, from, clean>>

\* The cell at the reader's position.
AtHead(r, type) ==
  /\ rpc[r] = "idle"
  /\ pos[r] \in 0 .. Len(file) - 1
  /\ file[pos[r] + 1].kind = "head"
  /\ file[pos[r] + 1].type = type

\* Nothing at or after the position: Ok(None), nothing moves.
ReadNone(r) ==
  /\ rpc[r] = "idle"
  /\ pos[r] >= Len(file)
  /\ UNCHANGED vars

\* Mutants: leave the position after the reserved head, or go to the end.
StayPastHead(r) == pos[r] + 1
SkipToEnd(r) == Len(file)

\* fin.seek(SeekFrom::Start(start))
SeekBack(r) == pos[r]

\* A Reserved head: seek back to where read() started, Ok(None).
ReadReserved(r) ==
  /\ AtHead(r, "R")
  /\ pos' = [pos EXCEPT ![r] = SeekBack(r)]
  /\ UNCHANGED <<fileVars, writerVars, rpc, rstart, rhead, got, out, from, clean>>

\* A Dialog head was parsed; the payload is still to be read.
ReadHead(r) ==
  /\ AtHead(r, "D")
  /\ rpc' = [rpc EXCEPT ![r] = "payload"]
  /\ rstart' = [rstart EXCEPT ![r] = pos[r]]
  /\ rhead' = [rhead EXCEPT ![r] = file[pos[r] + 1]]
  /\ got' = [got EXCEPT ![r] = << >>]
  /\ pos' = [pos EXCEPT ![r] = @ + 1]
  /\ UNCHANGED <<fileVars, writerVars, out, from, clean>>

\* Where the head-sized read from offset p ends that finds no head there: inside
\* some cell or, by chance, between two.  An incomplete head is shorter than a
\* head: the read goes past it, unless the file ends with it.
AfterBadHead(p) ==
  IF file[p + 1].kind # "torn" THEN {Lost} \cup (p + 1 .. Len(file))
  ELSE IF p + 1 = Len(file) THEN {Len(file)}
  ELSE {Lost} \cup (p + 2 .. Len(file))

\* An incomplete head or bytes that are no head: Err, and the position is after
\* what was read.  An incomplete head that lacks only its CRLFs parses, with
\* bytes of the next record, as a reserved one (Ok(None)).
ReadBadHead(r) ==
  /\ rpc[r] = "idle"
  /\ pos[r] \in 0 .. Len(file) - 1
  /\ file[pos[r] + 1].kind \in {"torn", "data"}
  /\ \/ /\ clean' = [clean EXCEPT ![r] = FALSE]
        /\ rstart' = [rstart EXCEPT ![r] = pos[r]]
        /\ \E p \in AfterBadHead(pos[r]) : pos' = [pos EXCEPT ![r] = p]
     \/ /\ file[pos[r] + 1].kind = "torn"
        /\ pos[r] + 1 < Len(file)
        /\ UNCHANGED <<pos, rstart, clean>>
  /\ UNCHANGED <<fileVars, writerVars, rpc, rhead, got, out, from>>

\* Reading on from a position inside some cell finds no head (bytes of a payload
\* that read like a head are left out): Err, and the reader is inside a cell again
\* or has come upon the start of one, where it may find a head.
ReadLost(r) ==
  /\ rpc[r] = "idle"
  /\ pos[r] = Lost
  /\ clean' = [clean EXCEPT ![r] = FALSE]
  /\ \E p \in {Lost} \cup (rstart[r] + 1 .. Len(file)) : pos' = [pos EXCEPT ![r] = p]
  /\ UNCHANGED <<fileVars, writerVars, rpc, rstart, rhead, got, out, from>>

\* Offset of the next payload cell: the position itself for a plain record, the
\* position in the decoder's own ReadSlice for a compressed one.
Cursor(r) == rstart[r] + 1 + Len(got[r])

PayloadLeft(r) ==
  /\ rpc[r] = "payload"
  /\ Len(got[r]) < rhead[r].n

\* Only a plain record is read through the reader's own position.
Advance(r) == [pos EXCEPT ![r] = IF rhead[r].z THEN @ ELSE @ + 1]

\* read_headers, read_body_ram, or the decoder: copy the next cell.
ReadCell(r) ==
  /\ PayloadLeft(r)
  /\ Cursor(r) < Len(file)
  /\ got' = [got EXCEPT ![r] = Append(@, file[Cursor(r) + 1])]
  /\ pos' = Advance(r)
  /\ UNCHANGED <<fileVars, writerVars, rpc, rstart, rhead, out, from, clean>>

\* slice_body: a plain body above max_body_ram is not read, only sought over.
SliceCell(r) ==
  /\ PayloadLeft(r)
  /\ ~ rhead[r].z
  /\ got' = [got EXCEPT ![r] = Append(@, Slice)]
  /\ pos' = Advance(r)
  /\ UNCHANGED <<fileVars, writerVars, rpc, rstart, rhead, out, from, clean>>

\* read_exact, or the decoder, meets the end of the file: Err, and the position
\* stays where the failed read left it.
ReadEof(r) ==
  /\ PayloadLeft(r)
  /\ Cursor(r) >= Len(file)
  /\ rpc' = [rpc EXCEPT ![r] = "idle"]
  /\ clean' = [clean EXCEPT ![r] = FALSE]
  /\ UNCHANGED <<fileVars, writerVars, pos, rstart, rhead, got, out, from>>

\* read() fails within a record for a reason of its own: a decoded body above
\* max_body, or no temporary file for it.  The position stays where it is.
ReadFails(r) ==
  /\ "readerr" \in Faults
  /\ rpc[r] = "payload"
  /\ rpc' = [rpc EXCEPT ![r] = "idle"]
  /\ clean' = [clean EXCEPT ![r] = FALSE]
  /\ UNCHANGED <<fileVars, writerVars, pos, rstart, rhead, got, out, from>>

\* Ok(Some(record)); a compressed record is sought over only now.
ReadDone(r) ==
  /\ rpc[r] = "payload"
  /\ Len(got[r]) = rhead[r].n
  /\ rpc' = [rpc EXCEPT ![r] = "idle"]
  /\ pos' = [pos EXCEPT ![r] = rstart[r] + 1 + rhead[r].n]
  /\ out' = [out EXCEPT ![r] =
               Append(@, [start |-> rstart[r], head |-> rhead[r], got |-> got[r]])]
  /\ UNCHANGED <<fileVars, writerVars, rstart, rhead, got, from, clean>>

\* BarcReader::seek, to 0 or to an offset that write() returned.
Seek(r) ==
  /\ rpc[r] = "idle"
  /\ \E p \in {0} \cup {w.start : w \in returned} :
       /\ pos' = [pos EXCEPT ![r] = p]
       /\ from' = [from EXCEPT ![r] = p]
  /\ out' = [out EXCEPT ![r] = << >>]
  /\ clean' = [clean EXCEPT ![r] = TRUE]
  /\ UNCHANGED <<fileVars, writerVars, rpc, rstart, rhead, got>>

-----------------------------------------------------------------------------
WriterNext ==
  \/ \E t \in Threads :
       \/ OpenWriter(t) \/ OpenPoisoned(t) \/ DropWriter(t)
       \/ BeginWrite(t) \/ BeginWriteShort(t) \/ WriteChunk(t) \/ SealHead(t)
       \/ EndWrite(t) \/ WriteFails(t) \/ WritePanics(t)
  \/ Crash

\* The steps of one call of read().
ReadStep(r) ==
  \/ ReadReserved(r) \/ ReadHead(r) \/ ReadBadHead(r) \/ ReadLost(r)
  \/ ReadCell(r) \/ SliceCell(r) \/ ReadEof(r) \/ ReadFails(r) \/ ReadDone(r)

ReaderNext ==
  \E r \in Readers : OpenReader(r) \/ ReadNone(r) \/ ReadStep(r) \/ Seek(r)

Next == WriterNext \/ ReaderNext

Spec == Init /\ [][Next]_vars

\* A session whose readers only poll: they call read() again and again and do
\* not seek.
PollingNext ==
  \/ WriterNext
  \/ \E r \in Readers : OpenReader(r) \/ ReadNone(r) \/ ReadStep(r)

\* A write that began is run to its end by its thread, and a reader keeps
\* calling read(): both are loops of their own thread, which the operating
\* system schedules.  Opening a writer and starting a write are left to the
\* application and are not fair.
Fairness ==
  /\ \A t \in Threads : WF_vars(WriteChunk(t) \/ SealHead(t) \/ EndWrite(t))
  /\ \A r \in Readers : WF_vars(OpenReader(r)) /\ WF_vars(ReadStep(r))

PollingSpec == Init /\ [][PollingNext]_vars /\ Fairness

-----------------------------------------------------------------------------
(* Properties *)

\* Type invariant: every variable of the file, the writers and the readers.
TypeOK ==
  /\ file \in Seq(Cell)
  /\ exists \in BOOLEAN
  /\ handle \in BOOLEAN
  /\ owner \in Threads \cup {NoOne}
  /\ poisoned \in BOOLEAN
  /\ wpc \in [Threads -> {"idle", "held", "payload", "sealed", "panicked"}]
  /\ cur \in [id : Nat, start : Nat, n : Nat, k : Nat, z : BOOLEAN]
  /\ attempts \in Nat
  /\ returned \subseteq [id : Nat, start : Nat, n : Nat]
  /\ rpc \in [Readers -> {"closed", "idle", "payload"}]
  /\ pos \in [Readers -> Nat \cup {Lost}]
  /\ rstart \in [Readers -> Nat]
  /\ rhead \in [Readers -> Cell]
  /\ got \in [Readers -> Seq(Cell)]
  /\ out \in [Readers -> Seq([start : Nat, head : Cell, got : Seq(Cell)])]
  /\ from \in [Readers -> Nat]
  /\ clean \in [Readers -> BOOLEAN]

\* What cell i of a returned record is when it is looked at now: the copy that
\* read() made or, for a ReadSlice, what the file holds there.
CellNow(rec, i) ==
  IF rec.got[i].kind = "slice"
  THEN IF rec.start + 1 + i <= Len(file) THEN file[rec.start + 1 + i] ELSE Slice
  ELSE rec.got[i]

Whole(rec) ==
  /\ Len(rec.got) = rec.head.n
  /\ \A i \in 1 .. rec.head.n : CellNow(rec, i) = Data(rec.head.id, i)

\* Every record a reader got from read() is, and as long as the reader keeps it
\* stays, the whole payload of one write, in order and from no other write --
\* also when it was read while its or another write was under way, and also
\* for bodies that read() left in the file as a ReadSlice.
DeliveredWhole ==
  \A r \in Readers : \A j \in 1 .. Len(out[r]) : Whole(out[r][j])

\* The same for the records of this session only (the file had none with an id
\* above 0 before it), for sessions that append to a damaged file.
SessionRecordsWhole ==
  \A r \in Readers : \A j \in 1 .. Len(out[r]) :
    out[r][j].head.id > 0 => Whole(out[r][j])

\* Every committed record of f has its whole payload after its head: what a
\* file of completed writes, and of abandoned ones, looks like.
CompleteRecords(f) ==
  \A i \in 1 .. Len(f) :
    f[i].kind = "head" /\ f[i].type = "D" =>
      /\ i + f[i].n <= Len(f)
      /\ \A j \in 1 .. f[i].n : f[i + j] = Data(f[i].id, j)

\* A head, or the end of the file, where a reader of f expects it: at the start
\* and after each committed record.
AlignedRecords(f) ==
  /\ f # << >> => f[1].kind = "head"
  /\ \A i \in 1 .. Len(f) :
       f[i].kind = "head" /\ f[i].type = "D" =>
         i + f[i].n = Len(f) \/ f[i + f[i].n + 1].kind = "head"

\* "Single-writer sessions are guaranteed safe with N concurrent readers": a
\* reader that starts at 0 or at an offset write() returned gets no error from
\* read(), whatever the writer is doing, and also after a write that failed,
\* panicked or was cut off by a crash.
ReadersNeverErr == \A r \in Readers : clean[r]

\* A reader passes over no committed record: all of them between where it began
\* and where it is were returned to it.
NoRecordSkipped ==
  \A r \in Readers :
    (rpc[r] = "idle" /\ clean[r]) =>
      \A p \in from[r] .. pos[r] - 1 :
        CommittedAt(p) => \E j \in 1 .. Len(out[r]) : out[r][j].start = p

\* Random access: at every offset that write() returned, the file holds the
\* complete record of that write, and keeps it.
ReturnedOffsetsGood ==
  \A w \in returned :
    /\ CommittedAt(w.start)
    /\ file[w.start + 1].id = w.id
    /\ file[w.start + 1].n = w.n
    /\ w.start + 1 + w.n <= Len(file)
    /\ \A i \in 1 .. w.n : file[w.start + 1 + i] = Data(w.id, i)

\* The file only grows, and the only cell that ever changes is a reserved head
\* that becomes the head of the same write.  (slice_body's safety comment:
\* "There is only appending writes".)
AppendOnly ==
  [][/\ Len(file') >= Len(file)
     /\ \A i \in 1 .. Len(file) :
          file'[i] # file[i] =>
            /\ file[i].kind = "head" /\ file[i].type = "R"
            /\ file'[i].kind = "head" /\ file'[i].id = file[i].id]_file

\* A reader that polls from the start of the file gets, sooner or later, every
\* record whose write returned Ok, also when it met the record half written.
EventuallyDelivered ==
  \A r \in Readers, w \in 1 .. MaxWrites :
    (\E v \in returned : v.id = w) ~>
      \E j \in 1 .. Len(out[r]) : out[r][j].head.id = w
=============================================================================
