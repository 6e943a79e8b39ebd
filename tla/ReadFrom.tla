------------------------------ MODULE ReadFrom ------------------------------
(***************************************************************************)
(* BodyImage::read_from and read_to_body_fs (body-image/src/lib.rs): a Read *)
(* is consumed into a BodySink that starts in RAM, or in a temporary file    *)
(* if the estimate says so, and moves to a file on the way, under the limits *)
(* of Tunables.                                                             *)
(*                                                                         *)
(* Each step is one call of read() with what follows it.  The cells of the   *)
(* Read are numbered from 1.  An Interrupted read is repeated at once and     *)
(* changes nothing, so it is no step.                                       *)
(***************************************************************************)
EXTENDS Naturals, Sequences

CONSTANTS
  MaxBodyRam,   \* Tunables.max_body_ram
  MaxBody,      \* Tunables.max_body
  BufferRam,    \* Tunables.buffer_size_ram
  UsizeMax,     \* usize::MAX
  Spare,        \* the 1024 bytes that a buffer must still take
  MaxSource,    \* bound: cells that the Read has
  MaxRead,      \* bound: cells of one read()
  Faults        \* subset of {"io", "pause"}

\* Tuner::finish asserts the order of the limits.
ASSUME ReadFromAssumption ==
  /\ MaxBodyRam \in Nat /\ MaxBody \in Nat /\ MaxBodyRam <= MaxBody
  /\ BufferRam \in Nat \ {0} /\ Spare \in Nat
  /\ MaxSource \in Nat /\ MaxRead \in Nat
  /\ UsizeMax \in Nat /\ UsizeMax > MaxSource + Spare
  /\ Faults \subseteq {"io", "pause"}

VARIABLES
  pc,     \* "start", "fill", "flush", "fs", "done", "io_err" or "too_long"
  total,  \* cells that the Read has
  taken,  \* cells that read() has returned
  buf,    \* the buffer being filled
  ram,    \* cells of the sink in state Ram
  disk,   \* cells of the sink in state FsWrite
  kind,   \* state of the sink
  size,   \* the count that is compared with the limits
  paused  \* a read() returned Ok(0) although more was to come

vars == <<pc, total, taken, buf, ram, disk, kind, size, paused>>

-----------------------------------------------------------------------------
\* Mutant: leave out a cell.
TakeAfterNext(k) == [j \in 1 .. k |-> taken + j + 1]

\* The next k cells of the Read.
Take(k) == [j \in 1 .. k |-> taken + j]

\* The numbers of cells that one read() can return.
Reads == {k \in 1 .. MaxRead : taken + k <= total}

\* BytesMut::remaining_mut: a BytesMut grows as needed, up to usize::MAX.
RemainingMut(b) == UsizeMax - Len(b)

TooLong(n) == n > MaxBody

\* read() returns Ok(0): the Read is at its end, or pauses there (a file that
\* another process is appending to).
AtEof == taken = total \/ "pause" \in Faults

Init ==
  /\ pc = "start"
  /\ total \in 0 .. MaxSource
  /\ taken = 0
  /\ buf = << >>
  /\ ram = << >>
  /\ disk = << >>
  /\ kind = "Ram"
  /\ size = 0
  /\ paused = FALSE

-----------------------------------------------------------------------------
\* An estimate above max_body_ram goes to the file system at once.
Start ==
  /\ pc = "start"
  /\ \/ kind' = "Ram" /\ pc' = "fill"
     \/ kind' = "FsWrite" /\ pc' = "fs"
  /\ UNCHANGED <<total, taken, buf, ram, disk, size, paused>>

\* The 'fill loop, until the buffer is (almost) full ...
FillRead ==
  /\ pc = "fill"
  /\ \E k \in Reads :
       /\ buf' = buf \o Take(k)
       /\ taken' = taken + k
  /\ pc' = IF RemainingMut(buf') < Spare THEN "flush" ELSE "fill"
  /\ UNCHANGED <<total, ram, disk, kind, size, paused>>

\* ... or the Read has no more.
FillEof ==
  /\ pc = "fill"
  /\ AtEof
  /\ pc' = "flush"
  /\ paused' = (paused \/ taken < total)
  /\ UNCHANGED <<total, taken, buf, ram, disk, kind, size>>

\* Mutant: go round the outer loop again.
FlushAgain ==
  /\ pc = "flush"
  /\ buf = << >>
  /\ pc' = "fill"
  /\ UNCHANGED <<total, taken, buf, ram, disk, kind, size, paused>>

\* Nothing was read: the sink is prepared as the result.
FlushEof ==
  /\ pc = "flush"
  /\ buf = << >>
  /\ pc' = "done"
  /\ UNCHANGED <<total, taken, buf, ram, disk, kind, size, paused>>

SizeWithBuf == size + Len(buf)

FlushTooLong ==
  /\ pc = "flush"
  /\ buf # << >>
  /\ TooLong(SizeWithBuf)
  /\ pc' = "too_long"
  /\ UNCHANGED <<total, taken, buf, ram, disk, kind, size, paused>>

\* Mutant: forget the buffer that was to follow the ones written back.
WithoutBuf == ram

\* write_back, then write_all of the buffer.
WrittenBack == ram \o buf

\* Mutant: go on in RAM with a body as large as max_body.
BelowMaxBody == SizeWithBuf <= MaxBody

FitsRam == SizeWithBuf <= MaxBodyRam

\* Above max_body_ram: on to read_to_body_fs, which counts from 0.
FlushToFs ==
  /\ pc = "flush"
  /\ buf # << >>
  /\ ~ TooLong(SizeWithBuf)
  /\ ~ FitsRam
  /\ kind' = "FsWrite"
  /\ disk' = WrittenBack
  /\ ram' = << >>
  /\ buf' = << >>
  /\ size' = 0
  /\ pc' = "fs"
  /\ UNCHANGED <<total, taken, paused>>

FlushToRam ==
  /\ pc = "flush"
  /\ buf # << >>
  /\ ~ TooLong(SizeWithBuf)
  /\ FitsRam
  /\ ram' = ram \o buf
  /\ buf' = << >>
  /\ size' = SizeWithBuf
  /\ pc' = "fill"
  /\ UNCHANGED <<total, taken, disk, kind, paused>>

\* The loop of read_to_body_fs: one read() and its write_all, or the limit.
FsCopy ==
  /\ pc = "fs"
  /\ \E k \in Reads :
       /\ taken' = taken + k
       /\ size' = size + k
       /\ IF TooLong(size + k)
          THEN pc' = "too_long" /\ disk' = disk
          ELSE disk' = disk \o Take(k) /\ pc' = pc
  /\ UNCHANGED <<total, buf, ram, kind, paused>>

FsEof ==
  /\ pc = "fs"
  /\ AtEof
  /\ pc' = "done"
  /\ UNCHANGED <<total, taken, buf, ram, disk, kind, size, paused>>

\* read(), the temporary file or prepare() fails: the sink is dropped.
IoFails ==
  /\ "io" \in Faults
  /\ \/ pc \in {"start", "fill", "fs"}
     \/ pc = "flush" /\ ~ FitsRam /\ ~ TooLong(SizeWithBuf)
  /\ pc' = "io_err"
  /\ UNCHANGED <<total, taken, buf, ram, disk, kind, size, paused>>

Next ==
  \/ Start \/ FillRead \/ FillEof \/ FlushEof \/ FlushTooLong \/ FlushToFs \/ FlushToRam
  \/ FsCopy \/ FsEof \/ IoFails

\* read_from is one function call on one thread: it goes on until it returns.
Spec == Init /\ [][Next]_vars /\ WF_vars(Next)

-----------------------------------------------------------------------------
(* Properties *)

Returned == pc \in {"done", "io_err", "too_long"}

Sink == IF kind = "Ram" THEN ram ELSE disk

\* Type invariant: every variable; nothing is in RAM once the sink is a file.
TypeOK ==
  /\ pc \in {"start", "fill", "flush", "fs", "done", "io_err", "too_long"}
  /\ total \in 0 .. MaxSource /\ taken \in 0 .. total
  /\ buf \in Seq(1 .. total) /\ ram \in Seq(1 .. total) /\ disk \in Seq(1 .. total)
  /\ kind \in {"Ram", "FsWrite"}
  /\ kind = "FsWrite" => ram = << >> /\ buf = << >>
  /\ size \in Nat
  /\ paused \in BOOLEAN

\* Every cell that read() returned is kept, once and in order, in the sink or in
\* the buffer to follow it, whenever the sink moves to the file.
NothingLost ==
  pc # "too_long" => Sink \o buf = [j \in 1 .. taken |-> j]

\* The limits of Tunables hold for what is returned, and nothing shorter is refused.
\* max_body, "the maximum body size in bytes allowed in any form", holds for a Read
\* that does not pause: read_to_body_fs counts from 0 again, so after a pause as much
\* as max_body can be added to what was written back.
LimitsHold ==
  /\ pc = "done" => Len(Sink) <= MaxBody + (IF paused THEN MaxBody ELSE 0)
  /\ pc = "done" /\ kind = "Ram" => Len(ram) <= MaxBodyRam
  /\ pc = "too_long" => taken > MaxBody

\* max_body_ram's documentation: "the maximum body size in bytes allowed in RAM,
\* e.g. before writing to a temporary file".  What is in RAM is never more than
\* that and the one buffer being filled, of buffer_size_ram.
RamLimit == Len(ram) + Len(buf) <= MaxBodyRam + BufferRam

\* read_from returns.
Returns == <>Returned

=============================================================================
