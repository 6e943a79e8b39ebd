# body-image in TLA+

This directory holds a formal model of the crates of the *body-image* repository:
TLA+ modules, TLC configurations and proofs checked by TLAPS.  Everything is
translated from the source under `src/`; line numbers are in `PROJECT.json`
(`map`), with the runs, the mutants that show that each property can fail, the
findings, the hazards and the theorems.

- [1. The system](#1-the-system)
- [2. Plan](#2-plan)
- [3. BarcFile](#3-barcfile)
- [4. BodyImage and BodyBuffer](#4-bodyimage-and-bodybuffer)
- [5. ReadFrom](#5-readfrom)
- [6. Forward](#6-forward)
- [7. RecordFormat and Compress](#7-recordformat-and-compress)
- [8. Exchange, with Tune, Dialog and Decode](#8-exchange-with-tune-dialog-and-decode)
- [9. Cli](#9-cli)
- [10. Runs, bounds and what they show](#10-runs-bounds-and-what-they-show)
- [11. What is proved](#11-what-is-proved)
- [12. Where the code and its documentation disagree](#12-where-the-code-and-its-documentation-disagree)
- [13. What is not modelled](#13-what-is-not-modelled)

## 1. The system

| Component | State | Operations | Hard behaviour | What makes it correct |
|---|---|---|---|---|
| **BARC file** `barc/src/lib.rs`: `BarcFile`, `BarcWriter`, `BarcReader` | the file; `write_lock: Mutex<Option<File>>`; the position of each reader | `writer`, `write`, `reader`, `read`, `seek`, `offset` | one writer at a time and N readers on one file without any lock between them; a write is reserved head, payload, seek back, final head; errors, panics and crashes between any two of these | readers get only whole records, skip none and meet no error while a write is under way; offsets that `write` returned stay good; the file is only appended to |
| **BARC records** `barc/src/lib.rs`, `compress.rs` | the lengths in a record head; the compression strategy | `write_record`, `read_headers`, `read_body_*`, `slice_body`, `is_compressible`, `Dialog` ⇄ `Record` | block lengths against limits, CRLF padding, compressed bodies that grow above the limits | what was written is what is read, in every layout |
| **Body buffering** `body-image/src/lib.rs`: `BodySink`, `BodyImage`, `BodyReader` | buffers in RAM or a temporary file, `len`; shared by clones | `push`, `write_all`, `save`, `write_back`, `prepare`, `clone`, `gather`, `mem_map`, `reader` | a failure half way through a write or a `write_back`; clones that are gathered or mapped one by one while others are read | length and contents agree in every state; all readers of all clones see what was pushed |
| **Body reading** `body-image/src/lib.rs`: `read_from`, `read_to_body_fs` | the buffer at hand, a `BodySink`, the running size | one call | the move from RAM to file in the middle of a `Read`, limits | nothing is lost; limits hold |
| **Asynchronous sinks** `body-image-futio/src/sink.rs` | a `BodySink`, one buffer held back, the arbiter, a permit future or a dispatched operation | `poll_ready`, `start_send`, `poll_flush`, `poll_close`, `into_inner` | blocking operations must wait for a permit or run on another thread; wakeups; cancellation | items are written in order and once; the task is always woken again; no blocking without permission |
| **Asynchronous streams** `body-image-futio/src/stream.rs`, `wrappers.rs` | an exploded image, `consumed`, the arbiter, a permit future or a dispatched operation | `poll_next`, `is_end_stream`, `size_hint` | the same, and the end of the stream | the chunks are the body; the stream ends |
| **Arbiters** `body-image-futio/src/blocking.rs` | `Blocking` | `can_block`, `set`, `state` | one-time allowances | an allowance is used at most once |
| **Fetching** `body-image-futio/src/fetch.rs` | a request in flight, two timeouts | `request_dialog`, `fetch` | timeouts that race the response and the body | a timeout is reported as such, and nothing is left behind |
| **Decoding** `body-image-futio/src/decode.rs` | the recorded encodings | `decode_res_body`, `find_encodings` | repeated, unknown and chained encodings | what is recorded as decoded is decoded |
| **Command line** `barc-cli/src` | input readers, one output writer | `cp`, `cat`, `record` | limits on offset and count over several files; failure half way | every selected record is copied once |
| **Dialog, Prolog, Epilog** `body-image/src/lib.rs`, `barc/src/lib.rs` | plain data | request recorders, `set_res_body_decoded`, `TryFrom` to and from `Record` | names that one direction writes and the other does not know | a dialog survives a record and back |
| **Tunables** `body-image/src/lib.rs`, `futio/src/tune.rs` | limits, sizes, timeouts | `Tuner`, `FutioTuner` | orders between limits that only `finish` checks | the limits that all others rely on are in order |
| **Logging, build scripts, benchmarks, examples** | — | — | — | — |

How they meet: `fetch` forwards an HTTP response body into one of the asynchronous
sinks; the sink keeps it in a `BodySink`, which is prepared as a `BodyImage` and
becomes part of a `Dialog`; `decode_res_body` may decode it with `read_from`; the
CLI writes the `Dialog` with a `BarcWriter`.  A `BarcReader` returns records whose
large bodies are `BodyImage`s over a slice of the BARC file itself, so they are
read while the file is being appended to.  An asynchronous stream sends a body
image as a request or response body.

The hazards of the code, each with the line where it bites and the properties that
watch it, are listed in `PROJECT.json` under `hazards`.

## 2. Plan

In this order; a module is finished, with its runs, before the next is begun.

1. **BarcFile** (done): the file protocol of writers and readers, as the
   concurrency in it is guarded by nothing but the order of file operations.
   Theorems in **BarcFileProofs** (done).
2. **BodyBuffer** and **BodyImage** (done): the abstract buffer, and the sink and
   images that implement it.  Theorems in **BodyImageProofs** (done), among them
   the refinement.
3. **ReadFrom** (done): the synchronous consumer of the limits.  Theorems in
   **ReadFromProofs** (done).
4. **Forward** (done): the asynchronous sinks and streams with their arbiters,
   composed as tasks that share a semaphore and a pool.  Sinks and streams are one
   module, as both coordinate blocking in the same way, and what can go wrong lies
   between them.  Theorems in **ForwardProofs** (done).
5. **RecordFormat** with **Compress** (done): the layout of one record, plain and
   compressed, written and read back.  Theorems in **RecordFormatProofs** (done).
6. **Tune**, **Dialog**, **Decode** and **Exchange** (done): operators over
   tunables, dialogs and codings, and the exchange of one request and response that
   uses them.  Theorems in **ExchangeProofs** (done).
7. **Cli** (done): the commands, composed with Exchange.  Theorems in **CliProofs**
   (done).

Every invariant and every action property that a passing run checks is also proved, as
is the refinement of BodyBuffer.  What is left to TLC is liveness.

## 3. BarcFile

`BarcFile.tla` models `BarcFile::new`, `writer`, `reader`, `BarcWriter::write`,
`BarcReader::read`, `seek` for one writing process with any number of threads, and
any number of readers (of the same or other processes).

*Data.*  The file is a sequence of cells; a record head is one cell, and so is each
piece of payload that one `write_all` appends.  An offset is the number of cells
before it.  The byte layout of the head, and the split of the payload into blocks,
is abstracted here (RecordFormat has it): what the properties tell apart is which write a cell belongs to
(`id`), its place (`n`), and whether the payload is compressed (`z`), because the
reader reads compressed records through a slice of its own.

*Atomicity.*  Every step that touches the file is one system call.  A call is taken
to be atomic against the calls of other processes, heads included (a head is 54
bytes and is written by one `write_all`).  A reserved head, which extends the file, may
be cut short (`"short"`); the final head goes over 54 bytes that are there already and
is taken as written whole or, with `WriteFails`, not at all.  Were it ever cut short
after its type and before its lengths, readers would take it for a committed record
with lengths of 0: no property is claimed for that.  A step between two calls of one
thread changes nothing that others see.

*The writer.*  `OpenWriter`, `DropWriter`: the mutex guard; `OpenPoisoned`: the
`unwrap` of a poisoned lock.  `BeginWrite` is everything of `write` up to the
reserved head, `WriteChunk` each piece of payload, `SealHead` the seek back and the
final head whose length is computed from two file offsets, `EndWrite` the seek to the
end, flush and `Ok(start)`.  `WriteFails` is any `?` in between, `BeginWriteShort` a
reserved head of which only a part was written, `WritePanics` an assertion of
`write_record` that fails with the guard held, `Crash` the death and restart of the
process.

*The readers.*  `read` is one of `ReadNone` (end of file), `ReadReserved` (seek
back, `None`), `ReadBadHead`, `ReadLost`, or `ReadHead` followed by `ReadCell` or
`SliceCell` (a body that stays in the file as a `ReadSlice`) for each cell and by
`ReadDone`, `ReadEof` or `ReadFails`.  Positions are kept as the code keeps them:
also after an error.  A reader that found no head is a head's length further on
(`AfterBadHead`), mostly inside of some cell (`Lost`), and by chance, then or after
further reads, where a head begins.  That bytes of a payload read like a head is left
out.

*Variables that only record history*: `returned`, `out`, `from`, `clean`.

*Fairness* (`PollingSpec`, used by one run only): a write that began is carried on
by its thread, and a reader goes on calling `read`.  Both are loops of a thread that
the operating system schedules.  Whether an application opens a writer or starts
another write is not assumed.

## 4. BodyImage and BodyBuffer

`BodyBuffer.tla` states what a body promises whatever holds its bytes: open, it
takes cells in order or rejects them; a failed change of representation empties
it; sealed, it never changes, and each reader sees a growing prefix.

`BodyImage.tla` is the code: the sink states `Ram` and `FsWrite`, `push` (with
`save` and `write_all`, which do the same to this state), `write_back` with `cut`,
`prepare`; then images `Ram`, `FsRead` and `MemMap`, clones that share the file or
the buffers, `gather`, `mem_map`, and the three kinds of `BodyReader`.  A
`Vec<Bytes>` is its cells and the offsets at which buffers end.  An image over a
slice of a BARC file behaves as `FsRead` over an immutable range; that the range is
immutable is `AppendOnly` of BarcFile.

The faults: `"io"`, an operation fails and leaves nothing behind; `"torn"`, a
`write_all` to the file fails after part of its buffer.  After `prepare` the borrow
checker's rule that an image cannot be changed while a reader borrows it is a guard
(`Borrowed`).

The refinement mapping (`Buffer == INSTANCE BodyBuffer WITH ...`): the contents are
the first `len` cells of what the sink stores, then the bytes of any live image; the
phase follows from the sink and the images.  `BufferSpec` is checked by TLC and
proved.

## 5. ReadFrom

`ReadFrom.tla` models `read_from` and `read_to_body_fs`: one step per call of
`read()` with what follows it.  Any estimate is possible, so `Start` goes either way.
The `BytesMut` being filled is external: `remaining_mut()` of the locked version of
the `bytes` crate is `usize::MAX - len()`.  The fault `"pause"` is a `Read` that
returns `Ok(0)` and later more, as a growing file does.  `read_to_body_fs` counts from
0 again, so a body that moved to the file at a pause can grow to twice `max_body`:
`LimitsHold` says exactly this.  `WF_vars(Next)`: the function
runs on one thread until it returns.

## 6. Forward

`Forward.tla` models tasks that each forward an asynchronous stream into an
asynchronous sink, as `resp_future` and the tests do.  A task's *sides*, stream and
sink, coordinate blocking operations in the same way, so one set of actions serves
both; what a side does when it may run is `StreamResults` (`poll_impl` of
AsyncBodyImage) or `SinkResults` and `AfterSend` (`poll_send` of AsyncBodySink).

| Code | Model |
|---|---|
| `StatefulArbiter` | `arbiter[c]`; `CanBlock` uses an allowance up; `RequestPermit` and `Dispatch` are the `can_block` that is refused, with what the wrapper then does |
| `LenientArbiter` (AsyncBodyImage, AsyncBodySink) | mode `"direct"`, `PollDirect` |
| `permit: Option<BlockingPermitFuture>` | `wait[c]`: `"new"` before its first poll, `"queued"`, `"granted"`, `"running"` while the permit is held |
| `DispatchState::Dispatch` | `wait[c]`: `"sent"`, `"working"`, `"result"` with `out[c]` |
| "Recurse for correct waking" | the request leaves the task in its poll, so that the next step polls the future and registers the waker (`heard`) |
| `buf: Option<B>` | `sink[t].buf` |
| `Forward::poll` | `task[t]`: the item it holds, and where in the poll it is |

External, modelled from how they are used: `Forward` and `Fuse` of futures-util,
the fair `Semaphore` of tokio, the pool of blocking-permit, the executor.  A poll is
several steps, so that polls of different tasks and pool threads interleave, as they
do on a multi-threaded runtime.  A timeout (`"drop"`) drops a forward between two
polls; an operation that is already with the pool goes on.  A read may return less
than asked; a file may be shorter than its image (`stored`); any division of a RAM
body into buffers is possible.

*Fairness* (`Fairness`): the executor polls tasks that were woken and goes on with a
poll it began (with the blocking operation in it); the pool takes and finishes
jobs; a forward that failed is dropped.  Nothing is assumed of the order in which
tasks are polled or dropped.

## 7. RecordFormat and Compress

`RecordFormat.tla` is the inside of a payload, which BarcFile leaves open: the five
blocks of a record, their CRLF padding when the record is `Plain`, the limits, the
lengths in the head, and what a reader makes of them.  The writer goes block by block
(`WriteBlock`), then `Finish` of the encoder, then `CommitHead` or, if the final head
is refused, `RefuseHead`.  The assertions of `write_headers`, `write_record` and
`write_record_head` lead to `"panic"`.  The head stores no length for the response
body: it is what remains of `len`, computed from file offsets (`FinalLen`), and so the
place where writer and reader could disagree.

The reader is one action for a whole `read()` (`ReadRecord`): `read_plain` with bodies
in RAM (`ReadBody`) or left in the file as a slice (`ReadBodyFs`), or `read_compressed`
with its own rules of what goes to RAM.  Readers have different tunables, and may or
may not have Brotli.

*Data.*  A byte of a body is a cell, also `cr` and `lf`, because bodies may be or end
in CRLF; the text of a header line is `TextLen` cells and its identity.  What an
encoder emits is a region of any length up to `MaxZ` that only its decoder can read.
The digits of a head are abstracted to a record.  `Headers` are the header lines and
`Bytes` the bytes that are neither `cr` nor `lf`; a header block is any sequence of the
former (`HeaderMap`) and a body any sequence of cells (`Body`), so what is proved is
about records of any size (`RecordsAssumption`), and TLC's are 8 of them.

`Compress.tla` is `compress.rs`: `wrap_encoder` and `is_compressible`, which counts
compressible bytes in stages and stops early.  Strategies are records of mode, least
length and discount.

Writer and reader take turns in this module.  What they do to each other when they do
not is BarcFile.

## 8. Exchange, with Tune, Dialog and Decode

`Tune.tla`: which tunables `Tuner::finish` and `FutioTuner::finish` let pass, and the
defaults.  `Dialog.tla`: what a request builder records, and the two conversions
between `Dialog` and `Record` with the reasons for which they refuse.  `Decode.tla`:
`find_encodings`, `find_chunked`, `decompress`, `decode_res_body`.  A body is its size,
whether it is in RAM, and the codings that it is still wrapped in; a header is the
list of its tokens, or `Unparsed`.  A decoder fails on a body that is not wrapped in
its coding.

`Exchange.tla` composes them to one `request_dialog` and what follows:

| Code | Model |
|---|---|
| `tokio::time::timeout` | `timer`; the future is polled before the timer (`Pending`), so a late answer wins |
| `resp_future` | `ReceiveHead` (Content-Length, choice of sink), `ReceivePiece`, `ReceiveEnd`, `ReceiveError` |
| `AsyncBodySink` | `sink`: its size and whether it is in RAM; Forward has the rest |
| `InDialog::prepare` | `Prepare` |
| `decode_res_body` | `DecodeBody`, or `LeaveEncoded` for callers that do not want it; `decodedSize` (history) is what the decoder yielded, refused or not |
| `FutioError` | `failure` |
| server, clock | `Answer`, `Serve`, `EndBody`, `Break`, `Expire` (external) |

The server may be silent for ever, stop half way, break off, exceed what it announced
where nothing frames it, or be wrong about its codings.  hyper frames a body by
Content-Length unless Transfer-Encoding has chunked (`Framed`); requests with HEAD are
left out.  Decoding yields any size up to `MaxDecoded`.  `TryFrom<Record>` also refuses a
URL, method or status that does not parse; records made of a `Dialog` have none.
`Responses` are what a server may answer: a header is any sequence of tokens and a body
may be wrapped in any sequence of codings, so what is proved holds for headers of any
length (`ExchangeAssumption`); TLC's are 14 of them.

## 9. Cli

`Cli.tla` is the `barc` tool: `cat`, `cp` and `record` from their arguments
(`Refused`: `filter_flags`, `compress_flags`) to the exit code, over files as they may
be found; `"fetch"`, a program that calls `fetch` with its own tunables; and `"api"`, one
that calls `request_dialog` within a runtime.  `fetch` calls it outside of its runtime,
where a timeout cannot be made (`FetchPanics`).
It EXTENDS Exchange: `record` takes the steps of an exchange (`Fetch`) until there is a
dialog or a failure, and only then opens its output.

*Files.*  A file is the list of its records, each of `Width` = 2 offsets, of which the
first is a head, so that `--offset` can be right or wrong.  A record is an id, its
compression, and the state of its head: complete, reserved, or `"cut"` (truncated, in
inputs only).  Paths are names of files, and two paths may name one file, as the code
compares strings.  `OtherReserves` and `OtherSeals` are another process that records
to the input meanwhile.  `Capacity` bounds a file, as a disk does: beyond it, writes
fail.  One write is one step here; BarcFile has its parts.  `Setups` are the commands with
the files they find, `Ids` tell records apart; the proofs are about any such files and
options (`CliAssumption` says what clap and the file system guarantee of them).

*Properties.*  `DeliveredInOrder` and `CompleteAtSuccess` say for each delivery where it
must be in its file and after which other it comes, and for each record asked for that
there is a delivery; they do not compute the expected list.  A selection is stated by the
options (`OffsetOf`, `AskedFor`), not by the loop's counter.

*Fairness* (`FairSpec`): the tool's own steps and the expiry of a running timer.
Nothing is assumed of the server or of the other process.

## 10. Runs, bounds and what they show

| Run | Instance | Shows |
|---|---|---|
| `barc_safe` | 2 threads, 1 reader, 2 writes of up to 2 cells, new file or one with a record, I/O errors, panics, crashes, failing reads | only whole records (`DeliveredWhole`), none skipped (`NoRecordSkipped`), no error (`ReadersNeverErr`), offsets good (`ReturnedOffsetsGood`), append only (`AppendOnly`) |
| `barc_torn` | 1 thread, 1 reader, 3 writes, torn heads, I/O errors, failing reads, a new file or one whose last record is truncated | readers may get errors, but the session's own records are read back whole (`SessionRecordsWhole`) |
| `barc_live` | 2 threads, 2 polling readers, no faults | each reader gets every record, also those it met half written |
| `body_safe` | 2 images, 2 readers, I/O errors | implements BodyBuffer (`BufferSpec`), so clones agree; a reader at the end has `len()` bytes (`ReadAllOfLen`) |
| `body_torn` | the same with torn writes | the length never exceeds what is stored (`LenCovered`); assertions hold (`AssertsHold`) |
| `read_from_safe` | limits 2 and 4, up to 8 cells in reads of up to 3, I/O errors, pauses | nothing is lost (`NothingLost`), the limits hold for what is returned and only what exceeds them is refused (`LimitsHold`), it returns (`Returns`) |
| `forward_safe` | 2 tasks, each of 5 kinds, 1 permit, 1 pool thread, `max_body_ram` 1, `max_body` 3, bodies of up to 4 cells, failing operations, timeouts | order and completeness (`InOrder`), limits (`SinkLimits`), wakeups (`NoLostWakeup`), permits (`PermitsKept`), assertions (`AssertsHold`), no blocking without permission (`BlocksWithPermission`), every forward ends (`AllEnd`) |
| `record_safe` | 8 records, 5 strategies, 2 writes, 4 readers' tunables; limits 19 for a record, 11 for a header block, 4 for a request body, 2 header lines | what is read is what was written and the reader lands on the next head (`RoundTrip`); errors, panics and the choice of RAM or file have their cause (`ErrorsJustified`, `PanicsOnlyOverLimit`, `RamBodiesFit`); compressed if and only if worth it (`CompressedIfWorth`) |
| `tool_safe` | 3 files under 4 paths, up to 3 records in each and 5 at most; 32 commands; the default tunables and 4 others, 14 responses, bodies of up to 3 | what is delivered, in order and complete (`DeliveredInOrder`, `CompleteAtSuccess`), what becomes of files (`FilesKept`), timeouts, limits and decoding of a fetch (`TimeoutJustified`, `DialogWithinLimits`, `DecodedAccountsForBody`, `ConvertsBackUnlessDecoded`), every command ends (`EndsUnderTimeouts`) |
| `read_from_ram`, `cli_select`, `dialog_identity` | small | the disagreements of section 12 |

*Why the bounds are enough.*  BarcFile: two writes are the least in which one can
fail and be followed by another, in the same or another thread, while a reader
stands at any position of the first; a payload of two cells separates "begun" from
"complete".  Torn heads need a third write, so that a record follows the damaged
one.  Readers do not influence each other or the writer, so one is enough for
safety; the proofs cover the rest.  BodyImage: two clones and two readers are the
least that can disagree; two buffers make the difference between `Scattered` and
`Contiguous`.  ReadFrom: the limits are passed by one read, by several, exactly
reached and jumped over.  Forward: one permit and two tasks with two sides each are
the least in which a queue of more than one side forms, in which a side that was
granted a permit is dropped while another waits, and in which both sides of one
task wait at once; bodies pass from RAM to the file, fill `max_body` exactly and
exceed it.  RecordFormat: the records include empty blocks, bodies that are or end in
CRLF, and blocks that are just within, at and above each limit with and without
padding; two writes make the second record start behind one of every shape.  Cli: an
input of three records has a first, a middle and a last one for `--index`, `--offset`
and `--count` to fall on, before and behind; responses cover one coding, two codings in
one or two headers, unknown and wrong ones, and Content-Length at, below and above both
limits, missing and unparsable.

Where `CHECK_DEADLOCK FALSE` is set the program ends: a body is lost when `prepare`
fails, `read_from` returns, all forwards have ended (that they do not stop before
is `AllEnd`), a command has exited (`EndsUnderTimeouts`), a writer has panicked.

Each property of a passing run has a mutant in `PROJECT.json`: a definition of the
model is replaced by one with a plausible bug, and the property must then fail.  The
mutated definitions stand next to the originals in the modules, marked "Mutant".

## 11. What is proved

For every value of the constants allowed by the modules' assumptions.

**BarcFileProofs**
- `TypeCorrect`, `OffsetsStayGood`, `FileAppendOnly`: from the writer invariant
  `WInv`.  `ReturnedOffsetsGood` alone is not inductive: a write in progress must be
  known to own exactly the last cells of the file, from its reserved head on, and
  at most one thread may be between head and seal, so that no later step overwrites
  a cell of a returned record.
- `ReadersGetWholeRecords`: `RInv` adds that committed records of the file are
  complete (the assumption `CompleteRecords` on the initial file) and that what a
  reader has collected so far is a prefix of the record at its start; both are kept
  because the file is only appended to.
- `SessionAppendsWhole`: the same invariant for the records that this process wrote
  (`RInv(Nat \ {0})`), which needs nothing of the initial file and holds under all faults.
- `NothingSkipped`: `SInv` adds where the next record can still be committed. Only
  `SealHead` commits one, at the start of the record that is being written; the end of
  every committed record, and the place of every reader that met no error, is not
  beyond that (`Behind`), so nothing is committed between where a reader began and
  where it stands, and all that lies there has been returned (`GivenUpTo`).
- `ReadersMeetNoError`: without torn heads and failing readers, `BInv` adds that
  after each committed record, and at each reader's position, there is a head or the
  end of the file (`AlignedRecords` on the initial file).

**BodyImageProofs**
- `TypeCorrect`.
- `NeverLongerThanStored`, `AssertionsHold`, under all faults: from `KeepInv`, which
  says for each kind of image how `len` and the bytes are related.
- `ImplementsBuffer`, `ReadersGetLenBytes`, if no write is torn: from `WholeInv`,
  which makes `KeepInv` exact (the file has `len` cells), keeps the bytes of all
  live images equal, and says that what a reader has read is the prefix up to its
  position.  The refinement is proved step by step: `WholeNext` maps each action to
  an action of BodyBuffer or to a stutter.  The hypothesis is needed: with torn
  writes the file can hold cells between accepted ones (section 12).

**ReadFromProofs**
- `TypeCorrect`, `KeepsAllRead`, `KeepsLimits`: from `IInv`, for all limits that Tuner
  lets pass, all bodies and all sizes of reads.  `LimitsHold` is not inductive: what
  is compared with `max_body` in the file starts over from 0, so `Sized` says for each
  place of the code how `size`, what is stored and what was taken are related; when
  the body moves to the file, either the Read is at its end or it has paused.  The
  lemma `Extends` is that the first n cells and the next k are the first n + k.

**ForwardProofs**: any number of tasks, permits and pool threads, bodies of any length,
any limits in order, under all failures and timeouts.
- `TypeCorrect`, `BodyInOrder`, `LimitsHold`, `WakerKept`, `PermitsAccounted`, `Asserts`,
  and the action property `PermissionFirst`, all from one invariant `IInv`, because none
  of them is inductive alone.  For each side, `SideInv` says that what it waits for
  fits to its policy and that the operation it waits for was not run yet and still has
  to block; for each task, `TaskInv` says where Forward is and which side can be
  waiting there; `BodyInv` that what the sink stored, holds back, what the task holds
  and what is under way in the pool are, in this order, what was read; `WakeInv` that a
  task that is not woken has left its waker with a side that is still queued or at
  work.  `QueueInv` and `JobsInv` say that the queues list the waiting sides, each
  exactly once, and `PermitInv` that the free permits and the sides that hold one
  (`Holders`) add up.
- `PermissionFirst`: in a step in which a side reads or writes a file, its policy lets it
  block freely, or it holds a permit, or a pool thread does it.

**RecordFormatProofs**: any number of records of any size, strategies, limits and
tunables.
- `ReadsBackWhatWasWritten`, `ReadErrorsJustified`, `RamBounded`, `PanicsJustified`: from
  `FInv` and `GotInv`.  `FInv` says of the record being written which blocks are in it,
  at which offsets, with which lengths in its head (`WorkInv`), and of each written one
  that its head is complete and the cells behind it are its blocks (`WrittenInv`, by
  `Payload`); `GotInv` says that the reader stands at a place where a record was
  written or the file ends (`Places`), and that what it returned is the record written
  there or an error that a limit justifies.  The lemmas follow the layout: what lies
  within a part lies in the whole (`HoldsWithin`), the reader's offsets are the writer's
  (`ReadPlain`, and its like for compressed records), and what remains of `len` for the
  response body is its block.
- `CompressionAsDocumented`: that each stage of `is_compressible` may stop the count
  without changing the answer is the lemma `StagesAgree`.
- `TypeCorrect`.

**ExchangeProofs**
- `TimeoutsJustified`, `DialogsWithinLimits`: about `Spec` of Cli, so for an exchange
  within any command, for all servers (`Responses`), tunables and setups.  `IInv` adds
  that a timer runs only if its phase has a timeout (`Timed`), that the sink is within
  the limits at all times (`Limited`), and that the limits are in order (`TunedInv`, by
  the assumption that FutioTuner let the tunables pass).  All other steps of the tool
  leave the exchange alone (`ToolFrame`).

- `DecodedAccounted`, `UndecodedConvertsBack`: from `DInv`, which says of what is at
  hand in each state where it comes from (`Arrived`), and that a dialog is what was
  assembled from request, response and sink, or what `DecodeBody` made of it
  (`Dialogued`).  The lemma `FoundEncodings` is that `find_encodings` returns one of four
  lists, whatever tokens the headers hold: with or without chunked, and with at most one
  compression, one that the headers name.

**CliProofs**: any number of files, records, inputs and paths, any options, with another
process that appends to an input while it is read.
- `TypeCorrect`: from `CInv`, which says for each state of a command which commands can
  be in it, that the arguments were not refused, and that the output is there once it was
  opened.  `FilesKeptTyped` is that any step of anyone only lets files grow (`Grown`): a
  record that is complete stays what it is.
- `CommandsKeepFiles`: from `FInv`.  `Copied`: the output of `cp` is what it was, with
  one record for each delivery, until a write fails; `Saved`: `record` has a dialog
  before it has an output.
- `DeliversInOrder`, `CompletesAtSuccess`: from `RInv`.  Neither is inductive.
  `Reading` says of the input at hand that its offset is that of record `i`, that none of
  the records up to there is reserved (`Clear`), that all of them that were asked for
  were delivered, and which was delivered last; `Ordered` keeps this of each delivery
  while files grow (`InOrderStays`, by `ReachedGrown`).  When an input is left
  (`LeavesComplete`), its end or a reserved head was found at record `i`, or `--count`
  is reached; as files only grow, no record behind it was reached in the file
  as the command found it.  The exception for `cat --index` in `DeliveredInOrder` needs
  that the argument checks allow `--index` with one input only (`OneInputSelected`).

Only model-checked: liveness under fairness (`EventuallyDelivered`, `Returns`, `AllEnd`,
`EndsUnderTimeouts`), which is out of the prover's reach, and the three disagreements of
section 12, which are counterexamples.

## 12. Where the code and its documentation disagree

Each is a run that TLC ends with a counterexample; `findings` in `PROJECT.json` quotes
the lines.

- `read_from_ram`: `read_from` reads everything into one RAM buffer before it looks
  at a limit.
- `cli_select`: `--count` counts the records that `--index` skips, so `--index 2
  --count 1` delivers nothing.
- `dialog_identity`: a dialog whose body was decoded lists `identity`, which
  `TryFrom<Record>` refuses, so no record of `barc record` without `--no-decode`
  becomes a dialog again.

Met while modelling, and visible in the modules, without a run of their own:

- After a write that failed, its reserved head stays in the file and `read()` answers
  `None` there for ever, although complete records may follow (`ReadReserved`).
- A `read()` that ends in an error has moved the offset (`ReadFails`, `ReadBadHead`).
- A truncated record is returned as `Ok` if its body is above `max_body_ram`
  (`SliceCell`).
- After a torn write, a memory mapped image can be longer than `len()` (`MemMap`; the
  reason for the hypothesis of `ImplementsBuffer`).
- `cat --index` shows, with the first record it prints, the offset where it started
  (the exception in `DeliveredInOrder`).
- `Identity` is appended to `res_decoded` also for an unknown coding, and when one of
  two codings was removed (the condition `PlainServer`).
- Nothing limits the wait for a response by default, so `record` may wait for ever on a
  silent server (the condition in `EndsUnderTimeouts`).
- `cp` to another path of its input reads what it writes, until a write fails.
- `fetch` is documented as "waiting with timeout" (fetch.rs:23), but with a `res_timeout`
  it panics: it evaluates `request_dialog` (fetch.rs:41), and in it `time::timeout`
  (fetch.rs:71), outside of the runtime that it built.  The default is no `res_timeout`,
  and no test of `fetch` sets one (`FetchPanics`).

## 13. What is not modelled

Logging (`piccolog`), build scripts, benchmarks, examples, error formatting, parsing
of HTTP headers, MIME types and command lines, the codecs of flate2, brotli and zstd,
the digits of a record head, `madvise` hints, `part_flags` (which parts of a record
`cat` prints), and `write_to`, a loop that copies an image to a `Write`.  Of the
streams, SplitBodyImage and YieldBodyImage: they are AsyncBodyImage within types of the
blocking-permit crate.  Of the semaphore and the pool, their being closed while in use
(`OpCanceled`).  Of the command line, what clap and the parsers of numbers and of the URL
refuse, and an error of `setup_logger`.  Of `poll_send`, the branch for a write that was
interrupted: `write_all` goes on after an interrupt.  Of fetching, the HTTP client itself, HEAD requests, redirects and
connection pools.

Two processes that write to one BARC file are outside of the model: nothing in the
code guards against it, as its own comments say.  Data that the operating system has
not yet put on disk when the machine fails is outside of it too: the code never
calls `sync`.
