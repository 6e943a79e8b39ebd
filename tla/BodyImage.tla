----------------------------- MODULE BodyImage ------------------------------
(***************************************************************************)
(* The life of one body (body-image/src/lib.rs): a BodySink that takes      *)
(* buffers in RAM or in a temporary file, may be written back from one to   *)
(* the other, and is prepared as a BodyImage, whose clones share the file   *)
(* or the buffers, may be gathered or memory mapped one by one, and are     *)
(* read concurrently.                                                       *)
(*                                                                         *)
(* A Vec<Bytes> of non-empty buffers is kept as its cells and the set of    *)
(* offsets at which a buffer ends.  Cells are numbered in the order in which *)
(* they are offered to the sink.                                            *)
(***************************************************************************)
EXTENDS Naturals, Sequences, FiniteSets

CONSTANTS
  Images,      \* names of the BodyImage values (the prepared one, clones)
  None,        \* no image
  Readers,     \* names of the BodyReader values
  MaxOffered,  \* bound: cells offered to the sink
  MaxLen,      \* bound: cells of one buffer
  Faults       \* subset of {"io", "torn"}

ASSUME BodyAssumption ==
  /\ None \notin Images
  /\ MaxOffered \in Nat
  /\ MaxLen \in Nat
  /\ Faults \subseteq {"io", "torn"}

VARIABLES
  skind,    \* SinkState: "Ram", "FsWrite", or "gone" when it was consumed
  slen,     \* BodySink.len
  ram,      \* cells of the sink's Vec<Bytes>
  cuts,     \* offsets at which its buffers end
  disk,     \* the temporary file
  offered,  \* cells offered so far
  image,    \* the BodyImage values
  reader    \* the BodyReader values, with what each has read

vars == <<skind, slen, ram, cuts, disk, offered, image, reader>>

sinkVars == <<skind, slen, ram, cuts, disk, offered>>

-----------------------------------------------------------------------------
(* Values *)

NoImage == [kind |-> "none", len |-> 0, mem |-> << >>, cuts |-> {}]

EmptyImage == [kind |-> "Ram", len |-> 0, mem |-> << >>, cuts |-> {}]

Closed == [kind |-> "closed", of |-> None, pos |-> 0, seen |-> << >>, eof |-> FALSE]

\* The next n cells.
Fresh(n) == [k \in 1 .. n |-> offered + k]

\* The bytes in the sink's keeping.
Stored == IF skind = "Ram" THEN ram ELSE disk

\* The bytes a reader of image m gets: the buffers, or the map, or the file from
\* 0 to len.
Bytes(m) ==
  IF m.kind = "FsRead"
  THEN SubSeq(disk, 1, IF m.len <= Len(disk) THEN m.len ELSE Len(disk))
  ELSE m.mem

Live == {i \in Images : image[i].kind # "none"}

\* The borrow checker: an image is not changed while a BodyReader borrows it.
Borrowed(i) == \E r \in Readers : reader[r].of = i

\* The bytes that reader r reads from.
Source(r) == Bytes(image[reader[r].of])

-----------------------------------------------------------------------------
Init ==
  /\ skind \in {"Ram", "FsWrite"}
  /\ slen = 0
  /\ ram = << >>
  /\ cuts = {}
  /\ disk = << >>
  /\ offered = 0
  /\ image = [i \in Images |-> NoImage]
  /\ reader = [r \in Readers |-> Closed]

-----------------------------------------------------------------------------
(* BodySink *)

\* push, save and write_all: an empty buffer is left out.
Push ==
  /\ skind # "gone"
  /\ \E n \in 1 .. MaxLen :
       /\ offered + n <= MaxOffered
       /\ offered' = offered + n
       /\ slen' = slen + n
       /\ IF skind = "Ram"
          THEN /\ ram' = ram \o Fresh(n)
               /\ cuts' = cuts \cup {Len(ram) + n}
               /\ disk' = disk
          ELSE /\ disk' = disk \o Fresh(n)
               /\ UNCHANGED <<ram, cuts>>
  /\ UNCHANGED <<skind, image, reader>>

\* The file's write_all fails, after k of the n cells: len stays, the k cells do
\* too, and the next push goes behind them.
PushFails ==
  /\ skind = "FsWrite"
  /\ \E n \in 1 .. MaxLen : \E k \in 0 .. n - 1 :
       /\ IF k = 0 THEN "io" \in Faults ELSE "torn" \in Faults
       /\ offered + n <= MaxOffered
       /\ offered' = offered + n
       /\ disk' = disk \o SubSeq(Fresh(n), 1, k)
  /\ UNCHANGED <<skind, slen, ram, cuts, image, reader>>

\* write_back: the buffers are written to a new temporary file one by one.
WriteBack ==
  /\ skind = "Ram"
  /\ skind' = "FsWrite"
  /\ disk' = ram
  /\ ram' = << >>
  /\ cuts' = {}
  /\ UNCHANGED <<slen, offered, image, reader>>

\* Mutant: keep the length although the buffers are dropped.
LenKept == slen

\* cut() leaves an empty Ram state behind, and len is set to match it.
LenAfterCut == 0

\* The temporary file cannot be created or written: the buffers are dropped.
WriteBackFails ==
  /\ "io" \in Faults
  /\ skind = "Ram"
  /\ ram' = << >>
  /\ cuts' = {}
  /\ slen' = LenAfterCut
  /\ UNCHANGED <<skind, disk, offered, image, reader>>

\* Mutant: an empty file is prepared as a file.
FileEvenIfEmpty == [kind |-> "FsRead", len |-> slen, mem |-> << >>, cuts |-> {}]

\* The image of a sink in the file system.
FileImage ==
  IF slen = 0 THEN EmptyImage
  ELSE [kind |-> "FsRead", len |-> slen, mem |-> << >>, cuts |-> {}]

Prepare ==
  /\ skind # "gone"
  /\ \E i \in Images :
       image' = [image EXCEPT ![i] =
                   IF skind = "Ram"
                   THEN [kind |-> "Ram", len |-> slen, mem |-> ram, cuts |-> cuts]
                   ELSE FileImage]
  /\ skind' = "gone"
  /\ UNCHANGED <<slen, ram, cuts, disk, offered, reader>>

\* flush or seek fails: prepare(self) has consumed the sink.
PrepareFails ==
  /\ "io" \in Faults
  /\ skind = "FsWrite"
  /\ slen > 0
  /\ skind' = "gone"
  /\ UNCHANGED <<slen, ram, cuts, disk, offered, image, reader>>

-----------------------------------------------------------------------------
(* BodyImage *)

\* Clones share the buffers, the Arc<File> or the map.
Clone(i) ==
  /\ i \in Live
  /\ \E j \in Images \ Live : image' = [image EXCEPT ![j] = image[i]]
  /\ UNCHANGED <<sinkVars, reader>>

\* Mutant: lose the last buffer while gathering.
AllButLast(m) == SubSeq(m.mem, 1, Len(m.mem) - 1)

\* The buffers copied one after the other into a new one.
Gathered(m) == m.mem

Gather(i) ==
  /\ image[i].kind = "Ram"
  /\ Cardinality(image[i].cuts) > 1
  /\ ~ Borrowed(i)
  /\ image' = [image EXCEPT ![i].mem = Gathered(image[i]),
                            ![i].cuts = {image[i].len}]
  /\ UNCHANGED <<sinkVars, reader>>

\* mem_map maps the whole file, whatever len is.  A failure changes nothing.
MemMap(i) ==
  /\ image[i].kind = "FsRead"
  /\ ~ Borrowed(i)
  /\ image' = [image EXCEPT ![i].kind = "MemMap", ![i].mem = disk]
  /\ UNCHANGED <<sinkVars, reader>>

-----------------------------------------------------------------------------
(* BodyReader *)

\* A Cursor over one buffer or map, a GatheringReader over several buffers, or a
\* ReadSlice of the file with a position of its own.
OpenReader(r) ==
  /\ reader[r].kind = "closed"
  /\ \E i \in Live :
       reader' = [reader EXCEPT ![r] =
         [Closed EXCEPT
            !.kind = IF image[i].kind = "FsRead" THEN "FileSlice"
                     ELSE IF Cardinality(image[i].cuts) > 1 THEN "Scattered"
                     ELSE "Contiguous",
            !.of = i]]
  /\ UNCHANGED <<sinkVars, image>>

\* Mutant: read on from wherever a reader of the file was last.
SharedPos(r) ==
  CHOOSE p \in {reader[q].pos : q \in Readers} :
    \A q \in Readers : reader[q].pos <= p

Pos(r) == reader[r].pos

\* One read never returns bytes of two buffers.
InOneBuffer(r, k) ==
  reader[r].kind = "Scattered" =>
    \A c \in image[reader[r].of].cuts : ~ (Pos(r) < c /\ c < k)

Read(r) ==
  /\ reader[r].kind # "closed"
  /\ \E k \in Pos(r) + 1 .. Len(Source(r)) :
       /\ InOneBuffer(r, k)
       /\ reader' = [reader EXCEPT
            ![r].seen = @ \o SubSeq(Source(r), Pos(r) + 1, k),
            ![r].pos = k]
  /\ UNCHANGED <<sinkVars, image>>

ReadEof(r) ==
  /\ reader[r].kind # "closed"
  /\ Pos(r) >= Len(Source(r))
  /\ reader' = [reader EXCEPT ![r].eof = TRUE]
  /\ UNCHANGED <<sinkVars, image>>

CloseReader(r) ==
  /\ reader[r].kind # "closed"
  /\ reader' = [reader EXCEPT ![r] = Closed]
  /\ UNCHANGED <<sinkVars, image>>

-----------------------------------------------------------------------------
Next ==
  \/ Push \/ PushFails \/ WriteBack \/ WriteBackFails \/ Prepare \/ PrepareFails
  \/ \E i \in Images : Clone(i) \/ Gather(i) \/ MemMap(i)
  \/ \E r \in Readers : OpenReader(r) \/ Read(r) \/ ReadEof(r) \/ CloseReader(r)

Spec == Init /\ [][Next]_vars

-----------------------------------------------------------------------------
(* Properties *)

Image == [kind : {"none", "Ram", "FsRead", "MemMap"}, len : Nat, mem : Seq(Nat),
          cuts : SUBSET Nat]

\* Type invariant: every variable; buffers end within the bytes they hold.
TypeOK ==
  /\ skind \in {"Ram", "FsWrite", "gone"}
  /\ slen \in Nat
  /\ ram \in Seq(Nat)
  /\ cuts \subseteq 1 .. Len(ram)
  /\ disk \in Seq(Nat)
  /\ offered \in Nat
  /\ image \in [Images -> Image]
  /\ \A i \in Images : image[i].cuts \subseteq 1 .. Len(image[i].mem)
  /\ reader \in [Readers -> [kind : {"closed", "Contiguous", "Scattered", "FileSlice"},
                             of : Images \cup {None}, pos : Nat, seen : Seq(Nat), eof : BOOLEAN]]

\* cut's warning, "Be careful about exposing an invalid length when using": the
\* length that a sink or an image reports is never more than what is stored, also
\* after write_back or a write to the file failed.
LenCovered ==
  /\ skind # "gone" => slen <= Len(Stored)
  /\ \A i \in Live : image[i].len <= Len(Bytes(image[i]))

\* mem_map asserts a length above zero (an empty file cannot be mapped), gather
\* that the buffers hold len bytes: both hold whenever they are called.
AssertsHold ==
  \A i \in Live :
    /\ image[i].kind = "FsRead" => image[i].len > 0
    /\ image[i].kind = "Ram" => Len(image[i].mem) = image[i].len

\* A reader that met the end has read exactly len() bytes, however the image was
\* kept, gathered or mapped, and whatever other readers did meanwhile.
ReadAllOfLen ==
  \A r \in Readers : reader[r].eof => Len(reader[r].seen) = image[reader[r].of].len

\* All clones hold the same bytes, gathered, mapped or not.
ClonesAgree ==
  \A i, j \in Live : Bytes(image[i]) = Bytes(image[j])

\* The buffer that the sink and the images are together.
Contents ==
  IF skind # "gone" THEN SubSeq(Stored, 1, slen)
  ELSE IF Live = {} THEN << >>
  ELSE Bytes(image[CHOOSE i \in Live : TRUE])

Phase ==
  IF skind # "gone" THEN "open" ELSE IF Live = {} THEN "lost" ELSE "sealed"

Buffer == INSTANCE BodyBuffer WITH
  content <- Contents,
  phase <- Phase,
  seen <- [r \in Readers |-> reader[r].seen]

\* The sink and its images implement the simple buffer of BodyBuffer: what was
\* pushed with Ok is what every reader of every clone reads, in order and once.
BufferSpec == Buffer!Spec

=============================================================================
