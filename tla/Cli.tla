--------------------------------- MODULE Cli --------------------------------
(***************************************************************************)
(* The barc command line tool (barc-cli/src/main.rs, record.rs), one command  *)
(* from its arguments to its exit, over BARC files as they may be found:       *)
(* with records that cannot be read, heads that were only reserved, several    *)
(* paths to one file, and another process that appends to a file while it is   *)
(* read.  record fetches by way of Exchange; "fetch" is a program that calls   *)
(* fetch with tunables of its own, and "api" one that calls request_dialog.    *)
(*                                                                         *)
(* A file is the list of its records, each of Width offsets, of which only     *)
(* the first is a record head.  BarcFile has the steps of one write and read. *)
(***************************************************************************)
EXTENDS Exchange

CONSTANTS
  FileOf,     \* path -> file
  Setups,     \* [cmd, files, tun, request]: commands, and what they start from
  Ids,        \* which record it is; a fetched one is "new", and "other" one of another process
  Capacity    \* bound: records in a file

NoFlag == 1000
Width == 2

Codings == {"plain", "gzip", "br"}

Files == {FileOf[p] : p \in DOMAIN FileOf}

\* A record as it may be found: complete, only reserved, or cut.
RecordStates == [id : Ids, coding : Codings, head : {"Dialog", "Reserved", "cut"}]
FileStates == [there : BOOLEAN, records : Seq(RecordStates)]

ASSUME CliAssumption ==
  /\ Capacity \in Nat
  /\ {"new", "other"} \subseteq Ids
  /\ \A s \in Setups :
       /\ s.cmd.name \in {"cat", "cp", "record", "fetch", "api"}
       /\ {s.cmd.index, s.cmd.offset, s.cmd.count} \subseteq Nat
       /\ NoFlag \in {s.cmd.index, s.cmd.offset}  \* conflicts_with
       /\ s.cmd.strategy \in Codings /\ s.cmd.decode \in BOOLEAN
       /\ s.cmd.out \in DOMAIN FileOf /\ s.cmd.ins \in Seq(DOMAIN FileOf)
       /\ s.cmd.name \in {"cat", "cp"} => s.cmd.ins # << >>  \* required
       /\ s.files \in [Files -> FileStates]
       /\ \A f \in Files :
            /\ Len(s.files[f].records) <= Capacity
            /\ ~ s.files[f].there => s.files[f].records = << >>
       /\ FutioTuned(s.tun)
       /\ s.request.url # Absent /\ s.request.method # Absent
       /\ s.cmd.name = "record" => s.tun = DefaultFutioTunables

VARIABLES
  cmd,      \* the command: [name, ins, out, index, offset, count, strategy, decode]
  before,   \* the files when it was given (history)
  files,    \* file -> [there, records]
  cpc,      \* "start", "open", "writer", "read", "fetch", "save", "write" or "done"
  at,       \* the input at hand
  pos,      \* its reader's offset
  i,        \* cat, cp: records read so far
  offset,   \* cat: the offset it will show
  delivered,\* what was printed or copied, as [input, shown, pos, id] (cp: history)
  exit      \* "-", "ok", "error" or "panic"

toolVars == <<cmd, before, files, cpc, at, pos, i, offset, delivered, exit>>
vars == <<exchangeVars, toolVars>>

NoFile == [there |-> FALSE, records |-> << >>]

Init ==
  /\ \E s \in Setups :
       /\ cmd = s.cmd /\ tun = s.tun /\ request = s.request
       /\ files = s.files /\ before = s.files
  /\ cpc = "start" /\ exit = "-"
  /\ at = 1 /\ pos = 0 /\ i = 0 /\ offset = 0
  /\ delivered = << >>
  /\ ExchangeInit

Input == cmd.ins[at]
In == files[FileOf[Input]]
Out == FileOf[cmd.out]

\* filter_flags: the selection, where flags default to all.
StartOffset == IF cmd.offset = NoFlag THEN 0 ELSE cmd.offset
StartIndex == IF cmd.index = NoFlag THEN 0 ELSE cmd.index

Filters == {cmd.index, cmd.offset, cmd.count} \ {NoFlag}

\* Arguments that are refused before any file is looked at; what clap and the parsers
\* of numbers and URLs refuse is left out.
Refused ==
  \/ cmd.name \in {"cat", "cp"} /\ Len(cmd.ins) > 1 /\ Filters # {}
  \/ cmd.name \in {"cp", "record"} /\ cmd.strategy = "br" /\ "brotli" \notin Features
  \/ cmd.name = "record" /\ "futio" \notin Features

Quit(code) == cpc' = "done" /\ exit' = code

Start ==
  /\ cpc = "start"
  /\ IF Refused THEN Quit("error")
     ELSE /\ cpc' = IF cmd.name \in {"cat", "cp"} THEN "open" ELSE "fetch"
          /\ exit' = exit
  /\ UNCHANGED <<exchangeVars, cmd, before, files, at, pos, i, offset, delivered>>

-----------------------------------------------------------------------------
(* cat and cp *)

\* BarcFile::reader and seek.  cp refuses an input that is named like its output.
OpenInput ==
  /\ cpc = "open"
  /\ IF (cmd.name = "cp" /\ Input = cmd.out) \/ ~ In.there
     THEN Quit("error") /\ UNCHANGED <<pos, i, offset>>
     ELSE /\ cpc' = IF cmd.name = "cp" THEN "writer" ELSE "read"
          /\ pos' = StartOffset /\ offset' = StartOffset /\ i' = 0
          /\ exit' = exit
  /\ UNCHANGED <<exchangeVars, cmd, before, files, at, delivered>>

\* BarcFile::writer: the file is created, or kept as it is.
Opened(file) == [there |-> TRUE, records |-> file.records]

OpenOutput ==
  /\ cpc \in {"writer", "save"}
  /\ \/ /\ files' = [files EXCEPT ![Out] = Opened(@)]
        /\ cpc' = IF cpc = "writer" THEN "read" ELSE "write"
        /\ exit' = exit
     \/ files' = files /\ Quit("error")
  /\ UNCHANGED <<exchangeVars, cmd, before, at, pos, i, offset, delivered>>

Readable(record) == record.coding = "br" => "brotli" \in Features

\* Mutant: take an error for the end.
ReadQuietly(records, p) ==
  IF p >= Width * Len(records) \/ p % Width # 0 THEN "none"
  ELSE LET record == records[p \div Width + 1]
       IN IF record.head = "Dialog" /\ Readable(record) THEN "record" ELSE "none"

\* BarcReader::read at an offset: a reserved head is the end, as is that of the file.
ReadAt(records, p) ==
  IF p >= Width * Len(records) THEN "none"
  ELSE IF p % Width # 0 THEN "error"
  ELSE LET record == records[p \div Width + 1]
       IN IF record.head = "Reserved" THEN "none"
          ELSE IF record.head = "cut" \/ ~ Readable(record) THEN "error"
          ELSE "record"

Found == ReadAt(In.records, pos)
Record == In.records[pos \div Width + 1]

\* Mutant: skip the first one too.
SkipsFirst == i <= StartIndex /\ cmd.index # NoFlag

Skips == i < StartIndex

\* i counts the skipped records too.
PastCount == cmd.count # NoFlag /\ i + 1 > cmd.count

Selected == cpc = "read" /\ Found = "record" /\ ~ Skips /\ ~ PastCount

Skip ==
  /\ cpc = "read" /\ Found = "record" /\ Skips
  /\ i' = i + 1 /\ pos' = pos + Width
  /\ UNCHANGED <<exchangeVars, cmd, before, files, cpc, at, offset, delivered, exit>>

\* Mutant: go on until there is no further input.
IsPastLast == at > Len(cmd.ins)

IsLast == at = Len(cmd.ins)

NextInput ==
  /\ cpc = "read"
  /\ Found = "none" \/ (Found = "record" /\ ~ Skips /\ PastCount)
  /\ IF IsLast THEN Quit("ok") /\ at' = at
     ELSE cpc' = "open" /\ at' = at + 1 /\ exit' = exit
  /\ UNCHANGED <<exchangeVars, cmd, before, files, pos, i, offset, delivered>>

ReadFails ==
  /\ cpc = "read" /\ Found = "error"
  /\ Quit("error")
  /\ UNCHANGED <<exchangeVars, cmd, before, files, at, pos, i, offset, delivered>>

\* reader.offset() after a record.
OffsetAfter(p) == p + Width

Deliver ==
  delivered' = Append(delivered, [input |-> at, shown |-> offset, pos |-> pos, id |-> Record.id])

PrintRecord ==
  /\ cmd.name = "cat" /\ Selected
  /\ Deliver
  /\ i' = i + 1 /\ pos' = pos + Width
  /\ offset' = OffsetAfter(pos)
  /\ UNCHANGED <<exchangeVars, cmd, before, files, cpc, at, exit>>

\* Output is closed: println! panics, write_headers and write_body return the error.
PrintFails ==
  /\ cmd.name = "cat" /\ Selected
  /\ \E code \in {"error", "panic"} : Quit(code)
  /\ UNCHANGED <<exchangeVars, cmd, before, files, at, pos, i, offset, delivered>>

\* A strategy may find that a record is not worth compressing.
Written(id) == {[id |-> id, coding |-> c, head |-> "Dialog"] : c \in {"plain", cmd.strategy}}

AtEnd(records, record) == Append(records, record)

\* BarcWriter::write of one record.
Write(id) ==
  /\ Len(files[Out].records) < Capacity
  /\ \E record \in Written(id) :
       files' = [files EXCEPT ![Out].records = AtEnd(@, record)]

\* A write that fails, at once or after its reserved head.
WriteFails(id) ==
  /\ \/ files' = files
     \/ /\ Len(files[Out].records) < Capacity
        /\ files' = [files EXCEPT ![Out].records =
                       AtEnd(@, [id |-> id, coding |-> "plain", head |-> "Reserved"])]
  /\ Quit("error")

CopyRecord ==
  /\ cmd.name = "cp" /\ Selected
  /\ Write(Record.id) /\ Deliver
  /\ i' = i + 1 /\ pos' = pos + Width
  /\ UNCHANGED <<exchangeVars, cmd, before, cpc, at, offset, exit>>

CopyFails ==
  /\ cmd.name = "cp" /\ Selected
  /\ WriteFails(Record.id)
  /\ UNCHANGED <<exchangeVars, cmd, before, at, pos, i, offset, delivered>>

-----------------------------------------------------------------------------
(* record, and a program that fetches *)

\* fetch calls request_dialog before it enters its runtime, where a timeout cannot be
\* made: time::timeout panics.
TimerOutside ==
  xpc = "idle" /\ cmd.name \in {"record", "fetch"} /\ tun.res_timeout # None

FetchPanics ==
  /\ cpc = "fetch" /\ TimerOutside
  /\ Quit("panic")
  /\ UNCHANGED <<exchangeVars, cmd, before, files, at, pos, i, offset, delivered>>

Fetch ==
  /\ cpc = "fetch" /\ ~ TimerOutside
  /\ \/ Poll
     \/ cmd.decode /\ DecodeBody
     \/ ~ cmd.decode /\ LeaveEncoded
  /\ UNCHANGED toolVars

Fetching == cpc = "fetch" /\ (Environment \/ Expire) /\ UNCHANGED toolVars

\* Mutant: save whatever there is.
FetchedAnyhow ==
  /\ cpc = "fetch" /\ xpc \in {"dialog", "failed"}
  /\ IF cmd.name = "record" THEN cpc' = "save" /\ exit' = exit ELSE Quit("ok")
  /\ UNCHANGED <<exchangeVars, cmd, before, files, at, pos, i, offset, delivered>>

\* An error of fetch or of decode_res_body ends the command.
Fetched ==
  /\ cpc = "fetch" /\ xpc \in {"dialog", "failed"}
  /\ IF xpc = "failed" THEN Quit("error")
     ELSE IF cmd.name = "record" THEN cpc' = "save" /\ exit' = exit
     ELSE Quit("ok")
  /\ UNCHANGED <<exchangeVars, cmd, before, files, at, pos, i, offset, delivered>>

\* Record::try_from and the one write, after OpenOutput.
SaveRecord ==
  /\ cpc = "write"
  /\ \/ Write("new") /\ Quit("ok")
     \/ WriteFails("new")
  /\ UNCHANGED <<exchangeVars, cmd, before, at, pos, i, offset, delivered>>

-----------------------------------------------------------------------------
(* Another process, recording to a file that is being read *)

InputFile == FileOf[cmd.ins[1]]

Watched == cpc # "done" /\ cmd.name \in {"cat", "cp"} /\ InputFile # Out /\ files[InputFile].there

OtherReserves ==
  /\ Watched /\ Len(files[InputFile].records) < Capacity
  /\ \A n \in DOMAIN files[InputFile].records : files[InputFile].records[n].head = "Dialog"
  /\ files' = [files EXCEPT ![InputFile].records =
                 Append(@, [id |-> "other", coding |-> "plain", head |-> "Reserved"])]
  /\ UNCHANGED <<exchangeVars, cmd, before, cpc, at, pos, i, offset, delivered, exit>>

OtherSeals ==
  /\ Watched
  /\ \E n \in DOMAIN files[InputFile].records :
       /\ files[InputFile].records[n].id = "other" /\ files[InputFile].records[n].head = "Reserved"
       /\ files' = [files EXCEPT ![InputFile].records[n].head = "Dialog"]
  /\ UNCHANGED <<exchangeVars, cmd, before, cpc, at, pos, i, offset, delivered, exit>>

Other == OtherReserves \/ OtherSeals

Tool ==
  \/ Start \/ OpenInput \/ OpenOutput \/ Skip \/ NextInput \/ ReadFails
  \/ PrintRecord \/ PrintFails \/ CopyRecord \/ CopyFails
  \/ FetchPanics \/ Fetch \/ Fetched \/ SaveRecord

Next == Tool \/ Fetching \/ Other

Spec == Init /\ [][Next]_vars

\* The tool runs on, and so does time.
FairSpec == Spec /\ WF_vars(Tool) /\ WF_vars(cpc = "fetch" /\ Expire /\ UNCHANGED toolVars)
-----------------------------------------------------------------------------
(* Properties *)

\* What holds of every variable, those of Exchange included; an input is at hand
\* until the last is done.
TypeOK ==
  /\ ExchangeTypeOK
  /\ cpc \in {"start", "open", "writer", "read", "fetch", "save", "write", "done"}
  /\ exit \in {"-", "ok", "error", "panic"} /\ (exit = "-") = (cpc # "done")
  /\ at \in 1 .. Len(cmd.ins) \cup {1}
  /\ \A f \in Files :
       /\ Len(files[f].records) <= Capacity
       /\ ~ files[f].there => files[f].records = << >>

\* Where a reading finds its record m, that from which it starts being 0.
OffsetOf(m) == StartOffset + Width * m

\* The records that a command asks for, as its options put it.
AskedFor(m) == StartIndex <= m /\ (cmd.count = NoFlag \/ m < StartIndex + cmd.count)

\* A reading comes as far as offset p if no head on its way is still reserved.
Reached(records, p) ==
  \A k \in StartOffset \div Width + 1 .. p \div Width + 1 :
    k \in DOMAIN records /\ records[k].head # "Reserved"

InputRecords(fs, n) == fs[FileOf[cmd.ins[n]]].records

\* cat and cp deliver what was asked for without a gap, once, in order of the files
\* and of the records in each, while another process appends to one of them.  The
\* offset that cat shows with a record is the one that --offset finds it at, but for
\* the first after records that --index skips: there it is where it started.
DeliveredInOrder ==
  \A k \in DOMAIN delivered :
    LET d == delivered[k]
        records == InputRecords(files, d.input)
    IN /\ k > 1 => delivered[k - 1].input <= d.input
       /\ d.pos = IF k > 1 /\ delivered[k - 1].input = d.input
                  THEN delivered[k - 1].pos + Width ELSE OffsetOf(StartIndex)
       /\ cmd.count # NoFlag => d.pos < OffsetOf(StartIndex + cmd.count)
       /\ d.pos % Width = 0 /\ Reached(records, d.pos) /\ d.id = records[d.pos \div Width + 1].id
       /\ cmd.name = "cat" /\ (StartIndex = 0 \/ k # 1) => d.shown = d.pos

\* All that was asked for and that was there when the command started.
Complete(n) ==
  \A m \in 0 .. Capacity :
    AskedFor(m) /\ Reached(InputRecords(before, n), OffsetOf(m)) =>
      \E d \in Range(delivered) : d.input = n /\ d.pos = OffsetOf(m)

\* A command that succeeds has delivered it all: no error, and no record, was passed
\* over silently.  With --index, --count also counts what is skipped: see CountOfRecords.
CompleteAtSuccess ==
  exit = "ok" /\ cmd.name \in {"cat", "cp"} /\ (StartIndex = 0 \/ cmd.count = NoFlag) =>
    \A n \in DOMAIN cmd.ins : Complete(n)

\* main.rs:384 and :434 on --count, "Count of records to print".
CountOfRecords ==
  exit = "ok" /\ cmd.name \in {"cat", "cp"} /\ cmd.count # NoFlag => Complete(1)

\* cp: an output file holds what it held, then the copies, then at most the reserved
\* head of the one that failed; all other files are left alone, as all are by cat.
CopiesFollow ==
  cmd.name \in {"cat", "cp"} =>
    LET old == before[Out].records
        ids == [k \in DOMAIN old |-> old[k].id] \o [k \in DOMAIN delivered |-> delivered[k].id]
        new == [k \in DOMAIN files[Out].records |-> files[Out].records[k].id]
    IN /\ \A f \in Files \ {Out, InputFile} : files[f] = before[f]
       /\ cmd.name = "cat" => files[Out] = before[Out] \/ Out = InputFile
       /\ cmd.name = "cp" =>
            /\ IsPrefix(old, files[Out].records)
            /\ IsPrefix(ids, new)
            /\ Len(new) > Len(ids) =>
                 /\ exit = "error" /\ Len(new) = Len(ids) + 1
                 /\ files[Out].records[Len(new)].head = "Reserved"

\* record saves one dialog or leaves every file, also one that it would create, as
\* it was, until the file itself fails.
SavedOrUntouched ==
  cmd.name = "record" =>
    /\ failure # "-" => files = before
    /\ exit = "ok" =>
         /\ xpc = "dialog"
         /\ files = [before EXCEPT ![Out] = [there |-> TRUE, records |-> files[Out].records]]
         /\ \E record \in Written("new") :
              files[Out].records = Append(before[Out].records, record)

\* What each command makes of the files, however it ends.
FilesKept == CopiesFollow /\ SavedOrUntouched

\* Every command ends, also where a file is copied to itself by another path (it
\* then ends with a full disk), and so does a fetch whose body has a timeout if it
\* also has one for the response, or there is a response.
EndsUnderTimeouts ==
  (cmd.name \in {"cat", "cp"}
     \/ (tun.body_timeout # None /\ (tun.res_timeout # None \/ server # "silent")))
    ~> (exit # "-")
=============================================================================
