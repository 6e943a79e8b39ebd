------------------------------ MODULE CliProofs ------------------------------
(* Theorems about the barc tool, for all commands, selections and files.       *)
EXTENDS ExchangeProofs

-----------------------------------------------------------------------------
(* Files: what they are, and how a step may change them. *)

Typed(fs) ==
  /\ fs \in [Files -> FileStates]
  /\ \A f \in Files :
       /\ Len(fs[f].records) <= Capacity
       /\ ~ fs[f].there => fs[f].records = << >>

\* A file only grows, and of its records only a reserved head changes.
Grown(old, new) ==
  /\ old \in Seq(RecordStates) /\ new \in Seq(RecordStates)
  /\ Len(old) <= Len(new)
  /\ \A k \in 1 .. Len(old) :
       /\ new[k].id = old[k].id
       /\ old[k].head # "Reserved" => new[k] = old[k]

Grows(fs, gs) == \A f \in Files : Grown(fs[f].records, gs[f].records)

Opens(f) == files' = [files EXCEPT ![f] = Opened(@)]

Appends(f, record) ==
  /\ files[f].there /\ Len(files[f].records) < Capacity
  /\ files' = [files EXCEPT ![f].records = Append(@, record)]

Seals(f, n) ==
  /\ n \in DOMAIN files[f].records /\ files[f].records[n].head = "Reserved"
  /\ files' = [files EXCEPT ![f].records[n].head = "Dialog"]

\* Growth of one list of records.
LEMMA GrownItself ==
  ASSUME NEW s \in Seq(RecordStates)
  PROVE  Grown(s, s)
BY DEF Grown

LEMMA GrownByOne ==
  ASSUME NEW s \in Seq(RecordStates), NEW r \in RecordStates
  PROVE  /\ Append(s, r) \in Seq(RecordStates)
         /\ Len(Append(s, r)) = Len(s) + 1
         /\ \A k \in 1 .. Len(s) : Append(s, r)[k] = s[k]
         /\ Append(s, r)[Len(s) + 1] = r
         /\ Grown(s, Append(s, r))
<1>1. /\ Append(s, r) \in Seq(RecordStates)
      /\ Len(Append(s, r)) = Len(s) + 1
      /\ \A k \in 1 .. Len(s) : Append(s, r)[k] = s[k]
      /\ Append(s, r)[Len(s) + 1] = r
  BY AppendProperties
<1>2. Len(s) <= Len(s) + 1
  BY LenProperties
<1> QED  BY <1>1, <1>2 DEF Grown

LEMMA GrownBySeal ==
  ASSUME NEW s \in Seq(RecordStates), NEW n \in DOMAIN s, s[n].head = "Reserved"
  PROVE  LET t == [s EXCEPT ![n].head = "Dialog"]
         IN t \in Seq(RecordStates) /\ Len(t) = Len(s) /\ Grown(s, t)
<1> DEFINE r == [s[n] EXCEPT !.head = "Dialog"]
           t == [s EXCEPT ![n] = r]
<1>1. n \in 1 .. Len(s) /\ s[n] \in RecordStates
  BY LenProperties, ElementOfSeq
<1>2. r \in RecordStates /\ r.id = s[n].id
  BY <1>1 DEF RecordStates
<1> HIDE DEF r
<1>3. /\ t \in Seq(RecordStates) /\ Len(t) = Len(s) /\ t[n] = r
      /\ \A k \in 1 .. Len(s) : k # n => t[k] = s[k]
  BY <1>1, <1>2, ExceptSeq, LenProperties
<1> HIDE DEF t
<1>4. Grown(s, t)
  BY <1>1, <1>2, <1>3 DEF Grown
<1> QED  BY <1>3, <1>4 DEF r, t

LEMMA GrownTransitive ==
  ASSUME NEW r, NEW s, NEW t, Grown(r, s), Grown(s, t)
  PROVE  Grown(r, t)
<1>1. /\ Len(r) \in Nat /\ Len(s) \in Nat /\ Len(t) \in Nat
      /\ Len(r) <= Len(s) /\ Len(s) <= Len(t)
  BY LenProperties DEF Grown
<1> SUFFICES ASSUME NEW k \in 1 .. Len(r)
             PROVE  t[k].id = r[k].id /\ (r[k].head # "Reserved" => t[k] = r[k])
  BY <1>1 DEF Grown
<1>2. k \in 1 .. Len(s)
  BY <1>1
<1> QED  BY <1>2 DEF Grown

\* Each of the changes keeps the files what they are.
LEMMA OpensTyped ==
  ASSUME Typed(files), NEW f \in Files, Opens(f)
  PROVE  Typed(files') /\ Grows(files, files') /\ files'[f].there
                       /\ \A g \in Files : /\ files'[g].records = files[g].records
                                           /\ files[g].there => files'[g].there
                                           /\ g # f => files'[g] = files[g]
<1>1. \A g \in Files : files[g] \in FileStates /\ files[g].records \in Seq(RecordStates)
  BY DEF Typed, FileStates
<1>2. /\ files' \in [Files -> FileStates]
      /\ files'[f] = Opened(files[f])
      /\ \A g \in Files : g # f => files'[g] = files[g]
  <2>1. Opened(files[f]) \in FileStates
    BY <1>1 DEF Opened, FileStates
  <2> QED  BY <2>1 DEF Opens, Typed
<1>3. Opened(files[f]).records = files[f].records /\ Opened(files[f]).there
  BY DEF Opened
<1>4. \A g \in Files : files'[g].records = files[g].records
  BY <1>2, <1>3
<1>5. Grows(files, files')
  BY <1>1, <1>4, GrownItself DEF Grows
<1>6. Typed(files')
  BY <1>2, <1>3, <1>4 DEF Typed
<1> QED  BY <1>2, <1>3, <1>4, <1>5, <1>6

LEMMA AppendsTyped ==
  ASSUME Typed(files), NEW f \in Files, NEW r \in RecordStates, Appends(f, r)
  PROVE  /\ Typed(files') /\ Grows(files, files')
         /\ \A g \in Files : g # f => files'[g] = files[g]
         /\ \A g \in Files : files'[g].there = files[g].there
         /\ files'[f].records = Append(files[f].records, r)
<1>1. \A g \in Files : /\ files[g] \in FileStates /\ files[g].records \in Seq(RecordStates)
                       /\ files[g].there \in BOOLEAN
  BY DEF Typed, FileStates
<1> DEFINE records == Append(files[f].records, r)
<1>2. /\ records \in Seq(RecordStates) /\ Len(records) = Len(files[f].records) + 1
      /\ Grown(files[f].records, records)
  BY <1>1, GrownByOne
<1> HIDE DEF records
<1>3. /\ files'[f] = [files[f] EXCEPT !.records = records]
      /\ \A g \in Files : g # f => files'[g] = files[g]
      /\ files' \in [Files -> FileStates]
  <2>1. [files[f] EXCEPT !.records = records] \in FileStates
    BY <1>1, <1>2 DEF FileStates
  <2>2. files' = [files EXCEPT ![f] = [files[f] EXCEPT !.records = records]]
    BY DEF Appends, records
  <2> QED  BY <2>1, <2>2 DEF Typed
<1>4. files'[f].records = records /\ files'[f].there = files[f].there
  BY <1>1, <1>3 DEF FileStates
<1>5. Grows(files, files')
  BY <1>1, <1>2, <1>3, <1>4, GrownItself DEF Grows
<1>6. Typed(files')
  <2>1. Len(records) <= Capacity
    BY <1>1, <1>2, CliAssumption, LenProperties DEF Appends
  <2> QED  BY <1>3, <1>4, <2>1 DEF Typed, Appends
<1> QED  BY <1>3, <1>4, <1>5, <1>6 DEF records

LEMMA SealsTyped ==
  ASSUME Typed(files), NEW f \in Files, NEW n, Seals(f, n)
  PROVE  /\ Typed(files') /\ Grows(files, files')
         /\ \A g \in Files : g # f => files'[g] = files[g]
         /\ \A g \in Files : files'[g].there = files[g].there
<1>1. \A g \in Files : /\ files[g] \in FileStates /\ files[g].records \in Seq(RecordStates)
                       /\ files[g].there \in BOOLEAN
  BY DEF Typed, FileStates
<1> DEFINE records == [files[f].records EXCEPT ![n].head = "Dialog"]
<1>2. /\ records \in Seq(RecordStates) /\ Len(records) = Len(files[f].records)
      /\ Grown(files[f].records, records)
  BY <1>1, GrownBySeal DEF Seals
<1> HIDE DEF records
<1>3. /\ files'[f] = [files[f] EXCEPT !.records = records]
      /\ \A g \in Files : g # f => files'[g] = files[g]
      /\ files' \in [Files -> FileStates]
  <2>1. [files[f] EXCEPT !.records = records] \in FileStates
    BY <1>1, <1>2 DEF FileStates
  <2>2. files' = [files EXCEPT ![f] = [files[f] EXCEPT !.records = records]]
    BY DEF Seals, records
  <2> QED  BY <2>1, <2>2 DEF Typed
<1>4. files'[f].records = records /\ files'[f].there = files[f].there
  BY <1>1, <1>3 DEF FileStates
<1>5. Grows(files, files')
  BY <1>1, <1>2, <1>3, <1>4, GrownItself DEF Grows
<1>6. Typed(files')
  <2>1. ~ files[f].there => records = << >>
    <3>1. Len(files[f].records) # 0
      BY <1>1, LenProperties DEF Seals
    <3>2. files[f].there
      BY <3>1 DEF Typed
    <3> QED  BY <3>2
  <2> QED  BY <1>2, <1>3, <1>4, <2>1 DEF Typed
<1> QED  BY <1>3, <1>4, <1>5, <1>6

-----------------------------------------------------------------------------
(* What each state of a command means. *)

Copying == cmd.name \in {"cat", "cp"}

CmdTyped ==
  /\ cmd.name \in {"cat", "cp", "record", "fetch", "api"}
  /\ cmd.index \in Nat /\ cmd.offset \in Nat /\ cmd.count \in Nat
  /\ cmd.strategy \in Codings
  /\ cmd.out \in DOMAIN FileOf /\ cmd.ins \in Seq(DOMAIN FileOf)
  /\ Copying => at \in 1 .. Len(cmd.ins)
  /\ ~ Copying => at = 1
  /\ Typed(before) /\ Typed(files)
  /\ pos \in Nat /\ i \in Nat /\ offset \in Nat

AtStep ==
  /\ cpc \in {"start", "open", "writer", "read", "fetch", "save", "write", "done"}
  /\ exit \in {"-", "ok", "error", "panic"} /\ (exit = "-") = (cpc # "done")
  /\ cpc \in {"open", "writer", "read"} => Copying /\ ~ Refused
  /\ cpc = "writer" => cmd.name = "cp"
  /\ cpc = "fetch" => ~ Copying
  /\ cpc \in {"save", "write"} => cmd.name = "record"
  /\ cpc = "write" \/ (cpc = "read" /\ cmd.name = "cp") => files[Out].there

CInv == CmdTyped /\ AtStep

LEMMA InitCInv == Init => CInv
<1> SUFFICES ASSUME Init PROVE CInv
  OBVIOUS
<1>1. PICK s \in Setups : /\ cmd = s.cmd /\ files = s.files /\ before = s.files
  BY DEF Init
<1>2. /\ cmd.name \in {"cat", "cp", "record", "fetch", "api"}
      /\ cmd.index \in Nat /\ cmd.offset \in Nat /\ cmd.count \in Nat
      /\ cmd.strategy \in Codings
      /\ cmd.out \in DOMAIN FileOf /\ cmd.ins \in Seq(DOMAIN FileOf)
      /\ Copying => cmd.ins # << >>
      /\ Typed(before) /\ Typed(files)
  BY <1>1, CliAssumption DEF Copying, Typed
<1>3. Copying => 1 \in 1 .. Len(cmd.ins)
  BY <1>2, EmptySeq, LenProperties
<1> QED  BY <1>2, <1>3 DEF Init, CInv, CmdTyped, AtStep

\* The files of a command are files.
LEMMA FilesNamed ==
  CInv => /\ Out \in Files
          /\ \A n \in 1 .. Len(cmd.ins) : FileOf[cmd.ins[n]] \in Files
          /\ Copying => 1 \in 1 .. Len(cmd.ins) /\ FileOf[Input] \in Files /\ InputFile \in Files
          /\ \A f \in Files : /\ files[f].records \in Seq(RecordStates)
                              /\ before[f].records \in Seq(RecordStates)
<1> SUFFICES ASSUME CInv
             PROVE  /\ Out \in Files
                    /\ \A n \in 1 .. Len(cmd.ins) : FileOf[cmd.ins[n]] \in Files
                    /\ Copying => /\ 1 \in 1 .. Len(cmd.ins)
                                  /\ FileOf[Input] \in Files /\ InputFile \in Files
                    /\ \A f \in Files : /\ files[f].records \in Seq(RecordStates)
                                        /\ before[f].records \in Seq(RecordStates)
  OBVIOUS
<1>1. Out \in Files
  BY DEF CInv, CmdTyped, Files, Out
<1>2. \A n \in 1 .. Len(cmd.ins) : FileOf[cmd.ins[n]] \in Files
  <2> SUFFICES ASSUME NEW n \in 1 .. Len(cmd.ins) PROVE FileOf[cmd.ins[n]] \in Files
    OBVIOUS
  <2>1. cmd.ins[n] \in DOMAIN FileOf
    BY ElementOfSeq DEF CInv, CmdTyped
  <2> QED  BY <2>1 DEF Files
<1>3. Copying => 1 \in 1 .. Len(cmd.ins) /\ at \in 1 .. Len(cmd.ins)
  BY LenProperties DEF CInv, CmdTyped
<1>4. \A f \in Files : files[f] \in FileStates /\ before[f] \in FileStates
  BY DEF CInv, CmdTyped, Typed
<1> QED  BY <1>1, <1>2, <1>3, <1>4 DEF Input, InputFile, FileStates

\* What is read is a complete record, at the offset of its head.
LEMMA RecordRead ==
  ASSUME NEW records \in Seq(RecordStates), NEW p \in Nat, ReadAt(records, p) = "record"
  PROVE  /\ p \div Width + 1 \in 1 .. Len(records)
         /\ p % Width = 0
         /\ records[p \div Width + 1] \in RecordStates
         /\ records[p \div Width + 1].head # "Reserved"
<1>1. /\ ~ (p >= Width * Len(records)) /\ p % Width = 0
      /\ records[p \div Width + 1].head # "Reserved"
  BY DEF ReadAt
<1>2. Len(records) \in Nat /\ p < Width * Len(records)
  BY <1>1, LenProperties DEF Width
<1>3. p \div Width + 1 \in 1 .. Len(records)
  BY <1>2 DEF Width
<1> QED  BY <1>1, <1>3, ElementOfSeq

LEMMA FoundRecord ==
  CInv /\ cpc = "read" /\ Found = "record" =>
    /\ pos \div Width + 1 \in 1 .. Len(In.records) /\ pos % Width = 0
    /\ Record \in RecordStates /\ Record.head # "Reserved"
<1> SUFFICES ASSUME CInv, cpc = "read", Found = "record"
             PROVE  /\ pos \div Width + 1 \in 1 .. Len(In.records) /\ pos % Width = 0
                    /\ Record \in RecordStates /\ Record.head # "Reserved"
  OBVIOUS
<1>1. In.records \in Seq(RecordStates) /\ pos \in Nat
  BY FilesNamed DEF CInv, CmdTyped, AtStep, In
<1> QED  BY <1>1, RecordRead DEF Found, Record

LEMMA WrittenTyped ==
  ASSUME CInv, NEW id \in Ids, NEW record \in Written(id)
  PROVE  record \in RecordStates /\ record.id = id
BY DEF CInv, CmdTyped, Written, RecordStates, Codings

\* The head that a failed write leaves.
ReservedHead(id) == [id |-> id, coding |-> "plain", head |-> "Reserved"]

LEMMA ReservedTyped ==
  ASSUME NEW id \in Ids
  PROVE  ReservedHead(id) \in RecordStates
BY DEF ReservedHead, RecordStates, Codings

\* How each action changes files.
LEMMA WriteAppends ==
  ASSUME CInv, cpc \in {"read", "write"}, cpc = "read" => cmd.name = "cp",
         NEW id \in Ids, Write(id)
  PROVE  \E r \in RecordStates : r.id = id /\ r \in Written(id) /\ Appends(Out, r)
<1>1. PICK r \in Written(id) : files' = [files EXCEPT ![Out].records = AtEnd(@, r)]
  BY DEF Write
<1>2. Appends(Out, r)
  BY <1>1 DEF Appends, AtEnd, Write, CInv, AtStep
<1> QED  BY <1>1, <1>2, WrittenTyped

LEMMA FailureAppends ==
  ASSUME CInv, cpc \in {"read", "write"}, cpc = "read" => cmd.name = "cp",
         NEW id \in Ids, WriteFails(id)
  PROVE  files' = files \/ Appends(Out, ReservedHead(id))
BY DEF WriteFails, Appends, AtEnd, ReservedHead, CInv, AtStep

LEMMA OtherChanges ==
  ASSUME CInv, Other
  PROVE  /\ Copying /\ InputFile \in Files /\ InputFile # Out
         /\ UNCHANGED <<exchangeVars, cmd, before, cpc, at, pos, i, offset, delivered, exit>>
         /\ \/ \E r \in RecordStates : Appends(InputFile, r)
            \/ \E n : Seals(InputFile, n)
<1>1. Watched /\ UNCHANGED <<exchangeVars, cmd, before, cpc, at, pos, i, offset, delivered, exit>>
  BY DEF Other, OtherReserves, OtherSeals
<1>2. Copying /\ InputFile \in Files /\ InputFile # Out
  BY <1>1, FilesNamed DEF Watched, Copying
<1>3. CASE OtherReserves
  <2>1. Appends(InputFile, ReservedHead("other"))
    BY <1>1, <1>3 DEF OtherReserves, Appends, ReservedHead, Watched
  <2>2. ReservedHead("other") \in RecordStates
    BY CliAssumption, ReservedTyped
  <2> QED  BY <1>1, <1>2, <2>1, <2>2
<1>4. CASE OtherSeals
  <2>1. \E n : Seals(InputFile, n)
    BY <1>4 DEF OtherSeals, Seals
  <2> QED  BY <1>1, <1>2, <2>1
<1> QED  BY <1>3, <1>4 DEF Other

\* The steps that leave all files alone.
Reads ==
  \/ Start \/ OpenInput \/ Skip \/ NextInput \/ ReadFails \/ PrintRecord \/ PrintFails
  \/ FetchPanics \/ Fetch \/ Fetched \/ Fetching \/ UNCHANGED vars

LEMMA ReadsFrame == Reads => UNCHANGED <<cmd, before, files>>
BY DEF Reads, Start, OpenInput, Skip, NextInput, ReadFails, PrintRecord, PrintFails,
       FetchPanics, Fetch, Fetched, Fetching, Quit, toolVars, vars

LEMMA NextKinds ==
  [Next]_vars => Reads \/ OpenOutput \/ CopyRecord \/ CopyFails \/ SaveRecord \/ Other
BY DEF Next, Tool, Reads

Kept ==
  /\ Typed(files') /\ Grows(files, files')
  /\ \A f \in Files : files[f].there => files'[f].there

LEMMA UnchangedKept ==
  ASSUME CInv, files' = files
  PROVE  Kept
<1>1. Typed(files')
  BY DEF CInv, CmdTyped
<1>2. Grows(files, files')
  BY FilesNamed, GrownItself DEF Grows
<1> QED  BY <1>1, <1>2 DEF Kept

LEMMA AppendKept ==
  ASSUME CInv, NEW f \in Files, NEW r \in RecordStates, Appends(f, r)
  PROVE  Kept
<1>1. Typed(files)
  BY DEF CInv, CmdTyped
<1> QED  BY <1>1, AppendsTyped DEF Kept

\* CopyRecord and CopyFails, with what they write.
LEMMA CopyStep ==
  ASSUME CInv, CopyRecord
  PROVE  /\ cpc = "read" /\ cmd.name = "cp" /\ Found = "record" /\ ~ Skips /\ ~ PastCount
         /\ \E r \in RecordStates : r.id = Record.id /\ r \in Written(Record.id) /\ Appends(Out, r)
<1>1. cpc = "read" /\ cmd.name = "cp" /\ Found = "record" /\ Write(Record.id) /\ ~ Skips /\ ~ PastCount
  BY DEF CopyRecord, Selected
<1>2. Record.id \in Ids
  BY <1>1, FoundRecord DEF RecordStates
<1> QED  BY <1>1, <1>2, WriteAppends

LEMMA CopyFailsStep ==
  ASSUME CInv, CopyFails
  PROVE  /\ cpc = "read" /\ cmd.name = "cp" /\ cpc' = "done" /\ exit' = "error"
         /\ \/ files' = files
            \/ \E r \in RecordStates : r.head = "Reserved" /\ Appends(Out, r)
<1>1. cpc = "read" /\ cmd.name = "cp" /\ Found = "record" /\ WriteFails(Record.id)
  BY DEF CopyFails, Selected
<1>2. Record.id \in Ids
  BY <1>1, FoundRecord DEF RecordStates
<1>3. files' = files \/ Appends(Out, ReservedHead(Record.id))
  BY <1>1, <1>2, FailureAppends
<1>4. ReservedHead(Record.id) \in RecordStates /\ ReservedHead(Record.id).head = "Reserved"
  BY <1>2, ReservedTyped DEF ReservedHead
<1>5. cpc' = "done" /\ exit' = "error"
  BY <1>1 DEF WriteFails, Quit
<1> QED  BY <1>1, <1>3, <1>4, <1>5

LEMMA SaveStep ==
  ASSUME CInv, SaveRecord
  PROVE  /\ cpc = "write" /\ cmd.name = "record" /\ cpc' = "done"
         /\ \/ /\ exit' = "ok"
               /\ \E r \in RecordStates : r \in Written("new") /\ Appends(Out, r)
            \/ /\ exit' = "error"
               /\ \/ files' = files
                  \/ \E r \in RecordStates : Appends(Out, r)
<1>1. cpc = "write" /\ cmd.name = "record" /\ "new" \in Ids
  BY CliAssumption DEF SaveRecord, CInv, AtStep
<1>2. CASE Write("new") /\ Quit("ok")
  BY <1>1, <1>2, WriteAppends DEF Quit
<1>3. CASE WriteFails("new")
  <2>1. files' = files \/ Appends(Out, ReservedHead("new"))
    BY <1>1, <1>3, FailureAppends
  <2> QED  BY <1>1, <1>3, <2>1, ReservedTyped DEF WriteFails, Quit
<1> QED  BY <1>2, <1>3 DEF SaveRecord

LEMMA FilesKeptTyped ==
  CInv /\ [Next]_vars => Kept /\ cmd' = cmd /\ before' = before
<1> SUFFICES ASSUME CInv, [Next]_vars PROVE Kept /\ cmd' = cmd /\ before' = before
  OBVIOUS
<1>1. Out \in Files
  BY FilesNamed
<1>2. CASE Reads
  BY <1>2, ReadsFrame, UnchangedKept
<1>3. CASE OpenOutput
  <2>1. files' = files \/ Opens(Out)
    BY <1>3 DEF OpenOutput, Opens
  <2>2. CASE Opens(Out)
    <3>1. Typed(files)
      BY DEF CInv, CmdTyped
    <3> QED  BY <1>1, <1>3, <2>2, <3>1, OpensTyped DEF Kept, OpenOutput
  <2> QED  BY <1>3, <2>1, <2>2, UnchangedKept DEF OpenOutput
<1>4. CASE CopyRecord
  BY <1>1, <1>4, CopyStep, AppendKept DEF CopyRecord
<1>5. CASE CopyFails
  BY <1>1, <1>5, CopyFailsStep, AppendKept, UnchangedKept DEF CopyFails
<1>6. CASE SaveRecord
  BY <1>1, <1>6, SaveStep, AppendKept, UnchangedKept DEF SaveRecord
<1>7. CASE Other
  <2>1. /\ InputFile \in Files /\ UNCHANGED <<cmd, before>>
        /\ \/ \E r \in RecordStates : Appends(InputFile, r)
           \/ \E n : Seals(InputFile, n)
    BY <1>7, OtherChanges
  <2>2. ASSUME NEW n, Seals(InputFile, n) PROVE Kept
    <3>1. Typed(files)
      BY DEF CInv, CmdTyped
    <3> QED  BY <2>1, <2>2, <3>1, SealsTyped DEF Kept
  <2> QED  BY <2>1, <2>2, AppendKept
<1> QED  BY <1>2, <1>3, <1>4, <1>5, <1>6, <1>7, NextKinds

LEMMA NextCInv == CInv /\ [Next]_vars => CInv'
<1> SUFFICES ASSUME CInv, [Next]_vars PROVE CInv'
  OBVIOUS
<1>1. Kept /\ cmd' = cmd /\ before' = before
  BY FilesKeptTyped
<1>2. Typed(before') /\ Typed(files')
  BY <1>1 DEF Kept, CInv, CmdTyped
<1>3. pos' \in Nat /\ i' \in Nat /\ offset' \in Nat
  <2>1. StartOffset \in Nat /\ pos \in Nat /\ i \in Nat /\ offset \in Nat /\ Width \in Nat
    BY DEF StartOffset, CInv, CmdTyped, Width
  <2>2. \/ UNCHANGED <<pos, i, offset>>
        \/ pos' = StartOffset /\ offset' = StartOffset /\ i' = 0
        \/ i' = i + 1 /\ pos' = pos + Width /\ offset' \in {offset, OffsetAfter(pos)}
    BY DEF Next, Tool, Start, OpenInput, OpenOutput, Skip, NextInput, ReadFails, PrintRecord,
           PrintFails, CopyRecord, CopyFails, FetchPanics, Fetch, Fetched, SaveRecord,
           Fetching, Other, OtherReserves, OtherSeals, toolVars, vars
  <2> QED  BY <2>1, <2>2 DEF OffsetAfter
<1>4. /\ Copying => at' \in 1 .. Len(cmd.ins)
      /\ ~ Copying => at' = 1
  <2>1. at' = at \/ (NextInput /\ ~ IsLast /\ at' = at + 1)
    BY DEF Next, Tool, Start, OpenInput, OpenOutput, Skip, NextInput, ReadFails, PrintRecord,
           PrintFails, CopyRecord, CopyFails, FetchPanics, Fetch, Fetched, SaveRecord,
           Fetching, Other, OtherReserves, OtherSeals, toolVars, vars
  <2>2. CASE NextInput /\ ~ IsLast /\ at' = at + 1
    <3>1. Copying /\ at \in 1 .. Len(cmd.ins) /\ Len(cmd.ins) \in Nat /\ at # Len(cmd.ins)
      BY <2>2, LenProperties DEF NextInput, CInv, CmdTyped, AtStep, IsLast
    <3> QED  BY <2>2, <3>1
  <2> QED  BY <2>1, <2>2 DEF CInv, CmdTyped
<1>5. CmdTyped'
  BY <1>1, <1>2, <1>3, <1>4 DEF CInv, CmdTyped, Copying
<1>6. Out' = Out /\ (Copying' = Copying) /\ (Refused' = Refused) /\ Out \in Files
  BY <1>1, FilesNamed DEF Out, Copying, Refused, Filters
<1>7. AtStep'
  <2>1. CASE UNCHANGED <<cpc, exit>>
    BY <1>1, <1>6, <2>1 DEF CInv, AtStep, Kept
  <2>2. CASE cpc' = "done" /\ exit' \in {"ok", "error", "panic"}
    BY <2>2 DEF AtStep
  <2>3. CASE Start
    BY <1>1, <1>6, <2>3, <2>2 DEF Start, CInv, CmdTyped, AtStep, Quit, Copying
  <2>4. CASE OpenInput
    BY <1>1, <1>6, <2>4, <2>2 DEF OpenInput, CInv, CmdTyped, AtStep, Quit, Copying
  <2>5. CASE OpenOutput
    <3>1. CASE Opens(Out) /\ cpc' = (IF cpc = "writer" THEN "read" ELSE "write") /\ exit' = exit
      <4>1. files'[Out].there
        <5>1. Typed(files)
          BY DEF CInv, CmdTyped
        <5> QED  BY <1>6, <3>1, <5>1, OpensTyped
      <4> QED  BY <1>1, <1>6, <2>5, <3>1, <4>1 DEF OpenOutput, CInv, AtStep
    <3> QED  BY <2>2, <2>5, <3>1 DEF OpenOutput, Quit, Opens
  <2>6. CASE NextInput
    BY <1>1, <1>6, <2>6, <2>2 DEF NextInput, CInv, AtStep, Quit
  <2>7. CASE Fetched
    BY <1>1, <1>6, <2>7, <2>2 DEF Fetched, CInv, CmdTyped, AtStep, Quit, Copying
  <2>8. CASE SaveRecord \/ CopyFails
    BY <2>2, <2>8, SaveStep, CopyFailsStep
  <2>9. CASE ReadFails \/ PrintFails \/ FetchPanics
    BY <2>2, <2>9 DEF ReadFails, PrintFails, FetchPanics, Quit
  <2>10. CASE Skip \/ PrintRecord \/ CopyRecord \/ Fetch \/ Fetching \/ Other \/ UNCHANGED vars
    BY <2>1, <2>10 DEF Skip, PrintRecord, CopyRecord, Fetch, Fetching, Other, OtherReserves,
                       OtherSeals, toolVars, vars
  <2> QED  BY <2>3, <2>4, <2>5, <2>6, <2>7, <2>8, <2>9, <2>10, NextKinds DEF Reads
<1> QED  BY <1>5, <1>7 DEF CInv

LEMMA CommandInvariant == Spec => []CInv
<1>1. Init => CInv
  BY InitCInv
<1>2. CInv /\ [Next]_vars => CInv'
  BY NextCInv
<1> QED  BY <1>1, <1>2, PTL DEF Spec

\* The tool and the exchange keep to their states, and the files to their bound.
THEOREM TypeCorrect == Spec => []TypeOK
<1>1. IInv /\ DInv /\ CInv => TypeOK
  <2> SUFFICES ASSUME IInv, DInv, CInv PROVE TypeOK
    OBVIOUS
  <2>1. ExchangeTypeOK
    BY DecodedTyped DEF IInv, Timed, DInv, Arrived, ExchangeTypeOK
  <2>2. at \in 1 .. Len(cmd.ins) \cup {1}
    BY DEF CInv, CmdTyped
  <2> QED  BY <2>1, <2>2 DEF CInv, CmdTyped, AtStep, Typed, TypeOK
<1> QED  BY <1>1, Invariant, DialogInvariant, CommandInvariant, PTL

-----------------------------------------------------------------------------
(* What commands make of the files. *)

\* cat and cp: only the output of cp, and the input, ever change; the output holds what it
\* held and the copies, until a write fails.
Copied ==
  Copying =>
    /\ \A f \in Files \ {Out, InputFile} : files[f] = before[f]
    /\ cmd.name = "cat" /\ Out # InputFile => files[Out] = before[Out]
    /\ cmd.name = "cp" =>
         LET old == before[Out].records
             new == files[Out].records
         IN /\ Len(new) >= Len(old) + Len(delivered)
            /\ \A k \in 1 .. Len(old) : new[k] = old[k]
            /\ \A k \in 1 .. Len(delivered) : new[Len(old) + k].id = delivered[k].id
            /\ Len(new) > Len(old) + Len(delivered) =>
                 /\ exit = "error" /\ Len(new) = Len(old) + Len(delivered) + 1
                 /\ new[Len(new)].head = "Reserved"

\* record: no file is touched until there is a dialog.
Saved ==
  cmd.name = "record" =>
    /\ cpc \in {"start", "fetch", "save"} \/ failure # "-" => files = before
    /\ cpc \in {"save", "write"} => xpc = "dialog"
    /\ cpc = "write" => files = [before EXCEPT ![Out] = Opened(@)]
    /\ exit = "ok" =>
         /\ xpc = "dialog"
         /\ files = [before EXCEPT ![Out] = [there |-> TRUE, records |-> files[Out].records]]
         /\ \E record \in Written("new") :
              files[Out].records = Append(before[Out].records, record)

Deliveries == [input : Nat, shown : Nat, pos : Nat, id : Ids]

FInv == delivered \in Seq(Deliveries) /\ Copied /\ Saved

LEMMA InitFInv == Init => FInv
<1> SUFFICES ASSUME Init PROVE FInv
  OBVIOUS
<1>1. delivered = << >> /\ files = before /\ exit = "-" /\ cpc = "start"
  BY DEF Init
<1>2. CInv
  BY InitCInv
<1>3. delivered \in Seq(Deliveries) /\ Len(delivered) = 0
  BY <1>1, EmptySeq
<1>4. Copied
  <2>1. Len(before[Out].records) \in Nat
    BY <1>2, FilesNamed, LenProperties
  <2> QED  BY <1>1, <1>3, <2>1 DEF Copied
<1>5. Saved
  BY <1>1 DEF Saved
<1> QED  BY <1>3, <1>4, <1>5 DEF FInv

\* A delivery is one of the record that was found.
LEMMA DeliverStep ==
  ASSUME CInv, delivered \in Seq(Deliveries), cpc = "read", Found = "record", Deliver
  PROVE  LET d == [input |-> at, shown |-> offset, pos |-> pos, id |-> Record.id]
         IN /\ d \in Deliveries
            /\ delivered' \in Seq(Deliveries) /\ Len(delivered') = Len(delivered) + 1
            /\ \A k \in 1 .. Len(delivered) : delivered'[k] = delivered[k]
            /\ delivered'[Len(delivered) + 1] = d
<1> DEFINE d == [input |-> at, shown |-> offset, pos |-> pos, id |-> Record.id]
<1>1. d \in Deliveries
  <2>1. at \in Nat /\ offset \in Nat /\ pos \in Nat
    BY LenProperties DEF CInv, CmdTyped
  <2>2. Record.id \in Ids
    BY FoundRecord DEF RecordStates
  <2> QED  BY <2>1, <2>2 DEF Deliveries
<1>2. delivered' = Append(delivered, d)
  BY DEF Deliver
<1> HIDE DEF d
<1>3. /\ delivered' \in Seq(Deliveries) /\ Len(delivered') = Len(delivered) + 1
      /\ \A k \in 1 .. Len(delivered) : delivered'[k] = delivered[k]
      /\ delivered'[Len(delivered) + 1] = d
  BY <1>1, <1>2, AppendProperties
<1> QED  BY <1>1, <1>3 DEF d

LEMMA OutputTyped ==
  CInv /\ delivered \in Seq(Deliveries) =>
    /\ Out \in Files
    /\ files[Out].records \in Seq(RecordStates) /\ before[Out].records \in Seq(RecordStates)
    /\ Len(files[Out].records) \in Nat /\ Len(before[Out].records) \in Nat /\ Len(delivered) \in Nat
BY FilesNamed, LenProperties

\* What comes after a write of r, by the lengths before it.
LEMMA CopiedAppends ==
  ASSUME CInv, FInv, cmd.name = "cp", cmd' = cmd, before' = before, cpc = "read",
         NEW r \in RecordStates, Appends(Out, r), delivered' \in Seq(Deliveries),
         \/ /\ Len(delivered') = Len(delivered) + 1
            /\ \A k \in 1 .. Len(delivered) : delivered'[k] = delivered[k]
            /\ delivered'[Len(delivered) + 1].id = r.id
         \/ delivered' = delivered /\ r.head = "Reserved" /\ exit' = "error"
  PROVE  Copied'
<1> DEFINE old == before[Out].records
           new == files[Out].records
           next == files'[Out].records
<1>1. /\ Out \in Files /\ new \in Seq(RecordStates)
      /\ Len(new) \in Nat /\ Len(old) \in Nat /\ Len(delivered) \in Nat
  BY OutputTyped DEF FInv
<1>2. /\ Typed(files) /\ Copying /\ exit # "error"
  BY DEF CInv, CmdTyped, AtStep, Copying
<1>3. /\ next = Append(new, r)
      /\ \A f \in Files : f # Out => files'[f] = files[f]
  BY <1>1, <1>2, AppendsTyped
<1>4. /\ Len(next) = Len(new) + 1
      /\ \A k \in 1 .. Len(new) : next[k] = new[k]
      /\ next[Len(new) + 1] = r
  BY <1>1, <1>3, GrownByOne
<1>5. /\ \A f \in Files \ {Out, InputFile} : files[f] = before[f]
      /\ Len(new) = Len(old) + Len(delivered)
      /\ \A k \in 1 .. Len(old) : new[k] = old[k]
      /\ \A k \in 1 .. Len(delivered) : new[Len(old) + k].id = delivered[k].id
  <2>1. /\ \A f \in Files \ {Out, InputFile} : files[f] = before[f]
        /\ Len(new) >= Len(old) + Len(delivered)
        /\ \A k \in 1 .. Len(old) : new[k] = old[k]
        /\ \A k \in 1 .. Len(delivered) : new[Len(old) + k].id = delivered[k].id
        /\ ~ (Len(new) > Len(old) + Len(delivered))
    BY <1>2, Zenon DEF FInv, Copied
  <2> HIDE DEF old, new
  <2>2. Len(new) = Len(old) + Len(delivered)
    BY ONLY <1>1, <2>1
  <2> QED  BY <2>1, <2>2
<1>6. /\ Out' = Out /\ InputFile' = InputFile /\ (Copying' = Copying) /\ cmd'.name = "cp"
      /\ before'[Out] = before[Out]
  BY DEF Out, InputFile, Copying
<1>7. \A f \in Files \ {Out, InputFile} : files'[f] = before'[f]
  BY <1>3, <1>5
<1> HIDE DEF old, new, next
<1>8. \A k \in 1 .. Len(old) : next[k] = old[k]
  BY ONLY <1>1, <1>4, <1>5
<1> DEFINE Continues ==
             /\ Len(next) >= Len(old) + Len(delivered')
             /\ \A k \in 1 .. Len(delivered') : next[Len(old) + k].id = delivered'[k].id
             /\ Len(next) > Len(old) + Len(delivered') =>
                  /\ exit' = "error" /\ Len(next) = Len(old) + Len(delivered') + 1
                  /\ next[Len(next)].head = "Reserved"
<1>9. Len(delivered') \in Nat
  BY LenProperties
<1> HIDE DEF Continues
<1>a. ASSUME Len(delivered') = Len(delivered) + 1,
             \A k \in 1 .. Len(delivered) : delivered'[k] = delivered[k],
             delivered'[Len(delivered) + 1].id = r.id
      PROVE  Continues
  <2>1. Len(next) = Len(old) + Len(delivered')
    BY ONLY <1>1, <1>4, <1>5, <1>a
  <2>2. \A k \in 1 .. Len(delivered') : next[Len(old) + k].id = delivered'[k].id
    <3> SUFFICES ASSUME NEW k \in 1 .. Len(delivered')
                 PROVE  next[Len(old) + k].id = delivered'[k].id
      OBVIOUS
    <3>1. CASE k \in 1 .. Len(delivered)
      <4>1. Len(old) + k \in 1 .. Len(new)
        BY <1>1, <1>5, <3>1
      <4> QED  BY <1>4, <1>5, <1>a, <3>1, <4>1
    <3>2. CASE k = Len(delivered) + 1
      <4>1. Len(old) + k = Len(new) + 1
        BY <1>1, <1>5, <3>2
      <4> QED  BY <1>4, <1>a, <3>2, <4>1
    <3> QED  BY <1>1, <1>a, <3>1, <3>2
  <2> QED  BY ONLY <1>1, <1>9, <2>1, <2>2 DEF Continues
<1>10. ASSUME delivered' = delivered, r.head = "Reserved", exit' = "error"
       PROVE  Continues
  <2>1. /\ Len(next) = Len(old) + Len(delivered') + 1
        /\ next[Len(next)].head = "Reserved"
    BY ONLY <1>1, <1>4, <1>5, <1>10
  <2>2. \A k \in 1 .. Len(delivered') : next[Len(old) + k].id = delivered'[k].id
    <3> SUFFICES ASSUME NEW k \in 1 .. Len(delivered)
                 PROVE  next[Len(old) + k].id = delivered[k].id
      BY <1>10
    <3>1. Len(old) + k \in 1 .. Len(new)
      BY <1>1, <1>5
    <3> QED  BY <1>4, <1>5, <3>1
  <2> QED  BY ONLY <1>1, <1>9, <1>10, <2>1, <2>2 DEF Continues
<1>11. Continues
  BY <1>a, <1>10
<1>12. cmd'.name # "cat"
  BY ONLY <1>6
<1>13. before'[Out'].records = old /\ files'[Out'].records = next
  BY ONLY <1>6 DEF old, next
<1> QED  BY ONLY <1>6, <1>7, <1>8, <1>11, <1>12, <1>13, Zenon DEF Copied, Continues

\* The output, and what was delivered, are the same as before.
LEMMA CopiedSame ==
  ASSUME CInv, FInv, cmd' = cmd, before' = before,
         files'[Out].records = files[Out].records,
         cmd.name = "cat" => files'[Out] = files[Out],
         \A f \in Files \ {Out, InputFile} : files'[f] = files[f],
         cmd.name = "cat" \/ delivered' = delivered,
         exit' = exit \/ exit = "-"
  PROVE  Copied'
<1>1. Out' = Out /\ InputFile' = InputFile /\ (Copying' = Copying)
  BY DEF Out, InputFile, Copying
<1>2. /\ Len(files[Out].records) \in Nat /\ Len(before[Out].records) \in Nat
      /\ Len(delivered) \in Nat
  BY OutputTyped DEF FInv
<1> SUFFICES ASSUME Copying PROVE Copied'
  BY <1>1 DEF Copied
<1>3. CASE cmd.name = "cat"
  BY <1>1, <1>3 DEF FInv, Copied
<1>4. CASE cmd.name = "cp"
  <2>1. delivered' = delivered
    BY <1>4
  <2>2. Len(files[Out].records) > Len(before[Out].records) + Len(delivered) => exit' = "error"
    BY <1>4 DEF FInv, Copied
  <2>3. /\ \A f \in Files \ {Out, InputFile} : files[f] = before[f]
        /\ Len(files[Out].records) >= Len(before[Out].records) + Len(delivered)
        /\ \A k \in 1 .. Len(before[Out].records) : files[Out].records[k] = before[Out].records[k]
        /\ \A k \in 1 .. Len(delivered) :
             files[Out].records[Len(before[Out].records) + k].id = delivered[k].id
        /\ Len(files[Out].records) > Len(before[Out].records) + Len(delivered) =>
             /\ Len(files[Out].records) = Len(before[Out].records) + Len(delivered) + 1
             /\ files[Out].records[Len(files[Out].records)].head = "Reserved"
    BY <1>4, Zenon DEF FInv, Copied
  <2>4. \A f \in Files \ {Out, InputFile} : files'[f] = before'[f]
    BY <2>3
  <2> DEFINE old == before[Out].records
             new == files'[Out].records
  <2>5. /\ Len(new) >= Len(old) + Len(delivered')
        /\ \A k \in 1 .. Len(old) : new[k] = old[k]
        /\ \A k \in 1 .. Len(delivered') : new[Len(old) + k].id = delivered'[k].id
        /\ Len(new) > Len(old) + Len(delivered') =>
             /\ exit' = "error" /\ Len(new) = Len(old) + Len(delivered') + 1
             /\ new[Len(new)].head = "Reserved"
    BY <2>1, <2>2, <2>3, Zenon
  <2>6. before'[Out'] = before[Out] /\ files'[Out'] = files'[Out] /\ cmd'.name # "cat"
    BY <1>1, <1>4
  <2> QED  BY ONLY <1>1, <2>4, <2>5, <2>6, Zenon DEF Copied
<1> QED  BY <1>3, <1>4 DEF Copying

LEMMA ReadsExit ==
  CInv /\ (Reads \/ OpenOutput) =>
    /\ exit' = exit \/ exit = "-"
    /\ delivered' = delivered \/ (cmd.name = "cat" /\ cpc = "read" /\ Found = "record" /\ Deliver)
BY DEF CInv, AtStep, Reads, Start, OpenInput, OpenOutput, Skip, NextInput, ReadFails,
       PrintRecord, PrintFails, Selected, FetchPanics, Fetch, Fetched, Fetching, Quit,
       toolVars, vars

LEMMA NextCopied == CInv /\ FInv /\ [Next]_vars => Copied'
<1> SUFFICES ASSUME CInv, FInv, [Next]_vars PROVE Copied'
  OBVIOUS
<1>1. Kept /\ cmd' = cmd /\ before' = before
  BY FilesKeptTyped
<1>2. Out \in Files /\ Typed(files) /\ delivered \in Seq(Deliveries)
  BY FilesNamed DEF CInv, CmdTyped, FInv
<1>3. CASE Reads
  BY <1>1, <1>3, ReadsFrame, ReadsExit, CopiedSame
<1>4. CASE OpenOutput
  <2>1. CASE files' = files
    BY <1>1, <1>4, <2>1, ReadsExit, CopiedSame
  <2>2. CASE Opens(Out)
    <3>1. /\ files'[Out].records = files[Out].records
          /\ \A f \in Files : f # Out => files'[f] = files[f]
      BY <1>2, <2>2, OpensTyped
    <3>2. cmd.name # "cat"
      BY <1>4 DEF OpenOutput, CInv, AtStep
    <3> QED  BY <1>1, <1>4, <3>1, <3>2, ReadsExit, CopiedSame
  <2> QED  BY <1>4, <2>1, <2>2 DEF OpenOutput, Opens
<1>5. CASE CopyRecord
  <2>1. /\ cpc = "read" /\ cmd.name = "cp" /\ Found = "record"
        /\ \E r \in RecordStates : r.id = Record.id /\ Appends(Out, r)
    BY <1>5, CopyStep
  <2>2. /\ delivered' \in Seq(Deliveries) /\ Len(delivered') = Len(delivered) + 1
        /\ \A k \in 1 .. Len(delivered) : delivered'[k] = delivered[k]
        /\ delivered'[Len(delivered) + 1].id = Record.id
    BY <1>2, <1>5, <2>1, DeliverStep DEF CopyRecord
  <2> QED  BY <1>1, <2>1, <2>2, CopiedAppends
<1>6. CASE CopyFails
  <2>1. /\ cpc = "read" /\ cmd.name = "cp" /\ exit' = "error" /\ delivered' = delivered
        /\ exit = "-"
        /\ \/ files' = files
           \/ \E r \in RecordStates : r.head = "Reserved" /\ Appends(Out, r)
    BY <1>6, CopyFailsStep DEF CopyFails, CInv, AtStep
  <2>2. CASE files' = files
    BY <1>1, <2>1, <2>2, CopiedSame
  <2> QED  BY <1>1, <1>2, <2>1, <2>2, CopiedAppends
<1>7. CASE SaveRecord
  BY <1>1, <1>7, SaveStep DEF Copied, Copying
<1>8. CASE Other
  <2>1. /\ InputFile \in Files /\ InputFile # Out
        /\ delivered' = delivered /\ exit' = exit
        /\ \/ \E r \in RecordStates : Appends(InputFile, r)
           \/ \E n : Seals(InputFile, n)
    BY <1>8, OtherChanges
  <2>2. \A f \in Files : f # InputFile => files'[f] = files[f]
    BY <1>2, <2>1, AppendsTyped, SealsTyped
  <2> QED  BY <1>1, <1>2, <2>1, <2>2, CopiedSame
<1> QED  BY <1>3, <1>4, <1>5, <1>6, <1>7, <1>8, NextKinds

\* A file that is there is what its records are.
LEMMA FileThere ==
  ASSUME NEW f \in FileStates, f.there
  PROVE  f = [there |-> TRUE, records |-> f.records]
BY DEF FileStates

LEMMA NextSaved == CInv /\ DInv /\ FInv /\ [Next]_vars => Saved'
<1> SUFFICES ASSUME CInv, DInv, FInv, [Next]_vars PROVE Saved'
  OBVIOUS
<1>a. cmd' = cmd
  BY FilesKeptTyped
<1>b. Typed(files')
  BY FilesKeptTyped DEF Kept
<1> SUFFICES ASSUME cmd.name = "record" PROVE Saved'
  BY <1>a DEF Saved
<1>1. cmd' = cmd /\ before' = before /\ Out' = Out /\ ~ Copying /\ Out \in Files
  BY FilesKeptTyped, FilesNamed DEF Out, Copying
<1>2. /\ cpc \in {"start", "fetch", "save"} \/ failure # "-" => files = before
      /\ cpc \in {"save", "write"} => xpc = "dialog"
      /\ cpc = "write" => files = [before EXCEPT ![Out] = Opened(@)]
      /\ (exit = "-") = (cpc # "done")
      /\ (xpc = "failed") = (failure # "-")
      /\ cpc \notin {"open", "writer", "read"}
  BY <1>1 DEF FInv, Saved, DInv, Arrived, CInv, AtStep
<1>3. Written("new")' = Written("new")
  BY <1>1 DEF Written
<1>4. CASE UNCHANGED vars
  BY <1>1, <1>3, <1>4 DEF FInv, Saved, vars, exchangeVars, toolVars
<1>5. CASE Start
  BY <1>1, <1>2, <1>5 DEF Saved, Start, Quit, exchangeVars
<1>6. CASE Fetch \/ Fetching
  BY <1>1, <1>2, <1>6 DEF Saved, Fetch, Fetching, toolVars
<1>7. CASE Fetched \/ FetchPanics
  BY <1>1, <1>2, <1>7 DEF Saved, Fetched, FetchPanics, Quit, exchangeVars
<1>8. CASE OpenOutput
  BY <1>1, <1>2, <1>8 DEF Saved, OpenOutput, Quit, exchangeVars
<1>9. CASE SaveRecord
  <2>1. cpc = "write" /\ xpc = "dialog" /\ failure = "-" /\ cpc' = "done"
        /\ UNCHANGED exchangeVars
    BY <1>2, <1>9, SaveStep DEF SaveRecord
  <2>2. CASE exit' = "error"
    BY <1>1, <2>1, <2>2 DEF Saved, exchangeVars
  <2>3. CASE exit' = "ok" /\ \E r \in RecordStates : r \in Written("new") /\ Appends(Out, r)
    <3>1. PICK r \in Written("new") : Appends(Out, r)
      BY <2>3
    <3>2. files = [before EXCEPT ![Out] = Opened(@)] /\ before \in [Files -> FileStates]
      BY <1>2, <2>1 DEF CInv, CmdTyped, Typed
    <3>3. files[Out] = [there |-> TRUE, records |-> before[Out].records]
      BY <1>1, <3>2 DEF Opened
    <3>4. files'[Out] = [there |-> TRUE, records |-> Append(before[Out].records, r)]
      <4>1. /\ files'[Out].records = Append(files[Out].records, r)
            /\ files'[Out] \in FileStates /\ files'[Out].there
        <5>1. Typed(files) /\ r \in RecordStates
          BY <3>1, CliAssumption, WrittenTyped DEF CInv, CmdTyped
        <5>2. Typed(files')
          BY <1>1, <3>1, <5>1, AppendsTyped
        <5> QED  BY <1>1, <3>1, <5>1, <5>2, AppendsTyped DEF Typed, Appends
      <4>2. files'[Out].records = Append(before[Out].records, r)
        BY <3>3, <4>1
      <4> QED  BY <4>1, <4>2, FileThere
    <3>5. /\ files' = [before EXCEPT ![Out] = [there |-> TRUE, records |-> Append(before[Out].records, r)]]
          /\ files'[Out].records = Append(before[Out].records, r)
      <4>1. \A f \in Files : f # Out => files'[f] = before[f]
        <5>1. Typed(files) /\ r \in RecordStates
          BY <3>1, CliAssumption, WrittenTyped DEF CInv, CmdTyped
        <5>2. \A f \in Files : f # Out => files'[f] = files[f]
          BY <1>1, <3>1, <5>1, AppendsTyped
        <5> QED  BY <3>2, <5>2
      <4>2. files' \in [Files -> FileStates]
        BY <1>b DEF Typed
      <4> DEFINE written == [there |-> TRUE, records |-> Append(before[Out].records, r)]
      <4>3. written.records = Append(before[Out].records, r)
        OBVIOUS
      <4>4. files'[Out] = written
        BY <3>4
      <4> HIDE DEF written
      <4>5. files' = [before EXCEPT ![Out] = written]
        BY <1>1, <3>2, <4>1, <4>2, <4>4
      <4> QED  BY <4>3, <4>4, <4>5 DEF written
    <3> QED  BY <1>1, <1>3, <2>1, <2>3, <3>1, <3>5 DEF Saved, exchangeVars
  <2> QED  BY <1>9, <2>2, <2>3, SaveStep
<1>10. ~ (OpenInput \/ Skip \/ NextInput \/ ReadFails \/ PrintRecord \/ PrintFails \/ CopyRecord \/ CopyFails)
  BY <1>2 DEF OpenInput, Skip, NextInput, ReadFails, PrintRecord, PrintFails, CopyRecord,
              CopyFails, Selected
<1>11. ~ Other
  BY <1>1, OtherChanges
<1> QED  BY <1>4, <1>5, <1>6, <1>7, <1>8, <1>9, <1>10, <1>11, NextKinds DEF Reads

LEMMA NextDelivered == CInv /\ FInv /\ [Next]_vars => delivered' \in Seq(Deliveries)
<1> SUFFICES ASSUME CInv, FInv, [Next]_vars PROVE delivered' \in Seq(Deliveries)
  OBVIOUS
<1>1. CASE delivered' = delivered
  BY <1>1 DEF FInv
<1>2. CASE cpc = "read" /\ Found = "record" /\ Deliver
  BY <1>2, DeliverStep DEF FInv
<1>3. CASE CopyRecord
  BY <1>2, <1>3, CopyStep DEF CopyRecord
<1> QED  BY <1>1, <1>2, <1>3, ReadsExit, NextKinds DEF CopyFails, SaveRecord, Other, OtherReserves, OtherSeals

LEMMA FilesInvariant == Spec => []FInv
<1>1. Init => FInv
  BY InitFInv
<1>2. CInv /\ DInv /\ FInv /\ [Next]_vars => FInv'
  BY NextCopied, NextSaved, NextDelivered DEF FInv
<1> QED  BY <1>1, <1>2, CommandInvariant, DialogInvariant, PTL DEF Spec

\* A list that agrees with a longer one is a prefix of it.
LEMMA PrefixByElements ==
  ASSUME NEW S, NEW s \in Seq(S), NEW t \in Seq(S), Len(s) <= Len(t),
         \A k \in 1 .. Len(s) : s[k] = t[k]
  PROVE  IsPrefix(s, t)
<1>1. Len(s) \in Nat /\ Len(t) \in Nat
  BY LenProperties
<1> DEFINE u == SubSeq(t, 1, Len(s))
<1>2. /\ u \in Seq(S) /\ Len(u) = Len(s)
      /\ \A k \in 1 .. Len(s) : u[k] = t[k]
  BY <1>1
<1>3. s = u
  BY <1>1, <1>2, SeqEqual
<1>4. SubSeq(s, 1, Len(s)) = s
  BY SubSeqFull
<1> QED  BY <1>3, <1>4 DEF IsPrefix

\* The ids of a list.
LEMMA IdsListed ==
  ASSUME NEW T, NEW s \in Seq(T), \A e \in T : e.id \in Ids
  PROVE  LET ids == [k \in DOMAIN s |-> s[k].id]
         IN ids \in Seq(Ids) /\ Len(ids) = Len(s) /\ \A k \in 1 .. Len(s) : ids[k] = s[k].id
<1>1. Len(s) \in Nat /\ DOMAIN s = 1 .. Len(s)
  BY LenProperties
<1>2. \A k \in 1 .. Len(s) : s[k].id \in Ids
  BY ElementOfSeq
<1> DEFINE ids == [k \in 1 .. Len(s) |-> s[k].id]
<1>3. ids \in Seq(Ids) /\ Len(ids) = Len(s)
  <2>1. ids \in [1 .. Len(s) -> Ids]
    BY <1>2
  <2> HIDE DEF ids
  <2> QED  BY <1>1, <2>1
<1> QED  BY <1>1, <1>3

LEMMA CopiesAsListed == CInv /\ FInv => CopiesFollow
<1> SUFFICES ASSUME CInv, FInv, Copying PROVE CopiesFollow
  BY DEF CopiesFollow, Copying
<1> DEFINE old == before[Out].records
           all == files[Out].records
           oldIds == [k \in DOMAIN old |-> old[k].id]
           delIds == [k \in DOMAIN delivered |-> delivered[k].id]
           ids == oldIds \o delIds
           new == [k \in DOMAIN all |-> all[k].id]
<1>1. /\ old \in Seq(RecordStates) /\ all \in Seq(RecordStates) /\ delivered \in Seq(Deliveries)
      /\ Len(old) \in Nat /\ Len(all) \in Nat /\ Len(delivered) \in Nat
      /\ DOMAIN old = 1 .. Len(old) /\ DOMAIN all = 1 .. Len(all)
      /\ DOMAIN delivered = 1 .. Len(delivered)
  BY OutputTyped, LenProperties DEF FInv
<1>2. /\ \A f \in Files \ {Out, InputFile} : files[f] = before[f]
      /\ cmd.name = "cat" => files[Out] = before[Out] \/ Out = InputFile
  BY DEF FInv, Copied
<1>3. CASE cmd.name = "cp"
  <2>1. /\ Len(all) >= Len(old) + Len(delivered)
        /\ \A k \in 1 .. Len(old) : all[k] = old[k]
        /\ \A k \in 1 .. Len(delivered) : all[Len(old) + k].id = delivered[k].id
        /\ Len(all) > Len(old) + Len(delivered) =>
             /\ exit = "error" /\ Len(all) = Len(old) + Len(delivered) + 1
             /\ all[Len(all)].head = "Reserved"
    BY <1>3, Zenon DEF FInv, Copied
  <2>2. /\ oldIds \in Seq(Ids) /\ Len(oldIds) = Len(old)
        /\ delIds \in Seq(Ids) /\ Len(delIds) = Len(delivered)
        /\ new \in Seq(Ids) /\ Len(new) = Len(all)
    <3>1. (\A e \in RecordStates : e.id \in Ids) /\ (\A e \in Deliveries : e.id \in Ids)
      BY DEF RecordStates, Deliveries
    <3> HIDE DEF old, all
    <3> QED  BY <1>1, <3>1, IdsListed
  <2>3. /\ ids \in Seq(Ids) /\ Len(ids) = Len(old) + Len(delivered)
        /\ \A k \in 1 .. Len(old) + Len(delivered) :
             ids[k] = IF k <= Len(old) THEN oldIds[k] ELSE delIds[k - Len(old)]
    <3> HIDE DEF oldIds, delIds, old, all, new
    <3>1. /\ ids \in Seq(Ids) /\ Len(ids) = Len(oldIds) + Len(delIds)
          /\ \A k \in 1 .. Len(oldIds) + Len(delIds) :
               ids[k] = IF k <= Len(oldIds) THEN oldIds[k] ELSE delIds[k - Len(oldIds)]
      BY <2>2, ConcatProperties
    <3> HIDE DEF ids
    <3> QED  BY ONLY <2>2, <3>1
  <2>4. IsPrefix(old, all)
    <3>1. old \in Seq(RecordStates) /\ all \in Seq(RecordStates)
      BY <1>1
    <3>2. Len(old) <= Len(all)
      BY <1>1, <2>1
    <3>3. \A k \in 1 .. Len(old) : old[k] = all[k]
      BY <2>1
    <3> HIDE DEF old, all
    <3> QED  BY ONLY <3>1, <3>2, <3>3, PrefixByElements
  <2>5. IsPrefix(ids, new)
    <3>1. \A k \in 1 .. Len(ids) : ids[k] = new[k]
      <4> SUFFICES ASSUME NEW k \in 1 .. Len(old) + Len(delivered) PROVE ids[k] = new[k]
        BY <2>3
      <4>1. CASE k <= Len(old)
        <5>1. k \in 1 .. Len(old) /\ k \in 1 .. Len(all)
          BY <1>1, <2>1, <4>1
        <5>2. oldIds[k] = old[k].id /\ new[k] = all[k].id /\ all[k] = old[k]
          BY <1>1, <2>1, <5>1
        <5> QED  BY <2>3, <4>1, <5>2
      <4>2. CASE ~ (k <= Len(old))
        <5> DEFINE j == k - Len(old)
        <5>1. j \in 1 .. Len(delivered) /\ k \in 1 .. Len(all) /\ k = Len(old) + j
          BY <1>1, <2>1, <4>2
        <5>2. delIds[j] = delivered[j].id /\ new[k] = all[k].id /\ all[k].id = delivered[j].id
          BY <1>1, <2>1, <5>1
        <5> QED  BY <2>3, <4>2, <5>2
      <4> QED  BY <4>1, <4>2
    <3>2. Len(ids) <= Len(new)
      BY <1>1, <2>1, <2>2, <2>3
    <3> HIDE DEF ids, new
    <3> QED  BY <2>2, <2>3, <3>1, <3>2, PrefixByElements
  <2>6. Len(new) > Len(ids) =>
          exit = "error" /\ Len(new) = Len(ids) + 1 /\ all[Len(new)].head = "Reserved"
    BY <2>1, <2>2, <2>3
  <2> QED  BY <1>2, <1>3, <2>4, <2>5, <2>6, Zenon DEF CopiesFollow
<1>4. CASE cmd.name = "cat"
  BY <1>2, <1>4 DEF CopiesFollow
<1> QED  BY <1>3, <1>4 DEF Copying

\* What cat, cp and record make of all files, however they end, for all files, options and
\* inputs, with another process that appends to one of them, and for all that a fetch may do.
THEOREM CommandsKeepFiles == Spec => []FilesKept
<1>1. CInv /\ FInv => FilesKept
  <2> SUFFICES ASSUME CInv, FInv PROVE SavedOrUntouched
    BY CopiesAsListed DEF FilesKept
  <2> QED  BY Zenon DEF FInv, Saved, SavedOrUntouched
<1> QED  BY <1>1, CommandInvariant, FilesInvariant, PTL

-----------------------------------------------------------------------------
(* What cat and cp deliver. *)

First == StartOffset \div Width

LEMMA OffsetsCount ==
  ASSUME CInv, NEW m \in Nat
  PROVE  /\ OffsetOf(m) \in Nat /\ StartOffset \in Nat /\ StartIndex \in Nat /\ First \in Nat
         /\ OffsetOf(m) >= StartOffset
         /\ OffsetOf(m) \div Width = First + m
         /\ OffsetOf(m + 1) = OffsetOf(m) + Width
         /\ \A n \in Nat : m < n => OffsetOf(m) < OffsetOf(n)
<1>1. StartOffset \in Nat /\ StartIndex \in Nat
  BY DEF CInv, CmdTyped, StartOffset, StartIndex
<1>2. OffsetOf(m) = StartOffset + 2 * m /\ First = StartOffset \div 2
  BY DEF OffsetOf, First, Width
<1>3. \A n \in Nat : OffsetOf(n) = StartOffset + 2 * n
  BY DEF OffsetOf, Width
<1>4. (StartOffset + 2 * m) \div 2 = StartOffset \div 2 + m /\ StartOffset \div 2 \in Nat
  BY ONLY <1>1, m \in Nat
<1>5. OffsetOf(m) \div Width = First + m /\ First \in Nat
  BY ONLY <1>2, <1>4 DEF Width
<1>6. OffsetOf(m + 1) = OffsetOf(m) + 2
  BY ONLY <1>1, <1>2, <1>3, m \in Nat
<1> QED  BY <1>1, <1>2, <1>3, <1>5, <1>6 DEF Width

\* The first n records from the start of a reading are there, and none is reserved.
Clear(records, n) ==
  \A k \in First + 1 .. First + n : k \in 1 .. Len(records) /\ records[k].head # "Reserved"

\* The input at hand, read up to record i.
Reading ==
  /\ pos = OffsetOf(i)
  /\ Clear(In.records, i)
  /\ \A m \in StartIndex .. i - 1 :
       \E k \in 1 .. Len(delivered) : delivered[k].input = at /\ delivered[k].pos = OffsetOf(m)
  /\ IF i > StartIndex
     THEN /\ Len(delivered) > 0 /\ delivered[Len(delivered)].input = at
          /\ delivered[Len(delivered)].pos = OffsetOf(i - 1)
     ELSE \A k \in 1 .. Len(delivered) : delivered[k].input < at
  /\ cmd.name = "cat" /\ (StartIndex = 0 \/ i > StartIndex) => offset = pos

\* One delivery, number k of a list, and the one before it.
InOrder(list, fs, k) ==
  LET d == list[k]
      records == InputRecords(fs, d.input)
  IN /\ k > 1 => list[k - 1].input <= d.input
     /\ d.pos = IF k > 1 /\ list[k - 1].input = d.input
                THEN list[k - 1].pos + Width ELSE OffsetOf(StartIndex)
     /\ cmd.count # NoFlag => d.pos < OffsetOf(StartIndex + cmd.count)
     /\ d.pos % Width = 0 /\ Reached(records, d.pos) /\ d.id = records[d.pos \div Width + 1].id
     /\ cmd.name = "cat" /\ (StartIndex = 0 \/ k # 1) => d.shown = d.pos

Ordered ==
  \A k \in 1 .. Len(delivered) :
    /\ InOrder(delivered, files, k)
    /\ delivered[k].input \in 1 .. at /\ delivered[k].input \in 1 .. Len(cmd.ins)
    /\ delivered[k].pos >= StartOffset

Whole == StartIndex = 0 \/ cmd.count = NoFlag

RInv ==
  /\ Grows(before, files)
  /\ Ordered
  /\ cpc \in {"start", "open", "writer"} => \A k \in 1 .. Len(delivered) : delivered[k].input < at
  /\ cpc = "writer" => i = 0 /\ pos = StartOffset /\ offset = StartOffset
  /\ cpc = "read" => Reading
  /\ cpc \in {"start", "open", "writer", "read"} /\ Whole => \A n \in 1 .. at - 1 : Complete(n)
  /\ CompleteAtSuccess

LEMMA InitRInv == Init => RInv
<1> SUFFICES ASSUME Init PROVE RInv
  OBVIOUS
<1>1. CInv
  BY InitCInv
<1>2. Grows(before, files)
  BY <1>1, FilesNamed, GrownItself DEF Init, Grows
<1>3. Len(delivered) = 0 /\ 1 .. Len(delivered) = {}
  BY EmptySeq DEF Init
<1>4. cpc = "start" /\ at = 1 /\ exit = "-" /\ 1 .. at - 1 = {}
  BY DEF Init
<1> QED  BY <1>2, <1>3, <1>4 DEF RInv, Ordered, CompleteAtSuccess

-----------------------------------------------------------------------------
(* What was read stays as it is, while files grow and deliveries are added. *)

LEMMA ReachedGrown ==
  ASSUME CInv, NEW old, NEW new, Grown(old, new), NEW p \in Nat, p >= StartOffset, Reached(old, p)
  PROVE  /\ Reached(new, p)
         /\ p \div Width + 1 \in 1 .. Len(old)
         /\ new[p \div Width + 1].id = old[p \div Width + 1].id
<1>1. StartOffset \in Nat
  BY DEF CInv, CmdTyped, StartOffset
<1>2. /\ old \in Seq(RecordStates) /\ new \in Seq(RecordStates)
      /\ Len(old) \in Nat /\ Len(new) \in Nat /\ Len(old) <= Len(new)
      /\ DOMAIN old = 1 .. Len(old) /\ DOMAIN new = 1 .. Len(new)
  BY LenProperties DEF Grown
<1>3. \A k \in 1 .. Len(old) : k \in 1 .. Len(new)
  BY <1>2
<1>4. Reached(new, p)
  <2> SUFFICES ASSUME NEW k \in StartOffset \div Width + 1 .. p \div Width + 1
               PROVE  k \in DOMAIN new /\ new[k].head # "Reserved"
    BY DEF Reached
  <2>1. k \in 1 .. Len(old) /\ old[k].head # "Reserved"
    BY <1>2 DEF Reached
  <2>2. new[k] = old[k]
    BY <2>1 DEF Grown
  <2> QED  BY <1>2, <1>3, <2>1, <2>2
<1>5. p \div Width + 1 \in StartOffset \div Width + 1 .. p \div Width + 1
  <2>1. p \div 2 >= StartOffset \div 2 /\ p \div 2 \in Int /\ StartOffset \div 2 \in Int
    BY ONLY <1>1, p \in Nat, p >= StartOffset
  <2> QED  BY <2>1 DEF Width
<1>6. p \div Width + 1 \in 1 .. Len(old)
  BY <1>2, <1>5 DEF Reached
<1> QED  BY <1>4, <1>6 DEF Grown

LEMMA ClearGrown ==
  ASSUME NEW old, NEW new, Grown(old, new), NEW n, Clear(old, n)
  PROVE  Clear(new, n)
<1>1. Len(old) \in Nat /\ Len(new) \in Nat /\ Len(old) <= Len(new)
  BY LenProperties DEF Grown
<1> SUFFICES ASSUME NEW k \in First + 1 .. First + n
             PROVE  k \in 1 .. Len(new) /\ new[k].head # "Reserved"
  BY DEF Clear
<1>2. k \in 1 .. Len(old) /\ old[k].head # "Reserved"
  BY DEF Clear
<1>3. k \in 1 .. Len(new) /\ new[k] = old[k]
  BY <1>1, <1>2 DEF Grown
<1> QED  BY <1>2, <1>3

\* Deliveries are only added to.
Extends(new, old) ==
  /\ Len(old) <= Len(new) /\ \A k \in 1 .. Len(old) : new[k] = old[k]

LEMMA CompleteStays ==
  ASSUME delivered \in Seq(Deliveries), delivered' \in Seq(Deliveries),
         Extends(delivered', delivered), cmd' = cmd, before' = before,
         NEW n, Complete(n)
  PROVE  Complete(n)'
<1>1. \A d \in Range(delivered) : d \in Range(delivered')
  <2>1. /\ DOMAIN delivered = 1 .. Len(delivered) /\ DOMAIN delivered' = 1 .. Len(delivered')
        /\ Len(delivered) \in Nat /\ Len(delivered') \in Nat
    BY LenProperties
  <2> SUFFICES ASSUME NEW k \in 1 .. Len(delivered) PROVE delivered[k] \in Range(delivered')
    BY <2>1 DEF Range
  <2>2. k \in 1 .. Len(delivered') /\ delivered'[k] = delivered[k]
    BY <2>1 DEF Extends
  <2> QED  BY <2>1, <2>2 DEF Range
<1>2. \A m \in 0 .. Capacity :
        AskedFor(m) /\ Reached(InputRecords(before, n), OffsetOf(m)) =>
          \E d \in Range(delivered) : d.input = n /\ d.pos = OffsetOf(m)
  BY DEF Complete
<1>3. \A m \in 0 .. Capacity :
        AskedFor(m) /\ Reached(InputRecords(before, n), OffsetOf(m)) =>
          \E d \in Range(delivered') : d.input = n /\ d.pos = OffsetOf(m)
  BY <1>1, <1>2, Zenon
<1>4. \A m : /\ AskedFor(m)' = AskedFor(m)
             /\ OffsetOf(m)' = OffsetOf(m)
             /\ Reached(InputRecords(before, n), OffsetOf(m))' = Reached(InputRecords(before, n), OffsetOf(m))
  BY DEF AskedFor, OffsetOf, Reached, InputRecords, StartIndex, StartOffset
<1> QED  BY <1>3, <1>4, Zenon DEF Complete

LEMMA InOrderStays ==
  ASSUME CInv, delivered \in Seq(Deliveries), Ordered, Grows(files, files'),
         NEW list, Extends(list, delivered), NEW k \in 1 .. Len(delivered)
  PROVE  InOrder(list, files', k)
<1> DEFINE d == delivered[k]
           old == InputRecords(files, d.input)
           new == InputRecords(files', d.input)
<1>1. /\ InOrder(delivered, files, k) /\ d.input \in 1 .. Len(cmd.ins)
      /\ d.pos >= StartOffset /\ d \in Deliveries
  BY ElementOfSeq DEF Ordered
<1>2. d.pos \in Nat
  BY <1>1 DEF Deliveries
<1>3. Grown(old, new)
  <2>1. FileOf[cmd.ins[d.input]] \in Files
    BY <1>1, FilesNamed
  <2> QED  BY <2>1 DEF Grows, InputRecords
<1>4. Reached(old, d.pos) /\ d.id = old[d.pos \div Width + 1].id
  BY <1>1 DEF InOrder
<1> HIDE DEF d, old, new
<1>5. Reached(new, d.pos) /\ d.id = new[d.pos \div Width + 1].id
  BY <1>1, <1>2, <1>3, <1>4, ReachedGrown
<1>6. list[k] = d /\ (k > 1 => list[k - 1] = delivered[k - 1])
  <2>1. Len(delivered) \in Nat
    BY LenProperties
  <2>2. k > 1 => k - 1 \in 1 .. Len(delivered)
    BY <2>1
  <2> QED  BY <2>2 DEF Extends, d
<1>7. /\ k > 1 => delivered[k - 1].input <= d.input
      /\ d.pos = IF k > 1 /\ delivered[k - 1].input = d.input
                 THEN delivered[k - 1].pos + Width ELSE OffsetOf(StartIndex)
      /\ cmd.count # NoFlag => d.pos < OffsetOf(StartIndex + cmd.count)
      /\ d.pos % Width = 0
      /\ cmd.name = "cat" /\ (StartIndex = 0 \/ k # 1) => d.shown = d.pos
  BY <1>1 DEF InOrder, d
<1> QED  BY <1>5, <1>6, <1>7 DEF InOrder, new

\* The options are those of the command, which stays what it is.
LEMMA PrimedOptions ==
  ASSUME cmd' = cmd
  PROVE  /\ StartOffset' = StartOffset /\ StartIndex' = StartIndex /\ First' = First
         /\ (Copying' = Copying) /\ (Whole' = Whole) /\ Out' = Out
         /\ \A k : InOrder(delivered, files, k)' = InOrder(delivered', files', k)
         /\ \A r, n : /\ Clear(r, n)' = Clear(r, n)
                      /\ OffsetOf(n)' = OffsetOf(n)
BY DEF StartOffset, StartIndex, First, Copying, Whole, Out, InOrder, Reached, InputRecords,
       OffsetOf, Clear

LEMMA OrderedStays ==
  ASSUME CInv, delivered \in Seq(Deliveries), Ordered, Grows(files, files'),
         cmd' = cmd, delivered' = delivered, at' \in {at, at + 1}
  PROVE  Ordered'
<1>1. Extends(delivered', delivered) /\ Len(delivered) \in Nat /\ at \in Nat
  BY LenProperties DEF Extends, CInv, CmdTyped
<1> SUFFICES ASSUME NEW k \in 1 .. Len(delivered)
             PROVE  /\ InOrder(delivered', files', k)
                    /\ delivered[k].input \in 1 .. at' /\ delivered[k].input \in 1 .. Len(cmd.ins)
                    /\ delivered[k].pos >= StartOffset
  BY PrimedOptions DEF Ordered
<1>2. InOrder(delivered', files', k)
  BY <1>1, InOrderStays
<1>3. /\ delivered[k].input \in 1 .. at /\ delivered[k].input \in 1 .. Len(cmd.ins)
      /\ delivered[k].pos >= StartOffset
  BY DEF Ordered
<1> QED  BY <1>1, <1>2, <1>3

LEMMA GrowsOn ==
  ASSUME Grows(before, files), Grows(files, files'), before' = before
  PROVE  Grows(before, files)'
BY GrownTransitive DEF Grows

\* Another process appends, or another command fetches: what is being read stays.
LEMMA ReadingStays ==
  ASSUME CInv, RInv, cpc = "read", cmd' = cmd, Grows(files, files'),
         UNCHANGED <<at, pos, i, offset, delivered>>
  PROVE  Reading'
<1>1. FileOf[cmd.ins[at]] \in Files /\ Reading
  BY FilesNamed DEF RInv, CInv, AtStep, Input
<1>2. Grown(In.records, In'.records)
  BY <1>1 DEF Grows, In, Input
<1>3. Clear(In'.records, i)
  BY <1>1, <1>2, ClearGrown DEF Reading
<1>4. /\ pos' = OffsetOf(i')
      /\ Clear(In'.records, i')
      /\ \A m \in StartIndex .. i' - 1 :
           \E k \in 1 .. Len(delivered') : delivered'[k].input = at' /\ delivered'[k].pos = OffsetOf(m)
      /\ IF i' > StartIndex
         THEN /\ Len(delivered') > 0 /\ delivered'[Len(delivered')].input = at'
              /\ delivered'[Len(delivered')].pos = OffsetOf(i' - 1)
         ELSE \A k \in 1 .. Len(delivered') : delivered'[k].input < at'
      /\ cmd'.name = "cat" /\ (StartIndex = 0 \/ i' > StartIndex) => offset' = pos'
  BY <1>1, <1>3 DEF Reading
<1>9. cmd' = cmd
  OBVIOUS
<1> QED  BY ONLY <1>9, <1>4, PrimedOptions DEF Reading

-----------------------------------------------------------------------------
(* Each step of cat and cp. *)

\* Steps that deliver nothing, but for what they do to the reading at hand.
Quiet ==
  /\ CInv /\ FInv /\ RInv
  /\ Grows(files, files') /\ cmd' = cmd /\ before' = before
  /\ delivered' = delivered /\ at' \in {at, at + 1}

LEMMA QuietKeeps ==
  ASSUME Quiet
  PROVE  /\ Grows(before, files)' /\ Ordered'
         /\ \A n : Complete(n) => Complete(n)'
         /\ Len(delivered) \in Nat /\ at \in Nat
<1>1. Grows(before, files)'
  BY GrowsOn DEF Quiet, RInv
<1>2. Ordered'
  BY OrderedStays, PrimedOptions DEF Quiet, RInv, FInv
<1>3. delivered \in Seq(Deliveries) /\ Len(delivered) \in Nat /\ at \in Nat
  BY LenProperties DEF Quiet, FInv, CInv, CmdTyped
<1>4. Extends(delivered', delivered)
  BY <1>3 DEF Quiet, Extends
<1>5. \A n : Complete(n) => Complete(n)'
  BY <1>3, <1>4, CompleteStays DEF Quiet
<1> QED  BY <1>1, <1>2, <1>3, <1>5

\* A step that ends the command with an error, or only leaves the reading at hand.
LEMMA QuietEnds ==
  ASSUME Quiet, cpc' \in {"done", "fetch", "save", "write"},
         exit' # "ok" \/ ~ Copying \/ (exit' = exit)
  PROVE  RInv'
<1>1. /\ Grows(before, files)' /\ Ordered'
      /\ \A n : Complete(n) => Complete(n)'
  BY QuietKeeps
<1>2. CompleteAtSuccess'
  <2>1. CASE exit' # "ok" \/ ~ Copying
    BY <2>1 DEF Quiet, CompleteAtSuccess, Copying
  <2>2. CASE exit' = exit
    <3>1. CompleteAtSuccess /\ StartIndex' = StartIndex /\ cmd' = cmd
      BY PrimedOptions DEF Quiet, RInv
    <3> QED  BY <1>1, <2>2, <3>1, Zenon DEF CompleteAtSuccess
  <2> QED  BY <2>1, <2>2
<1> QED  BY <1>1, <1>2 DEF RInv

\* A step to the next state of the same input, or between inputs.
LEMMA QuietMoves ==
  ASSUME Quiet, cpc \in {"start", "open", "writer", "read"}, exit' = "-",
         cpc' \in {"start", "open", "writer", "read"},
         cpc' \in {"start", "open", "writer"} => \A k \in 1 .. Len(delivered) : delivered[k].input < at',
         cpc' = "writer" => i' = 0 /\ pos' = StartOffset /\ offset' = StartOffset,
         cpc' = "read" => Reading',
         at' = at + 1 /\ Whole => Complete(at)
  PROVE  RInv'
<1>1. /\ Grows(before, files)' /\ Ordered'
      /\ \A n : Complete(n) => Complete(n)'
      /\ at \in Nat
  BY QuietKeeps
<1>2. (Whole' = Whole) /\ StartOffset' = StartOffset /\ delivered' = delivered
  BY PrimedOptions DEF Quiet
<1>3. Whole => \A n \in 1 .. at' - 1 : Complete(n)
  <2>1. Whole => \A n \in 1 .. at - 1 : Complete(n)
    BY DEF Quiet, RInv
  <2>2. at' = at \/ at' = at + 1
    BY DEF Quiet
  <2> SUFFICES ASSUME Whole, NEW n \in 1 .. at' - 1 PROVE Complete(n)
    OBVIOUS
  <2>3. n \in 1 .. at - 1 \/ (at' = at + 1 /\ n = at)
    BY <1>1, <2>2
  <2> QED  BY <2>1, <2>3
<1>4. Whole' => \A n \in 1 .. at' - 1 : Complete(n)'
  BY <1>1, <1>2, <1>3
<1>5. CompleteAtSuccess'
  BY DEF CompleteAtSuccess
<1> QED  BY <1>1, <1>2, <1>4, <1>5 DEF RInv

\* A reading begins.
LEMMA ReadingBegins ==
  ASSUME Quiet, cpc' = "read", i' = 0, pos' = StartOffset, offset' = StartOffset, at' = at,
         \A k \in 1 .. Len(delivered) : delivered[k].input < at
  PROVE  Reading'
<1>1. /\ StartOffset \in Nat /\ StartIndex \in Nat /\ First \in Nat
  BY OffsetsCount DEF Quiet
<1>2. OffsetOf(0) = StartOffset
  BY <1>1 DEF OffsetOf, Width
<1>3. ~ (0 > StartIndex) /\ StartIndex .. 0 - 1 = {} /\ First + 1 .. First + 0 = {}
  BY <1>1
<1>4. Clear(In'.records, 0)
  BY <1>3 DEF Clear
<1>5. delivered' = delivered /\ cmd' = cmd
  BY DEF Quiet
<1>6. /\ pos' = OffsetOf(i')
      /\ Clear(In'.records, i')
      /\ \A m \in StartIndex .. i' - 1 :
           \E k \in 1 .. Len(delivered') : delivered'[k].input = at' /\ delivered'[k].pos = OffsetOf(m)
      /\ IF i' > StartIndex
         THEN /\ Len(delivered') > 0 /\ delivered'[Len(delivered')].input = at'
              /\ delivered'[Len(delivered')].pos = OffsetOf(i' - 1)
         ELSE \A k \in 1 .. Len(delivered') : delivered'[k].input < at'
      /\ cmd'.name = "cat" /\ (StartIndex = 0 \/ i' > StartIndex) => offset' = pos'
  BY <1>2, <1>3, <1>4, <1>5
<1>9. cmd' = cmd
  BY <1>5
<1> QED  BY ONLY <1>9, <1>6, PrimedOptions DEF Reading

\* The record that a reading finds extends what it has come past.
LEMMA FoundClears ==
  ASSUME CInv, cpc = "read", Reading, Found = "record"
  PROVE  /\ Clear(In.records, i + 1) /\ pos \div Width + 1 = First + i + 1
         /\ i \in Nat /\ First \in Nat /\ OffsetOf(i + 1) = pos + Width
<1>1. i \in Nat
  BY DEF CInv, CmdTyped
<1>2. pos = OffsetOf(i) /\ Clear(In.records, i)
  BY DEF Reading
<1>3. First \in Nat /\ pos \div Width = First + i /\ OffsetOf(i + 1) = pos + Width
  BY <1>1, <1>2, OffsetsCount
<1>4. pos \div Width + 1 = First + i + 1
  BY <1>1, <1>3
<1>5. First + i + 1 \in 1 .. Len(In.records) /\ In.records[First + i + 1].head # "Reserved"
  BY <1>4, FoundRecord DEF Record
<1>6. Clear(In.records, i + 1)
  <2> SUFFICES ASSUME NEW k \in First + 1 .. First + (i + 1)
               PROVE  k \in 1 .. Len(In.records) /\ In.records[k].head # "Reserved"
    BY DEF Clear
  <2>1. k \in First + 1 .. First + i \/ k = First + i + 1
    BY <1>1, <1>3
  <2> QED  BY <1>2, <1>5, <2>1 DEF Clear
<1> QED  BY <1>1, <1>3, <1>4, <1>6

\* Skip goes past a record that was not asked for.
LEMMA SkipReading ==
  ASSUME Quiet, Skip
  PROVE  Reading'
<1>1. /\ cpc = "read" /\ Found = "record" /\ i < StartIndex
      /\ i' = i + 1 /\ pos' = pos + Width
      /\ UNCHANGED <<cmd, files, at, delivered>>
  BY DEF Skip, Skips
<1>2. CInv /\ Reading
  BY <1>1 DEF Quiet, RInv
<1>3. Clear(In.records, i + 1) /\ i \in Nat /\ OffsetOf(i + 1) = pos + Width
  BY <1>1, <1>2, FoundClears
<1>4. StartIndex \in Nat
  BY <1>2, <1>3, OffsetsCount
<1>5. In' = In
  BY <1>1 DEF In, Input
<1>6. \A k \in 1 .. Len(delivered) : delivered[k].input < at
  BY <1>1, <1>2, <1>3, <1>4 DEF Reading
<1>7. ~ (i' > StartIndex) /\ StartIndex .. i' - 1 = {} /\ StartIndex # 0
  BY <1>1, <1>3, <1>4
<1>8. /\ pos' = OffsetOf(i')
      /\ Clear(In'.records, i')
      /\ \A m \in StartIndex .. i' - 1 :
           \E k \in 1 .. Len(delivered') : delivered'[k].input = at' /\ delivered'[k].pos = OffsetOf(m)
      /\ IF i' > StartIndex
         THEN /\ Len(delivered') > 0 /\ delivered'[Len(delivered')].input = at'
              /\ delivered'[Len(delivered')].pos = OffsetOf(i' - 1)
         ELSE \A k \in 1 .. Len(delivered') : delivered'[k].input < at'
      /\ cmd'.name = "cat" /\ (StartIndex = 0 \/ i' > StartIndex) => offset' = pos'
  BY <1>1, <1>3, <1>5, <1>6, <1>7
<1>9. cmd' = cmd
  BY <1>1
<1> QED  BY ONLY <1>9, <1>8, PrimedOptions DEF Reading

\* An input is left only when all that was asked for, and there at the start, is delivered.
LEMMA LeavesComplete ==
  ASSUME CInv, FInv, RInv, NextInput, Whole
  PROVE  Complete(at)
<1>1. /\ cpc = "read" /\ Reading /\ Copying /\ Grows(before, files)
      /\ Found = "none" \/ (Found = "record" /\ ~ Skips /\ PastCount)
  BY DEF NextInput, RInv, CInv, AtStep
<1> DEFINE old == InputRecords(before, at)
           new == In.records
<1>2. Grown(old, new) /\ i \in Nat /\ at \in 1 .. Len(cmd.ins)
  <2>1. FileOf[Input] \in Files
    BY <1>1, FilesNamed
  <2> QED  BY <1>1, <2>1 DEF Grows, InputRecords, In, Input, CInv, CmdTyped
<1>3. /\ old \in Seq(RecordStates) /\ new \in Seq(RecordStates)
      /\ Len(old) \in Nat /\ Len(new) \in Nat /\ Len(old) <= Len(new)
      /\ DOMAIN old = 1 .. Len(old) /\ DOMAIN new = 1 .. Len(new)
  BY <1>2, LenProperties DEF Grown
<1>4. /\ pos = OffsetOf(i) /\ pos \in Nat
      /\ StartOffset \in Nat /\ StartIndex \in Nat /\ First \in Nat
      /\ pos \div Width = First + i
      /\ cmd.count \in Nat
  BY <1>1, <1>2, OffsetsCount DEF Reading, CInv, CmdTyped
<1> SUFFICES ASSUME NEW m \in 0 .. Capacity, AskedFor(m), Reached(old, OffsetOf(m))
             PROVE  \E d \in Range(delivered) : d.input = at /\ d.pos = OffsetOf(m)
  BY DEF Complete
<1>5. m \in Nat /\ OffsetOf(m) \div Width = First + m
  <2>1. m \in Nat
    BY CliAssumption
  <2> QED  BY <2>1, OffsetsCount
<1>6. m < i
  <2>1. CASE Found = "none"
    <3> SUFFICES ASSUME m >= i PROVE FALSE
      BY <1>2, <1>5
    <3>1. First + i + 1 \in 1 .. Len(old) /\ old[First + i + 1].head # "Reserved"
      <4>1. First + i + 1 \in StartOffset \div Width + 1 .. OffsetOf(m) \div Width + 1
        BY <1>2, <1>4, <1>5 DEF First
      <4> QED  BY <1>3, <4>1 DEF Reached
    <3>2. First + i + 1 \in 1 .. Len(new) /\ new[First + i + 1].head # "Reserved"
      BY <1>2, <1>3, <3>1 DEF Grown
    <3>3. ReadAt(new, pos) # "none"
      <4>1. new[pos \div Width + 1].head # "Reserved"
        BY <1>4, <3>2
      <4>2. ~ (pos >= Width * Len(new))
        <5>1. pos \div 2 + 1 <= Len(new)
          BY <1>4, <3>2 DEF Width
        <5>2. pos < 2 * Len(new)
          BY ONLY <1>3, <1>4, <5>1
        <5> QED  BY ONLY <1>3, <1>4, <5>2 DEF Width
      <4> HIDE DEF new
      <4> QED  BY <4>1, <4>2 DEF ReadAt
    <3> QED  BY <2>1, <3>3 DEF Found
  <2>2. CASE PastCount
    <3>1. cmd.count # NoFlag /\ i + 1 > cmd.count /\ StartIndex = 0
      BY <2>2 DEF PastCount, Whole
    <3>2. m < StartIndex + cmd.count
      BY <3>1 DEF AskedFor
    <3> QED  BY <1>2, <1>4, <1>5, <3>1, <3>2
  <2> QED  BY <1>1, <2>1, <2>2
<1>7. m \in StartIndex .. i - 1
  BY <1>2, <1>4, <1>5, <1>6 DEF AskedFor
<1>8. PICK k \in 1 .. Len(delivered) : delivered[k].input = at /\ delivered[k].pos = OffsetOf(m)
  BY <1>1, <1>7 DEF Reading
<1>9. DOMAIN delivered = 1 .. Len(delivered)
  BY LenProperties DEF FInv
<1> QED  BY <1>8, <1>9 DEF Range

LEMMA NextInputRInv ==
  ASSUME Quiet, NextInput
  PROVE  RInv'
<1>1. CInv /\ FInv /\ RInv /\ cpc = "read" /\ Copying /\ Reading
  BY DEF Quiet, NextInput, CInv, AtStep, RInv
<1>2. Whole => Complete(at)
  BY <1>1, LeavesComplete
<1>3. /\ Grows(before, files)' /\ Ordered'
      /\ \A n : Complete(n) => Complete(n)'
      /\ at \in Nat
  BY QuietKeeps
<1>4. CASE IsLast /\ Quit("ok") /\ at' = at
  <2>1. Whole => \A n \in 1 .. at - 1 : Complete(n)
    BY <1>1 DEF RInv
  <2>2. DOMAIN cmd.ins = 1 .. at
    BY <1>1, <1>4, LenProperties DEF IsLast, CInv, CmdTyped
  <2>3. Whole => \A n \in DOMAIN cmd.ins : Complete(n)
    <3> SUFFICES ASSUME Whole, NEW n \in 1 .. at PROVE Complete(n)
      BY <2>2
    <3>1. n \in 1 .. at - 1 \/ n = at
      BY <1>3
    <3> QED  BY <1>2, <2>1, <3>1
  <2>4. CompleteAtSuccess'
    <3>1. cmd' = cmd /\ (Whole' = Whole)
      BY PrimedOptions DEF Quiet
    <3>2. Whole => \A n \in DOMAIN cmd.ins : Complete(n)'
      BY <1>3, <2>3
    <3> QED  BY <3>1, <3>2 DEF CompleteAtSuccess, Whole
  <2> QED  BY <1>3, <1>4, <2>4 DEF RInv, Quit
<1>5. CASE cpc' = "open" /\ at' = at + 1 /\ exit' = exit
  <2>1. \A k \in 1 .. Len(delivered) : delivered[k].input < at'
    <3>1. \A k \in 1 .. Len(delivered) : delivered[k].input \in 1 .. at
      BY <1>1 DEF RInv, Ordered
    <3> QED  BY <1>3, <1>5, <3>1
  <2>2. exit' = "-"
    BY <1>1, <1>5 DEF CInv, AtStep
  <2> QED  BY <1>1, <1>2, <1>5, <2>1, <2>2, QuietMoves
<1> QED  BY <1>4, <1>5 DEF NextInput

\* The delivery of a record that was asked for.
Delivering ==
  /\ CInv /\ FInv /\ RInv
  /\ Grows(files, files') /\ cmd' = cmd /\ before' = before
  /\ cpc = "read" /\ Copying /\ Found = "record" /\ ~ Skips /\ ~ PastCount /\ Deliver
  /\ i' = i + 1 /\ pos' = pos + Width
  /\ cmd.name = "cat" => offset' = OffsetAfter(pos)
  /\ UNCHANGED <<cpc, at, exit>>

LEMMA DeliveringFacts ==
  ASSUME Delivering
  PROVE  /\ delivered \in Seq(Deliveries) /\ delivered' \in Seq(Deliveries)
         /\ Len(delivered) \in Nat /\ Len(delivered') = Len(delivered) + 1
         /\ Extends(delivered', delivered)
         /\ delivered'[Len(delivered) + 1] = [input |-> at, shown |-> offset, pos |-> pos, id |-> Record.id]
         /\ Reading /\ Ordered /\ pos = OffsetOf(i)
         /\ i \in Nat /\ StartIndex \in Nat /\ StartOffset \in Nat /\ First \in Nat /\ cmd.count \in Nat
         /\ at \in 1 .. Len(cmd.ins) /\ at \in Nat
         /\ i >= StartIndex /\ (cmd.count # NoFlag => i < cmd.count)
         /\ Clear(In.records, i + 1) /\ OffsetOf(i + 1) = pos + Width
         /\ pos \div Width + 1 = First + i + 1 /\ pos % Width = 0
<1>1. delivered \in Seq(Deliveries) /\ Len(delivered) \in Nat
  BY LenProperties DEF Delivering, FInv
<1>2. /\ delivered' \in Seq(Deliveries) /\ Len(delivered') = Len(delivered) + 1
      /\ Extends(delivered', delivered)
      /\ delivered'[Len(delivered) + 1] = [input |-> at, shown |-> offset, pos |-> pos, id |-> Record.id]
  <2>1. /\ delivered' \in Seq(Deliveries) /\ Len(delivered') = Len(delivered) + 1
        /\ \A k \in 1 .. Len(delivered) : delivered'[k] = delivered[k]
        /\ delivered'[Len(delivered) + 1] = [input |-> at, shown |-> offset, pos |-> pos, id |-> Record.id]
    BY <1>1, DeliverStep DEF Delivering
  <2> QED  BY <1>1, <2>1 DEF Extends
<1>3. Reading /\ Ordered /\ pos = OffsetOf(i)
  BY DEF Delivering, RInv, Reading
<1>4. /\ i \in Nat /\ cmd.count \in Nat /\ at \in 1 .. Len(cmd.ins)
      /\ StartIndex \in Nat /\ StartOffset \in Nat /\ First \in Nat
  BY OffsetsCount DEF Delivering, CInv, CmdTyped
<1>5. i >= StartIndex /\ (cmd.count # NoFlag => i < cmd.count)
  BY <1>4 DEF Delivering, Skips, PastCount
<1>6. /\ Clear(In.records, i + 1) /\ OffsetOf(i + 1) = pos + Width
      /\ pos \div Width + 1 = First + i + 1
  BY <1>3, FoundClears DEF Delivering
<1>7. pos % Width = 0
  BY FoundRecord DEF Delivering
<1> QED  BY <1>1, <1>2, <1>3, <1>4, <1>5, <1>6, <1>7


LEMMA ClearReached ==
  ASSUME CInv, NEW records \in Seq(RecordStates), NEW n \in Nat, Clear(records, n + 1)
  PROVE  Reached(records, OffsetOf(n))
<1>1. First \in Nat /\ OffsetOf(n) \div Width = First + n /\ First = StartOffset \div Width
  BY OffsetsCount DEF First
<1>2. DOMAIN records = 1 .. Len(records)
  BY LenProperties
<1> SUFFICES ASSUME NEW k \in First + 1 .. First + n + 1
             PROVE  k \in DOMAIN records /\ records[k].head # "Reserved"
  BY <1>1 DEF Reached
<1>3. k \in First + 1 .. First + (n + 1)
  BY <1>1
<1> QED  BY <1>2, <1>3 DEF Clear

\* Only one input is read with --index, --offset or --count.
LEMMA OneInputSelected ==
  ASSUME CInv, cpc = "read", StartIndex # 0
  PROVE  at = 1
<1>1. ~ Refused /\ Copying /\ at \in 1 .. Len(cmd.ins) /\ Len(cmd.ins) \in Nat
  BY LenProperties DEF CInv, CmdTyped, AtStep
<1>2. cmd.index \in Filters
  BY DEF StartIndex, Filters
<1>3. ~ (Len(cmd.ins) > 1)
  BY <1>1, <1>2 DEF Refused, Copying
<1> QED  BY <1>1, <1>3

\* What is delivered next comes after what was delivered before.
LEMMA DeliversNext ==
  ASSUME Delivering
  PROVE  InOrder(delivered', files', Len(delivered) + 1)
<1> DEFINE n == Len(delivered) + 1
           last == delivered[Len(delivered)]
           d == [input |-> at, shown |-> offset, pos |-> pos, id |-> Record.id]
           records == InputRecords(files', at)
<1>1. /\ Len(delivered) \in Nat /\ Len(delivered') = Len(delivered) + 1
      /\ Extends(delivered', delivered)
      /\ delivered'[n] = d
      /\ Reading /\ Ordered /\ pos = OffsetOf(i)
      /\ i \in Nat /\ StartIndex \in Nat /\ StartOffset \in Nat /\ First \in Nat /\ cmd.count \in Nat
      /\ at \in 1 .. Len(cmd.ins) /\ at \in Nat
      /\ i >= StartIndex /\ (cmd.count # NoFlag => i < cmd.count)
      /\ Clear(In.records, i + 1) /\ OffsetOf(i + 1) = pos + Width
      /\ pos \div Width + 1 = First + i + 1 /\ pos % Width = 0
  BY DeliveringFacts
<1>2. CInv /\ cpc = "read"
  BY DEF Delivering
<1>3. d.input = at /\ d.pos = pos /\ d.shown = offset /\ d.id = Record.id
  OBVIOUS
<1> HIDE DEF d
<1>4. n > 1 => n - 1 = Len(delivered) /\ n - 1 \in 1 .. Len(delivered) /\ delivered'[n - 1] = last
  <2>1. n > 1 => n - 1 = Len(delivered) /\ Len(delivered) \in 1 .. Len(delivered)
    BY <1>1
  <2> QED  BY <1>1, <2>1 DEF Extends
<1>5. n > 1 => last.input \in 1 .. at
  BY <1>1, <1>4 DEF Ordered
<1>6. pos = IF n > 1 /\ last.input = at THEN last.pos + Width ELSE OffsetOf(StartIndex)
  <2>1. CASE i > StartIndex
    <3>1. /\ Len(delivered) > 0 /\ last.input = at /\ last.pos = OffsetOf(i - 1)
      BY <1>1, <2>1 DEF Reading
    <3>2. n > 1
      BY <1>1, <3>1
    <3>3. pos = OffsetOf(i - 1) + Width
      <4>1. i - 1 \in Nat /\ (i - 1) + 1 = i
        BY <1>1, <2>1
      <4> QED  BY <1>1, <1>2, <4>1, OffsetsCount
    <3> QED  BY ONLY <3>1, <3>2, <3>3
  <2>2. CASE i = StartIndex
    <3>1. \A k \in 1 .. Len(delivered) : delivered[k].input < at
      BY <1>1, <2>2 DEF Reading
    <3>2. n > 1 => last.input # at
      BY <1>1, <1>4, <3>1
    <3> QED  BY <1>1, <2>2, <3>2
  <2> QED  BY <1>1, <2>1, <2>2
<1>7. cmd.count # NoFlag => pos < OffsetOf(StartIndex + cmd.count)
  <2>1. cmd.count # NoFlag => i < StartIndex + cmd.count /\ StartIndex + cmd.count \in Nat
    BY <1>1
  <2> QED  BY <1>1, <1>2, <2>1, OffsetsCount
<1>8. Reached(records, pos) /\ Record.id = records[pos \div Width + 1].id
  <2>1. FileOf[Input] \in Files /\ In.records \in Seq(RecordStates)
    BY <1>2, FilesNamed DEF In, Delivering
  <2>2. Grown(In.records, records)
    BY <2>1 DEF Delivering, Grows, In, Input, InputRecords
  <2>3. Reached(In.records, pos)
    BY <1>1, <1>2, <2>1, ClearReached
  <2>4. pos \in Nat /\ pos >= StartOffset
    BY <1>1, <1>2, OffsetsCount
  <2> QED  BY <1>2, <2>2, <2>3, <2>4, ReachedGrown DEF Record
<1>9. cmd.name = "cat" /\ (StartIndex = 0 \/ n # 1) => offset = pos
  <2>1. CASE StartIndex = 0 \/ i > StartIndex
    BY <1>1, <2>1 DEF Reading
  <2>2. CASE StartIndex # 0 /\ i = StartIndex
    <3>1. at = 1
      BY <1>2, <2>2, OneInputSelected
    <3>2. \A k \in 1 .. Len(delivered) : delivered[k].input < 1
      BY <1>1, <2>2, <3>1 DEF Reading
    <3>3. ~ (n > 1)
      BY <1>4, <1>5, <3>1, <3>2
    <3>4. Len(delivered) \in Nat
      BY <1>1
    <3>5. n = 1
      BY ONLY <3>3, <3>4
    <3> QED  BY <2>2, <3>5
  <2>3. i > StartIndex \/ i = StartIndex
    BY <1>1
  <2> QED  BY <2>1, <2>2, <2>3
<1>10. n > 1 => last.input <= at
  BY <1>1, <1>5
<1> HIDE DEF records, last, n
<1> QED  BY <1>1, <1>3, <1>4, <1>6, <1>7, <1>8, <1>9, <1>10 DEF InOrder, records, n

LEMMA DeliversOrdered ==
  ASSUME Delivering
  PROVE  Ordered'
<1>1. /\ delivered \in Seq(Deliveries)
      /\ Len(delivered) \in Nat /\ Len(delivered') = Len(delivered) + 1
      /\ Extends(delivered', delivered)
      /\ delivered'[Len(delivered) + 1] = [input |-> at, shown |-> offset, pos |-> pos, id |-> Record.id]
      /\ Ordered /\ pos = OffsetOf(i) /\ i \in Nat
      /\ at \in 1 .. Len(cmd.ins) /\ at \in Nat
  BY DeliveringFacts
<1>2. CInv /\ cmd' = cmd /\ at' = at /\ Grows(files, files')
  BY DEF Delivering
<1> SUFFICES ASSUME NEW k \in 1 .. Len(delivered')
             PROVE  /\ InOrder(delivered', files', k)
                    /\ delivered'[k].input \in 1 .. at /\ delivered'[k].input \in 1 .. Len(cmd.ins)
                    /\ delivered'[k].pos >= StartOffset
  BY <1>2, PrimedOptions DEF Ordered
<1>3. CASE k \in 1 .. Len(delivered)
  <2>1. InOrder(delivered', files', k)
    BY <1>1, <1>2, <1>3, InOrderStays
  <2>2. /\ delivered[k].input \in 1 .. at /\ delivered[k].input \in 1 .. Len(cmd.ins)
        /\ delivered[k].pos >= StartOffset
    BY <1>1, <1>3 DEF Ordered
  <2>3. delivered'[k] = delivered[k]
    BY <1>1, <1>3 DEF Extends
  <2> QED  BY <2>1, <2>2, <2>3
<1>4. CASE k = Len(delivered) + 1
  <2>1. InOrder(delivered', files', k)
    BY <1>4, DeliversNext
  <2>2. delivered'[k].input = at /\ delivered'[k].pos = pos
    BY <1>1, <1>4
  <2>3. pos >= StartOffset /\ at \in 1 .. at
    BY <1>1, <1>2, OffsetsCount
  <2> QED  BY <1>1, <2>1, <2>2, <2>3
<1>5. k \in 1 .. Len(delivered) \/ k = Len(delivered) + 1
  BY <1>1
<1> QED  BY <1>3, <1>4, <1>5

\* The reading goes on behind the record.
LEMMA DeliversReading ==
  ASSUME Delivering
  PROVE  Reading'
<1> DEFINE n == Len(delivered) + 1
<1>1. /\ Len(delivered) \in Nat /\ Len(delivered') = n
      /\ Extends(delivered', delivered)
      /\ delivered'[n] = [input |-> at, shown |-> offset, pos |-> pos, id |-> Record.id]
      /\ Reading /\ pos = OffsetOf(i)
      /\ i \in Nat /\ StartIndex \in Nat
      /\ i >= StartIndex
      /\ Clear(In.records, i + 1) /\ OffsetOf(i + 1) = pos + Width
  BY DeliveringFacts
<1>2. /\ CInv /\ cmd' = cmd /\ at' = at /\ i' = i + 1 /\ pos' = pos + Width
      /\ cmd.name = "cat" => offset' = pos + Width
  BY DEF Delivering, OffsetAfter
<1>3. delivered'[n].input = at /\ delivered'[n].pos = OffsetOf(i) /\ n \in 1 .. Len(delivered') /\ n > 0
  BY <1>1
<1> HIDE DEF n
<1>4. Clear(In'.records, i + 1)
  <2>1. FileOf[cmd.ins[at]] \in Files
    BY FilesNamed DEF Delivering, Input
  <2>2. Grown(In.records, In'.records)
    BY <1>2, <2>1 DEF Delivering, Grows, In, Input
  <2> QED  BY <1>1, <2>2, ClearGrown
<1>5. \A m \in StartIndex .. i :
        \E k \in 1 .. Len(delivered') : delivered'[k].input = at /\ delivered'[k].pos = OffsetOf(m)
  <2> SUFFICES ASSUME NEW m \in StartIndex .. i
               PROVE  \E k \in 1 .. Len(delivered') :
                        delivered'[k].input = at /\ delivered'[k].pos = OffsetOf(m)
    OBVIOUS
  <2>1. CASE m = i
    BY <1>3, <2>1
  <2>2. CASE m \in StartIndex .. i - 1
    <3>1. PICK k \in 1 .. Len(delivered) : delivered[k].input = at /\ delivered[k].pos = OffsetOf(m)
      BY <1>1, <2>2 DEF Reading
    <3>2. delivered'[k] = delivered[k] /\ k \in 1 .. Len(delivered')
      BY <1>1 DEF Extends, n
    <3> QED  BY <3>1, <3>2
  <2>3. m = i \/ m \in StartIndex .. i - 1
    BY <1>1
  <2> QED  BY <2>1, <2>2, <2>3
<1>6. i' > StartIndex /\ i' - 1 = i
  BY <1>1, <1>2
<1>7. /\ pos' = OffsetOf(i')
      /\ Clear(In'.records, i')
      /\ \A m \in StartIndex .. i' - 1 :
           \E k \in 1 .. Len(delivered') : delivered'[k].input = at' /\ delivered'[k].pos = OffsetOf(m)
      /\ IF i' > StartIndex
         THEN /\ Len(delivered') > 0 /\ delivered'[Len(delivered')].input = at'
              /\ delivered'[Len(delivered')].pos = OffsetOf(i' - 1)
         ELSE \A k \in 1 .. Len(delivered') : delivered'[k].input < at'
      /\ cmd'.name = "cat" /\ (StartIndex = 0 \/ i' > StartIndex) => offset' = pos'
  BY <1>1, <1>2, <1>3, <1>4, <1>5, <1>6
<1>9. cmd' = cmd
  BY <1>2
<1> QED  BY ONLY <1>9, <1>7, PrimedOptions DEF Reading

LEMMA DeliversRInv ==
  ASSUME Delivering
  PROVE  RInv'
<1>1. /\ delivered \in Seq(Deliveries) /\ delivered' \in Seq(Deliveries)
      /\ Extends(delivered', delivered)
  BY DeliveringFacts
<1>2. /\ cpc' = "read" /\ at' = at /\ cmd' = cmd /\ before' = before /\ exit' = "-"
      /\ Grows(before, files)' /\ RInv
  BY GrowsOn DEF Delivering, RInv, CInv, AtStep
<1>3. \A k : Complete(k) => Complete(k)'
  BY <1>1, <1>2, CompleteStays
<1>4. Whole => \A k \in 1 .. at - 1 : Complete(k)
  BY DEF Delivering, RInv
<1>5. (Whole' = Whole)
  BY <1>2, PrimedOptions
<1>6. Whole' => \A k \in 1 .. at' - 1 : Complete(k)'
  BY <1>2, <1>3, <1>4, <1>5
<1>7. CompleteAtSuccess'
  BY <1>2 DEF CompleteAtSuccess
<1> QED  BY <1>2, <1>6, <1>7, DeliversOrdered, DeliversReading DEF RInv

\* Another process appends, or a fetch goes on: the command stays where it is.
LEMMA QuietStays ==
  ASSUME Quiet, UNCHANGED <<cpc, at, pos, i, offset, exit>>
  PROVE  RInv'
<1>1. CInv /\ RInv /\ at \in Nat
  BY QuietKeeps DEF Quiet
<1>2. CASE cpc \in {"done", "fetch", "save", "write"}
  BY <1>2, QuietEnds
<1>3. CASE cpc \in {"start", "open", "writer", "read"}
  <2>1. exit' = "-" /\ at' # at + 1
    BY <1>1, <1>3 DEF CInv, AtStep
  <2>2. cpc' \in {"start", "open", "writer"} => \A k \in 1 .. Len(delivered) : delivered[k].input < at'
    BY <1>1 DEF RInv
  <2>3. cpc' = "writer" => i' = 0 /\ pos' = StartOffset /\ offset' = StartOffset
    BY <1>1 DEF RInv
  <2>4. cpc' = "read" => Reading'
    BY <1>1, ReadingStays DEF Quiet
  <2> QED  BY <1>3, <2>1, <2>2, <2>3, <2>4, QuietMoves
<1> QED  BY <1>1, <1>2, <1>3 DEF CInv, AtStep

LEMMA StartRInv ==
  ASSUME Quiet, Start
  PROVE  RInv'
<1>1. /\ cpc = "start" /\ exit = "-" /\ at' = at /\ at \in Nat
      /\ \A k \in 1 .. Len(delivered) : delivered[k].input < at
  BY QuietKeeps DEF Start, Quiet, CInv, AtStep, RInv
<1>2. CASE cpc' = "open" /\ exit' = exit
  <2>1. at' # at + 1
    BY <1>1
  <2> QED  BY <1>1, <1>2, <2>1, QuietMoves
<1>3. CASE cpc' = "fetch" /\ exit' = exit
  BY <1>3, QuietEnds
<1>4. CASE Quit("error")
  BY <1>4, QuietEnds DEF Quit
<1> QED  BY <1>2, <1>3, <1>4 DEF Start

LEMMA OpenInputRInv ==
  ASSUME Quiet, OpenInput
  PROVE  RInv'
<1>1. /\ cpc = "open" /\ exit = "-" /\ at' = at /\ at \in Nat
      /\ \A k \in 1 .. Len(delivered) : delivered[k].input < at
  BY QuietKeeps DEF OpenInput, Quiet, CInv, AtStep, RInv
<1>2. CASE /\ cpc' \in {"writer", "read"} /\ exit' = exit
           /\ pos' = StartOffset /\ offset' = StartOffset /\ i' = 0
  <2>1. at' # at + 1
    BY <1>1
  <2>2. cpc' = "read" => Reading'
    BY <1>1, <1>2, ReadingBegins
  <2> QED  BY <1>1, <1>2, <2>1, <2>2, QuietMoves
<1>3. CASE Quit("error")
  BY <1>3, QuietEnds DEF Quit
<1> QED  BY <1>2, <1>3 DEF OpenInput

LEMMA OpenOutputRInv ==
  ASSUME Quiet, OpenOutput
  PROVE  RInv'
<1>1. cpc \in {"writer", "save"} /\ at' = at /\ at \in Nat /\ exit = "-" /\ UNCHANGED <<pos, i, offset>>
  BY QuietKeeps DEF OpenOutput, Quiet, CInv, AtStep
<1>2. CASE cpc = "writer" /\ cpc' = "read" /\ exit' = exit
  <2>1. /\ \A k \in 1 .. Len(delivered) : delivered[k].input < at
        /\ i' = 0 /\ pos' = StartOffset /\ offset' = StartOffset
    BY <1>1, <1>2 DEF Quiet, RInv
  <2>2. at' # at + 1
    BY <1>1
  <2>3. Reading'
    BY <1>1, <1>2, <2>1, ReadingBegins
  <2> QED  BY <1>1, <1>2, <2>1, <2>2, <2>3, QuietMoves
<1>3. CASE cpc' = "write" /\ exit' = exit
  BY <1>3, QuietEnds
<1>4. CASE Quit("error")
  BY <1>4, QuietEnds DEF Quit
<1> QED  BY <1>1, <1>2, <1>3, <1>4 DEF OpenOutput

LEMMA SkipRInv ==
  ASSUME Quiet, Skip
  PROVE  RInv'
<1>1. cpc = "read" /\ cpc' = "read" /\ exit' = "-" /\ at' = at /\ at \in Nat
  BY QuietKeeps DEF Skip, Quiet, CInv, AtStep
<1>2. at' # at + 1
  BY <1>1
<1> QED  BY <1>1, <1>2, SkipReading, QuietMoves

LEMMA NextRInv == CInv /\ FInv /\ RInv /\ [Next]_vars => RInv'
<1> SUFFICES ASSUME CInv, FInv, RInv, [Next]_vars PROVE RInv'
  OBVIOUS
<1>1. Grows(files, files') /\ cmd' = cmd /\ before' = before
  BY FilesKeptTyped DEF Kept
<1>2. ASSUME delivered' = delivered, at' = at PROVE Quiet
  BY <1>1, <1>2 DEF Quiet
<1>3. CASE Fetch \/ Fetching \/ Other \/ UNCHANGED vars
  BY <1>2, <1>3, QuietStays DEF Fetch, Fetching, Other, OtherReserves, OtherSeals, toolVars, vars
<1>4. CASE Start
  BY <1>2, <1>4, StartRInv DEF Start
<1>5. CASE OpenInput
  BY <1>2, <1>5, OpenInputRInv DEF OpenInput
<1>6. CASE OpenOutput
  BY <1>2, <1>6, OpenOutputRInv DEF OpenOutput
<1>7. CASE Skip
  BY <1>2, <1>7, SkipRInv DEF Skip
<1>8. CASE NextInput
  <2>1. Quiet
    BY <1>1, <1>8 DEF Quiet, NextInput
  <2> QED  BY <1>8, <2>1, NextInputRInv
<1>9. CASE ReadFails \/ PrintFails \/ CopyFails
  BY <1>2, <1>9, QuietEnds DEF ReadFails, PrintFails, CopyFails, WriteFails, Quit
<1>10. CASE PrintRecord
  <2>1. Delivering
    BY <1>1, <1>10 DEF Delivering, PrintRecord, Selected, Copying
  <2> QED  BY <2>1, DeliversRInv
<1>11. CASE CopyRecord
  <2>1. Delivering
    BY <1>1, <1>11 DEF Delivering, CopyRecord, Selected, Copying
  <2> QED  BY <2>1, DeliversRInv
<1>12. CASE Fetched \/ FetchPanics \/ SaveRecord
  <2>1. ~ Copying /\ cpc' \in {"done", "save"}
    BY <1>12, SaveStep DEF Fetched, FetchPanics, Quit, CInv, AtStep, Copying
  <2> QED  BY <1>2, <1>12, <2>1, QuietEnds DEF Fetched, FetchPanics, SaveRecord
<1> QED  BY <1>3, <1>4, <1>5, <1>6, <1>7, <1>8, <1>9, <1>10, <1>11, <1>12, NextKinds DEF Reads

LEMMA ReadingInvariant == Spec => []RInv
<1>1. Init => RInv
  BY InitRInv
<1>2. CInv /\ FInv /\ RInv /\ [Next]_vars => RInv'
  BY NextRInv
<1> QED  BY <1>1, <1>2, CommandInvariant, FilesInvariant, PTL DEF Spec

\* For all files, options and inputs, and whatever another process appends meanwhile, what
\* cat prints and cp copies are the records asked for, without a gap, once and in order, and
\* the offset that cat shows with one is where --offset finds it.
THEOREM DeliversInOrder == Spec => []DeliveredInOrder
<1>1. FInv /\ RInv => DeliveredInOrder
  <2> SUFFICES ASSUME FInv, RInv PROVE DeliveredInOrder
    OBVIOUS
  <2>1. DOMAIN delivered = 1 .. Len(delivered)
    BY LenProperties DEF FInv
  <2>2. \A k \in 1 .. Len(delivered) : InOrder(delivered, files, k)
    BY DEF RInv, Ordered
  <2> QED  BY <2>1, <2>2 DEF DeliveredInOrder, InOrder
<1> QED  BY <1>1, FilesInvariant, ReadingInvariant, PTL

\* A cat or cp that exits with success has passed over none of the records that it was asked
\* for and that were there when it started.
THEOREM CompletesAtSuccess == Spec => []CompleteAtSuccess
<1>1. RInv => CompleteAtSuccess
  BY DEF RInv
<1> QED  BY <1>1, ReadingInvariant, PTL
=============================================================================
