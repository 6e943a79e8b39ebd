---------------------------- MODULE RecordFormat ----------------------------
(***************************************************************************)
(* The layout of BARC records: what BarcWriter::write puts in the file block *)
(* by block, plain or compressed, and what BarcReader::read makes of it      *)
(* (barc/src/lib.rs).  BarcFile leaves the inside of a payload open and       *)
(* studies who sees it when; here one writer and one reader take turns, and   *)
(* the blocks, their paddings and their limits are in view.                  *)
(*                                                                         *)
(* The file is a sequence of cells: a record head is one, a byte of a body is *)
(* one, the text of a header line is TextLen of them.  What an encoder emits  *)
(* is a region of any length that its decoder, and nothing else, can read.    *)
(***************************************************************************)
EXTENDS Compress, FiniteSets

CONSTANTS
  Headers,      \* header lines
  Bytes,        \* bytes of a body
  Records,      \* records to write: [meta, req_h, req_b, res_h, res_b]
  Strategies,   \* compression strategies: [mode, min_len, coef2, check_identity]
  Tunes,        \* readers' tunables: [max_body_ram, max_body, brotli]
  MaxRecord,    \* V2_MAX_RECORD
  MaxHBlock,    \* V2_MAX_HBLOCK
  MaxReqBody,   \* V2_MAX_REQ_BODY
  MaxHeaders,   \* header lines that parse_headers has room for
  ResEstimate,  \* the length estimate for a compressed response body
  MaxZ,         \* bound: cells that an encoder emits
  MaxWrites     \* bound: records written

ASSUME RecordAssumption ==
  /\ {MaxRecord, MaxHBlock, MaxReqBody, MaxHeaders, ResEstimate, MaxZ, MaxWrites} \subseteq Nat
  /\ Tunes \subseteq [max_body_ram : Nat, max_body : Nat, brotli : BOOLEAN]
  /\ \A t \in Tunes : t.max_body_ram <= t.max_body  \* Tuner::finish
  /\ Strategies \subseteq
       [mode : DOMAIN ModeFlag, min_len : Nat, coef2 : Nat, check_identity : BOOLEAN]

VARIABLES
  file,     \* the cells of the file
  wpc,      \* writer: "idle", a block to write, "finish", "head" or "panic"
  cur,      \* writer: the record at hand
  written,  \* writes that returned: [rec, strategy, comp, start]
  tune,     \* reader: its tunables
  pos,      \* reader: offset
  got       \* reader: what the last read() returned

vars == <<file, wpc, cur, written, tune, pos, got>>

-----------------------------------------------------------------------------
(* Cells and blocks *)

HeadSize == 1   \* V2_HEAD_SIZE

NoHead == [len |-> 0, type |-> "-", comp |-> "-", meta |-> 0, req_h |-> 0, req_b |-> 0, res_h |-> 0]

\* RecordType::flag and from_byte: what a head stores for each type.
TypeFlag == [Reserved |-> "R", Dialog |-> "D"]

V2_RESERVE_HEAD == [NoHead EXCEPT !.type = TypeFlag.Reserved, !.comp = ModeFlag.Plain]

Byte(b) == [b |-> b, head |-> NoHead, data |-> << >>]
HeadCell(h) == [b |-> "head", head |-> h, data |-> << >>]
TextCell(h, i) == [b |-> "text", head |-> NoHead, data |-> <<h, i>>]
\* One cell of an encoder's output; its decoder recovers data from the whole.
ZCell(data) == [b |-> "z", head |-> NoHead, data |-> data]

CRLF == <<Byte("cr"), Byte("lf")>>

\* The types of the fields of Dialog: HeaderMap, and BodyImage by its bytes.
HeaderMap == Seq(Headers)
Body == Seq({Byte(b) : b \in Bytes})

ASSUME RecordsAssumption ==
  Records \subseteq
    [meta : HeaderMap, req_h : HeaderMap, req_b : Body, res_h : HeaderMap, res_b : Body]

LineLen == TextLen + 2

\* A header block before padding: line after line.
Lines(headers) ==
  [n \in 1 .. LineLen * Len(headers) |->
     LET i == ((n - 1) % LineLen) + 1
     IN IF i <= TextLen THEN TextCell(headers[((n - 1) \div LineLen) + 1], i)
                        ELSE CRLF[i - TextLen]]

\* End padding, of a block that has any bytes, when the record is Plain.
Padded(block, with_crlf) == IF with_crlf /\ block # << >> THEN block \o CRLF ELSE block

write_headers(headers, with_crlf) == Padded(Lines(headers), with_crlf)
write_body(body, with_crlf) == Padded(body, with_crlf)

HeaderBlocks == {"meta", "req_h", "res_h"}

\* The bytes that write_record emits for one block.
BlockOf(rec, block, with_crlf) ==
  IF block \in HeaderBlocks THEN write_headers(rec[block], with_crlf)
                            ELSE write_body(rec[block], with_crlf)

NextBlock == [meta |-> "req_h", req_h |-> "req_b", req_b |-> "res_h", res_h |-> "res_b", res_b |-> "finish"]
Blocks == DOMAIN NextBlock

-----------------------------------------------------------------------------
(* The writer *)

NoRecord == [meta |-> << >>, req_h |-> << >>, req_b |-> << >>, res_h |-> << >>, res_b |-> << >>]
NoWork == [rec |-> NoRecord, strategy |-> [mode |-> "Plain", min_len |-> 0, coef2 |-> 0, check_identity |-> FALSE],
           comp |-> "Plain", start |-> 0, head |-> NoHead, out |-> << >>]

NothingRead == [kind |-> "none", start |-> 0, next |-> 0, rec |-> NoRecord, ram |-> {}, error |-> "-"]

Init ==
  /\ file = << >>
  /\ wpc = "idle"
  /\ cur = NoWork
  /\ written = {}
  /\ tune \in Tunes
  /\ pos = 0
  /\ got = NothingRead

readerVars == <<tune, pos, got>>

\* write(): seek to the end, reserve the head, and let the strategy choose.
StartWrite(rec, strategy) ==
  /\ wpc = "idle"
  /\ Cardinality(written) < MaxWrites
  /\ file' = Append(file, HeadCell(V2_RESERVE_HEAD))
  /\ cur' = [NoWork EXCEPT !.rec = rec, !.strategy = strategy, !.start = Len(file),
               !.comp = wrap_encoder(rec, strategy), !.head = [NoHead EXCEPT !.type = TypeFlag.Dialog]]
  /\ wpc' = "meta"
  /\ UNCHANGED <<written, readerVars>>

\* Mutant: leave the padding out of the count.
CountUnpadded(block) == Len(BlockOf(cur.rec, block, FALSE))

\* The length that a write of the block returns.
Count(block) == Len(BlockOf(cur.rec, block, cur.comp = "Plain"))

\* The assertion after a header block is written.
BlockTooLong(block) == block \in HeaderBlocks /\ Count(block) > MaxHBlock

\* The assertion before the response body: it allows for a CRLF in any case.
RecordTooLong(block) ==
  block = "res_b" /\ cur.head.len + Len(cur.rec.res_b) + 2 > MaxRecord

\* The next block of write_record.  A Plain encoder is the file itself; the
\* others hold the bytes until finish().  A failed assertion poisons the lock.
WriteBlock(block) ==
  /\ wpc = block
  /\ LET bytes == BlockOf(cur.rec, block, cur.comp = "Plain")
         head == [cur.head EXCEPT !.len = @ + Count(block)]
     IN IF RecordTooLong(block)
        THEN wpc' = "panic" /\ UNCHANGED <<file, cur>>
        ELSE /\ wpc' = IF BlockTooLong(block) THEN "panic" ELSE NextBlock[block]
             /\ cur' = [cur EXCEPT !.out = @ \o bytes,
                          !.head = IF block = "res_b" THEN head ELSE [head EXCEPT ![block] = Count(block)]]
             /\ file' = IF cur.comp = "Plain" THEN file \o bytes ELSE file
  /\ UNCHANGED <<written, readerVars>>

\* encoder.finish(): the encoder's output, of some length, is in the file.
Finish ==
  /\ wpc = "finish"
  /\ wpc' = "head"
  /\ IF cur.comp = "Plain"
     THEN file' = file
     ELSE \E n \in 1 .. MaxZ : file' = file \o [i \in 1 .. n |-> ZCell(IF i = 1 THEN cur.out ELSE << >>)]
  /\ UNCHANGED <<cur, written, readerVars>>

\* Mutant: take the length from the start of the file.
LenInFile == Len(file) - HeadSize

\* The length by the file's new end.
FinalLen == Len(file) - cur.start - HeadSize

\* The assertions of write() and write_record_head on the final head.
HeadRefused ==
  \/ cur.comp = "Plain" /\ cur.head.len # FinalLen
  \/ FinalLen > MaxRecord
  \/ \E b \in HeaderBlocks : cur.head[b] > MaxHBlock
  \/ cur.head.req_b > MaxReqBody

\* Seek back and write the head over the reserved one.
CommitHead ==
  /\ wpc = "head"
  /\ ~ HeadRefused
  /\ file' = [file EXCEPT ![cur.start + 1] =
                HeadCell([cur.head EXCEPT !.len = FinalLen, !.comp = ModeFlag[cur.comp]])]
  /\ written' = written \cup
       {[rec |-> cur.rec, strategy |-> cur.strategy, comp |-> cur.comp, start |-> cur.start]}
  /\ wpc' = "idle"
  /\ cur' = NoWork
  /\ UNCHANGED readerVars

RefuseHead ==
  /\ wpc = "head"
  /\ HeadRefused
  /\ wpc' = "panic"
  /\ UNCHANGED <<file, cur, written, readerVars>>

-----------------------------------------------------------------------------
(* The reader *)

\* A step of reading: ok with a value, or the error that read() returns.
Fine(v) == [error |-> "-", value |-> v]
Fails(e) == [error |-> e, value |-> << >>]

\* Mutant: refuse a block that just fits the parser.
BelowMaxHeaders(n) == n < MaxHeaders

RoomFor(n) == n <= MaxHeaders

\* httparse: lines up to an empty one, which must end the buffer.
parse_headers(buf) ==
  LET n == (Len(buf) - 2) \div LineLen
      headers == [k \in 1 .. n |-> buf[(k - 1) * LineLen + 1].data[1]]
  IN IF ~ RoomFor(n) THEN Fails("TooManyHeaders")
     ELSE IF \A k \in 1 .. n : buf[(k - 1) * LineLen + 1].b = "text"
          THEN IF buf = Lines(headers) \o CRLF THEN Fine(headers) ELSE Fails("InvalidHeader")
          ELSE Fails("InvalidHeader")

\* A block of a header map: the padding is there, or is added for the parser.
read_headers(buf, with_crlf) ==
  IF buf = << >> THEN Fine(<< >>)
  ELSE IF Len(buf) <= 2 THEN Fails("panic")  \* assert!(len > 2)
  ELSE parse_headers(IF with_crlf THEN buf ELSE buf \o CRLF)

\* Mutant: keep the padding of a body.
KeepCrlf(buf, with_crlf) == Fine(buf)

\* read_body_ram and slice_body: without the padding.
ReadBody(buf, with_crlf) ==
  IF buf = << >> THEN Fine(<< >>)
  ELSE IF with_crlf /\ Len(buf) <= 2 THEN Fails("panic")  \* assert!(len > 2)
  ELSE Fine(IF with_crlf THEN SubSeq(buf, 1, Len(buf) - 2) ELSE buf)

\* read_body_ram of the decoder's output, or read_body_fs: up to len.
ReadBodyFs(rest, len) == SubSeq(rest, 1, IF Len(rest) < len THEN Len(rest) ELSE len)

\* BodyImage::read_from (module ReadFrom): all there is, up to max_body.
ReadFrom(rest) == IF Len(rest) > tune.max_body THEN Fails("BodyTooLong") ELSE Fine(rest)

\* Mutant: compare the response body's length in the file without its padding.
FitsUnpadded(len) == len <= tune.max_body_ram + 2

\* The length that decides between RAM and a slice of the file.
FitsRam(len) == len <= tune.max_body_ram

\* An estimate above max_body_ram sends a response body to a file at once.
ReadFromRam(len) == ResEstimate <= tune.max_body_ram /\ len <= tune.max_body_ram

\* The blocks put together.  The first error counts, and leaves the reader
\* where that block ends.
Outcome(parts, ends, ram, end) ==
  LET failed == {i \in DOMAIN parts : parts[i].error # "-"}
      first == CHOOSE i \in failed : \A j \in failed : i <= j
  IN IF failed = {}
     THEN [kind |-> "record", start |-> pos, next |-> end, ram |-> ram, error |-> "-",
           rec |-> [meta |-> parts[1].value, req_h |-> parts[2].value, req_b |-> parts[3].value,
                    res_h |-> parts[4].value, res_b |-> parts[5].value]]
     ELSE [NothingRead EXCEPT !.kind = "error", !.start = pos, !.next = ends[first],
             !.error = parts[first].error]

\* The bodies that a reader takes into RAM.
RamBodies(req, res) == {b \in {"req_b"} : req} \cup {b \in {"res_b"} : res}

\* A Plain record: the response body is what the other blocks leave of len.
read_plain(h) ==
  LET o1 == pos + HeadSize
      o2 == o1 + h.meta
      o3 == o2 + h.req_h
      o4 == o3 + h.req_b
      o5 == o4 + h.res_h
      body_len == h.len - (o5 - pos - HeadSize)
      Cells(from, n) == SubSeq(file, from + 1, from + n)
  IN Outcome(<<read_headers(Cells(o1, h.meta), TRUE),
               read_headers(Cells(o2, h.req_h), TRUE),
               ReadBody(Cells(o3, h.req_b), TRUE),
               read_headers(Cells(o4, h.res_h), TRUE),
               IF body_len < 0 THEN Fails("panic")  \* u64 underflow
               ELSE ReadBody(Cells(o5, body_len), TRUE)>>,
             <<o2, o3, o4, o5, o5 + body_len>>,
             RamBodies(FitsRam(h.req_b), FitsRam(body_len)), o5 + body_len)

\* DecodeWrapper::new: Brotli is a feature of the build.
DecoderSupported(comp) == comp = ModeFlag.Brotli => tune.brotli

\* A compressed record: the decoder yields the blocks without padding, from a
\* slice of the file that has a position of its own.
read_compressed(h) ==
  LET plain == file[pos + HeadSize + 1].data
      Rest(n) == SubSeq(plain, n + 1, Len(plain))
      res_b == Rest(h.meta + h.req_h + h.req_b + h.res_h)
      start == pos + HeadSize
      parts == <<read_headers(SubSeq(plain, 1, h.meta), FALSE),
                 read_headers(SubSeq(Rest(h.meta), 1, h.req_h), FALSE),
                 ReadBody(ReadBodyFs(Rest(h.meta + h.req_h), h.req_b), FALSE),
                 read_headers(SubSeq(Rest(h.meta + h.req_h + h.req_b), 1, h.res_h), FALSE),
                 ReadFrom(res_b)>>
  IN Outcome(IF DecoderSupported(h.comp) THEN parts ELSE <<Fails("DecoderUnsupported")>>,
             [i \in 1 .. 5 |-> start],
             RamBodies(FitsRam(h.req_b), ReadFromRam(Len(res_b))), start + h.len)

HeadAtPos == file[pos + 1].head

\* BarcReader::read at a record head.
ReadRecord ==
  /\ pos < Len(file)
  /\ got.kind # "error"
  /\ HeadAtPos.type # TypeFlag.Reserved
  /\ got' = IF HeadAtPos.type # TypeFlag.Dialog
            THEN [NothingRead EXCEPT !.kind = "error", !.start = pos, !.next = pos + HeadSize,
                    !.error = "ReadInvalidRecHead"]
            ELSE IF HeadAtPos.comp = ModeFlag.Plain THEN read_plain(HeadAtPos) ELSE read_compressed(HeadAtPos)
  /\ pos' = got'.next
  /\ UNCHANGED <<file, wpc, cur, written, tune>>

\* A Reserved head, or the end of the file: None, and the offset stays.
ReadNone ==
  /\ pos < Len(file) => HeadAtPos.type = TypeFlag.Reserved
  /\ got.kind # "error"
  /\ got' = [NothingRead EXCEPT !.start = pos, !.next = pos]
  /\ UNCHANGED <<file, wpc, cur, written, tune, pos>>

\* seek() to an offset that a write returned.
Seek(start) ==
  /\ pos' = start
  /\ got' = [NothingRead EXCEPT !.start = start, !.next = start]
  /\ UNCHANGED <<file, wpc, cur, written, tune>>

Next ==
  \/ \E rec \in Records, strategy \in Strategies : StartWrite(rec, strategy)
  \/ \E block \in Blocks : WriteBlock(block)
  \/ Finish \/ CommitHead \/ RefuseHead
  \/ ReadRecord \/ ReadNone
  \/ \E w \in written : Seek(w.start)

Spec == Init /\ [][Next]_vars

-----------------------------------------------------------------------------
(* Properties *)

\* Type invariant: every variable.
TypeOK ==
  /\ \A i \in DOMAIN file : file[i].b \in {"head", "text", "cr", "lf", "z"} \/ file[i].head = NoHead
  /\ wpc \in Blocks \cup {"idle", "finish", "head", "panic"}
  /\ cur.rec \in Records \cup {NoRecord} /\ cur.comp \in DOMAIN ModeFlag
  /\ \A w \in written : w.rec \in Records /\ w.strategy \in Strategies
  /\ tune \in Tunes /\ pos \in 0 .. Len(file)
  /\ got.kind \in {"none", "record", "error"} /\ got.ram \subseteq {"req_b", "res_b"}

\* What read() returns at an offset is what the write that returned that offset was
\* given, header by header and byte by byte, whatever the compression, the padding
\* and the place (RAM or file) the reader chose, and the reader then stands at the
\* next head or at the end of the file: writer and reader agree on where each block
\* ends although the head stores no length for the response body.
RoundTrip ==
  got.kind = "record" =>
    /\ \E w \in written : w.start = got.start /\ w.rec = got.rec
    /\ pos = Len(file) \/ (pos < Len(file) /\ file[pos + 1].b = "head")

\* read() fails only for a record that was written, and only because of the reader's
\* own limits: too many header lines, a compressed response body above max_body, or
\* Brotli without the feature.  It never meets one of its assertions.
ErrorsJustified ==
  got.kind = "error" => \E w \in written :
    /\ w.start = got.start
    /\ \/ /\ got.error = "TooManyHeaders"
          /\ \E b \in HeaderBlocks : Len(w.rec[b]) > MaxHeaders
       \/ got.error = "BodyTooLong" /\ w.comp # "Plain" /\ Len(w.rec.res_b) > tune.max_body
       \/ got.error = "DecoderUnsupported" /\ w.comp = "Brotli" /\ ~ tune.brotli

\* max_body_ram bounds every body that read() returns in RAM, on each of the three
\* paths, and a Plain body goes to the file only if it does not fit with its padding.
RamBodiesFit ==
  got.kind = "record" => \A b \in {"req_b", "res_b"} :
    /\ b \in got.ram => Len(got.rec[b]) <= tune.max_body_ram
    /\ b \notin got.ram => \/ Len(got.rec[b]) + 2 > tune.max_body_ram
                           \/ b = "res_b" /\ ResEstimate > tune.max_body_ram

\* A write panics only for a record that is over a limit of the format, counted with
\* its padding; the response body is charged for a CRLF it may not get.
PanicsOnlyOverLimit ==
  wpc = "panic" =>
    LET Size(b) == Len(BlockOf(cur.rec, b, cur.comp = "Plain"))
    IN \/ \E b \in HeaderBlocks : Size(b) > MaxHBlock
       \/ Size("req_b") > MaxReqBody
       \/ Size("meta") + Size("req_h") + Size("req_b") + Size("res_h") + Len(cur.rec.res_b) + 2 > MaxRecord
       \/ cur.comp # "Plain" /\ FinalLen > MaxRecord

\* The doc of is_compressible: a record is compressed if it has at least min_len
\* "compressible bytes, from the response and request bodies and headers", discounted
\* by its other bytes, however early the count stops.
CompressedIfWorth ==
  wpc \in Blocks =>
    LET s == cur.strategy
        text(b) == Len(Lines(cur.rec[b]))
        bytes == BodiesLen(cur.rec, s) + text("meta") + text("req_h") + text("res_h")
    IN cur.comp = (IF bytes >= MinLen(cur.rec, s) THEN s.mode ELSE "Plain")

=============================================================================
