------------------------------- MODULE Dialog -------------------------------
(***************************************************************************)
(* Dialogs (body-image/src/lib.rs: Prolog, Epilog, Dialog, Encoding) and     *)
(* their conversion to BARC records and back (barc/src/lib.rs: the two       *)
(* TryFrom).                                                                *)
(*                                                                         *)
(* A body is its size, whether it is in RAM, and the codings that its bytes  *)
(* are still wrapped in, the outermost last.  Headers are the two lists of   *)
(* codings that matter, Transfer-Encoding and Content-Encoding.             *)
(***************************************************************************)
EXTENDS Naturals, Sequences

\* The variants of Encoding, by the names that Display gives them.
Encodings == {"chunked", "deflate", "gzip", "br", "compress", "identity"}

EmptyBody == [size |-> 0, ram |-> TRUE, codings |-> << >>]

\* What a request builder records of a request, by record, record_body or
\* record_body_image: a clone of what it sends, and an empty body as such.
Recorded(request) ==
  [method |-> request.method, url |-> request.url, req_h |-> request.headers,
   req_b |-> IF request.body.size = 0 THEN EmptyBody ELSE request.body]

\* Mutant: keep the body.
MarkedDecoded(dialog, body, decoded) == [dialog EXCEPT !.decoded = decoded]

\* Dialog::set_res_body_decoded and set_res_decoded
WithDecoded(dialog, body, decoded) ==
  [dialog EXCEPT !.res_b = body, !.decoded = decoded]

\* TryFrom<Dialog> for Record.  An empty list of decoded codings has no meta header.
RecordOf(dialog) ==
  [meta |-> [url |-> dialog.prolog.url, method |-> dialog.prolog.method,
             version |-> dialog.version, status |-> dialog.status,
             decoded |-> dialog.decoded],
   req_h |-> dialog.prolog.req_h, req_b |-> dialog.prolog.req_b,
   res_h |-> dialog.res_h, res_b |-> dialog.res_b]

\* The names that TryFrom<Record> knows.
KnownVersions == {"HTTP/0.9", "HTTP/1.0", "HTTP/1.1", "HTTP/2.0"}
CompressionsOnly == {"deflate", "gzip", "br"}  \* mutant: without chunked
KnownDecoded == {"chunked", "deflate", "gzip", "br"}

Absent == "absent"

\* The first reason for which TryFrom<Record> refuses a record's meta headers.  What
\* does not parse as a URL, method or status is left out: records that were made of a
\* Dialog have these from values of those types.
ConvertError(meta) ==
  IF meta.url = Absent THEN "NoMetaUrl"
  ELSE IF meta.method = Absent THEN "NoMetaMethod"
  ELSE IF meta.version = Absent THEN "NoMetaResVersion"
  ELSE IF meta.version \notin KnownVersions THEN "InvalidVersion"
  ELSE IF meta.status = Absent THEN "NoMetaResStatus"
  ELSE IF \E i \in DOMAIN meta.decoded : meta.decoded[i] \notin KnownDecoded THEN "InvalidResDecoded"
  ELSE "-"

\* TryFrom<Record> for Dialog, of a record that is not refused.
DialogOf(rec) ==
  [prolog |-> [method |-> rec.meta.method, url |-> rec.meta.url, req_h |-> rec.req_h, req_b |-> rec.req_b],
   version |-> rec.meta.version, status |-> rec.meta.status, decoded |-> rec.meta.decoded,
   res_h |-> rec.res_h, res_b |-> rec.res_b]
=============================================================================
