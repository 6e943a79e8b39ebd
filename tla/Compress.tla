------------------------------ MODULE Compress ------------------------------
(***************************************************************************)
(* Whether a record is worth compressing (barc/src/compress.rs).            *)
(*                                                                         *)
(* A header is a name and a value; a value is the sequence of its parsed     *)
(* parts: type and subtype of a content-type, the codings of a list.  In the *)
(* serialized line, name, delimiter and value together take TextLen cells,   *)
(* and CRLF two more.                                                       *)
(***************************************************************************)
EXTENDS Naturals, Sequences

CONSTANT TextLen   \* cells of a header line before its CRLF

ASSUME CompressAssumption == TextLen \in Nat \ {0}

\* Compression::flag and from_byte: what a head stores for each mode.
ModeFlag == [Plain |-> "P", Gzip |-> "Z", Brotli |-> "B"]

\* HeaderMap::get: the first value for the name, << >> if there is none.
FirstValue(headers, name) ==
  LET with == SelectSeq(headers, LAMBDA h : h.name = name)
  IN IF with = << >> THEN << >> ELSE Head(with).value

\* The response-decoded list ends in "identity": the body is known to be what
\* content-type says.
is_identity(decoded) == decoded # << >> /\ decoded[Len(decoded)] = "identity"

\* A value that does not parse as a MIME type has no two parts.
is_compressible_type(ctype) ==
  /\ Len(ctype) = 2
  /\ \/ ctype[1] = "text"
     \/ ctype[1] = "application" /\ ctype[2] \in
          {"html", "javascript", "json", "xml", "atom", "rss", "x-font-opentype",
           "x-font-truetype", "x-font-ttf", "xhtml"}
     \/ ctype[1] = "image" /\ ctype[2] = "svg"
     \/ ctype[1] = "font" /\ ctype[2] \in {"opentype", "otf", "ttf"}

len_of_headers(headers) == (TextLen + 2) * Len(headers)

\* A response body counts as compressible by its content-type, and with
\* check_identity only if it is known to be decoded.
ResCompressible(rec, strategy) ==
  /\ strategy.check_identity => is_identity(FirstValue(rec.meta, "response-decoded"))
  /\ is_compressible_type(FirstValue(rec.res_h, "content-type"))

ReqCompressible(rec) == is_compressible_type(FirstValue(rec.req_h, "content-type"))

\* non_compressible_coef, here in halves of a byte, discounts by raising min_len.
Discount(len, strategy) == (len * strategy.coef2) \div 2

MinLen(rec, strategy) ==
  strategy.min_len
    + (IF ResCompressible(rec, strategy) THEN 0 ELSE Discount(Len(rec.res_b), strategy))
    + (IF ReqCompressible(rec) THEN 0 ELSE Discount(Len(rec.req_b), strategy))

BodiesLen(rec, strategy) ==
  (IF ResCompressible(rec, strategy) THEN Len(rec.res_b) ELSE 0)
    + (IF ReqCompressible(rec) THEN Len(rec.req_b) ELSE 0)

\* Mutant: stop before the request headers.
StopsEarly(rec, strategy) ==
  LET min == MinLen(rec, strategy)
      bodies == BodiesLen(rec, strategy)
  IN bodies >= min \/ bodies + len_of_headers(rec.res_h) >= min

\* The headers are measured one block at a time, and only until there is enough.
is_compressible(rec, strategy) ==
  LET min == MinLen(rec, strategy)
      bodies == BodiesLen(rec, strategy)
      withRes == bodies + len_of_headers(rec.res_h)
      withReq == withRes + len_of_headers(rec.req_h)
  IN \/ bodies >= min
     \/ withRes >= min
     \/ withReq >= min
     \/ withReq + len_of_headers(rec.meta) >= min

\* wrap_encoder: the mode of the EncodeWrapper that each strategy returns.
wrap_encoder(rec, strategy) ==
  IF strategy.mode # "Plain" /\ is_compressible(rec, strategy)
  THEN strategy.mode ELSE "Plain"
=============================================================================
