------------------------------- MODULE Decode -------------------------------
(***************************************************************************)
(* Finding the encodings of a response and decoding its body                 *)
(* (body-image-futio/src/decode.rs).                                        *)
(*                                                                         *)
(* A header is the list of its tokens in order of application, or Unparsed    *)
(* if the library that parses it reports an error.  Tokens that no coding is  *)
(* known for are any others.                                                *)
(***************************************************************************)
EXTENDS Dialog, SequencesExt

CONSTANT Features   \* subset of {"brotli", "futio"}: features of the build

Unparsed == <<"unparsed">>

Compressions == {"deflate", "gzip", "br", "compress"}

\* The coding that a token stands for.
CodingOf(token) == IF token = "x-gzip" THEN "gzip" ELSE token

\* parse_encodings: where in a list of tokens its compressions are.
parse_encodings(tokens) == {n \in DOMAIN tokens : CodingOf(tokens[n]) \in Compressions}

find_chunked(headers) == \E i \in DOMAIN headers.te : headers.te[i] = "chunked"

\* Chunked first, and at most one compression: the last that was applied, where those
\* of Transfer-Encoding are applied after those of Content-Encoding.
find_encodings(headers) ==
  LET applied == headers.ce \o headers.te
      found == parse_encodings(applied)
  IN (IF find_chunked(headers) THEN <<"chunked">> ELSE << >>)
       \o (IF found = {} THEN << >> ELSE <<CodingOf(applied[Max(found)])>>)

Compression(encodings) ==
  IF encodings # << >> /\ encodings[Len(encodings)] # "chunked"
  THEN encodings[Len(encodings)] ELSE "none"

\* decompress: what each coding needs.
Supported(coding) ==
  coding \in {"gzip", "deflate"} \/ (coding = "br" /\ "brotli" \in Features)

\* A decoder fails on bytes that are not wrapped in its coding.
Decodes(body, coding) == body.codings # << >> /\ body.codings[Len(body.codings)] = coding

\* The length estimate that decompress gives to read_from.
EstimateOf(body, coding, tune) ==
  body.size * (CASE coding = "gzip" -> tune.size_estimate_gzip
                 [] coding = "deflate" -> tune.size_estimate_deflate
                 [] OTHER -> tune.size_estimate_brotli)

\* read_from (module ReadFrom) of a decoder that yields size.
Unwrapped(body, coding, size, tune) ==
  [size |-> size, codings |-> Front(body.codings),
   ram |-> EstimateOf(body, coding, tune) <= tune.max_body_ram /\ size <= tune.max_body_ram]

\* Why decode_res_body fails, for a body that decodes to size.
DecodeError(dialog, size, tune) ==
  LET coding == Compression(find_encodings(dialog.res_h))
  IN IF coding = "none" THEN "-"
     ELSE IF ~ Supported(coding) THEN "UnsupportedEncoding"
     ELSE IF ~ Decodes(dialog.res_b, coding) THEN "Body"
     ELSE IF size > tune.max_body THEN "BodyTooLong"
     ELSE "-"

\* The dialog that decode_res_body leaves if it does not fail.
DecodedDialog(dialog, size, tune) ==
  LET encodings == find_encodings(dialog.res_h)
      coding == Compression(encodings)
  IN WithDecoded(dialog,
       IF coding = "none" THEN dialog.res_b ELSE Unwrapped(dialog.res_b, coding, size, tune),
       Append(encodings, "identity"))
=============================================================================
