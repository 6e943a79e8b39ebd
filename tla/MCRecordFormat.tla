--------------------------- MODULE MCRecordFormat ---------------------------
(* Records, strategies and tunables for the run of RecordFormat. *)
EXTENDS RecordFormat

Hdr(n, v) == [name |-> n, value |-> v]
Html == Hdr("content-type", <<"text", "html">>)
Svg == Hdr("content-type", <<"image", "svg">>)
Png == Hdr("content-type", <<"image", "png">>)
Decoded == Hdr("response-decoded", <<"gzip", "identity">>)
StillCoded == Hdr("response-decoded", <<"chunked">>)
Other == Hdr("x", << >>)

MCHeaders == {Html, Svg, Png, Decoded, StillCoded, Other}

A == Byte("a")
Cr == Byte("cr")
Lf == Byte("lf")

\* meta, request headers and body, response headers and body
Rec(m, qh, qb, sh, sb) == [meta |-> m, req_h |-> qh, req_b |-> qb, res_h |-> sh, res_b |-> sb]

MCRecords == {
  Rec(<< >>, << >>, << >>, << >>, << >>),
  Rec(<<Decoded>>, <<Other>>, << >>, <<Html>>, <<A, Cr, Lf>>),      \* a body that ends in CRLF
  Rec(<<StillCoded>>, << >>, << >>, <<Svg, Png>>, <<A, A, A, A>>),   \* still encoded; two content-types
  Rec(<< >>, <<Html>>, <<Cr, Lf>>, <<Png>>, <<A>>),                   \* a body that is a CRLF
  Rec(<<Decoded>>, << >>, <<A, A, A>>, <<Png>>, << >>),              \* req_b too long if padded
  Rec(<< >>, << >>, << >>, <<Html, Other, Other>>, <<A>>),           \* too many lines to read back
  Rec(<<Other, Other, Other, Other>>, << >>, << >>, << >>, << >>),   \* a block over its limit
  Rec(<<Decoded, Other>>, <<Other>>, << >>, <<Html>>, <<A, A, A, A, A, A>>) }  \* over MaxRecord

Strategy(mode, min, check) == [mode |-> mode, min_len |-> min, coef2 |-> 1, check_identity |-> check]

MCStrategies == {
  Strategy("Plain", 0, FALSE), Strategy("Gzip", 0, TRUE), Strategy("Gzip", 4, FALSE),
  Strategy("Gzip", 9, TRUE), Strategy("Brotli", 7, TRUE) }

Tune(ram, max, brotli) == [max_body_ram |-> ram, max_body |-> max, brotli |-> brotli]

MCTunes == {Tune(0, 2, TRUE), Tune(3, 4, FALSE), Tune(4, 8, TRUE), Tune(6, 6, TRUE)}
=============================================================================
