------------------------------ MODULE Exchange ------------------------------
(***************************************************************************)
(* One HTTP exchange: request_dialog and resp_future                         *)
(* (body-image-futio/src/fetch.rs), InDialog::prepare (lib.rs) and           *)
(* decode_res_body (decode.rs) against a server and a clock that are free.   *)
(*                                                                         *)
(* A step of the client is one poll of its future.  The server answers, sends *)
(* its body piece by piece, stops or breaks off when it likes, and time runs  *)
(* out when it likes: a timeout polls the future first and its timer after.   *)
(* How the pieces pass through a sink of each blocking policy is in Forward.  *)
(***************************************************************************)
EXTENDS Decode, Tune

CONSTANTS
  Responses,  \* [version, te, ce, status, codings, announced]: what a server answers
  MaxServed,  \* bound: size of a body as served
  MaxDecoded  \* bound: size of a body as decoded

\* announced is a Content-Length, or one of these.
NoLength == MaxServed + 1000
BadLength == MaxServed + 1001

ASSUME ExchangeAssumption ==
  /\ MaxServed \in Nat /\ MaxDecoded \in Nat
  /\ Features \subseteq {"brotli", "futio"}
  /\ \A r \in Responses :
       /\ r.version \in KnownVersions /\ r.status # Absent
       /\ {r.te, r.ce, r.codings} \subseteq Seq(STRING)
       /\ r.announced \in 0 .. MaxServed \cup {NoLength, BadLength}

VARIABLES
  tun,      \* the FutioTunables
  request,  \* [method, url, headers, body], as its builder was given it
  xpc,      \* client: "idle", "response", "body", "prepare", "decode", "dialog" or "failed"
  failure,  \* the FutioError, or "-"
  timer,    \* the timeout at hand: "off", "running" or "expired"
  server,   \* server: "silent", "sending", "ended" or "broken"
  resp,     \* what the server answered
  served,   \* size that the server has sent of the body
  sink,     \* the BodySink: [size, ram]
  dialog,   \* the Dialog
  decodedSize  \* size that the decoder yielded (history)

exchangeVars ==
  <<tun, request, xpc, failure, timer, server, resp, served, sink, dialog, decodedSize>>

NoResponse == [version |-> "-", te |-> << >>, ce |-> << >>, status |-> "-", codings |-> << >>, announced |-> NoLength]
NoSink == [size |-> 0, ram |-> TRUE]
NoDialog == [prolog |-> << >>, version |-> "-", status |-> "-", res_h |-> NoResponse, res_b |-> EmptyBody, decoded |-> << >>]

ExchangeInit ==
  /\ xpc = "idle"
  /\ failure = "-"
  /\ timer = "off"
  /\ server = "silent"
  /\ resp = NoResponse
  /\ served = 0
  /\ sink = NoSink
  /\ dialog = NoDialog
  /\ decodedSize = 0

-----------------------------------------------------------------------------
(* The server and the clock (external) *)

Waiting == xpc \in {"response", "body"}

Answer ==
  /\ Waiting /\ server = "silent"
  /\ resp' \in Responses
  /\ server' = "sending"
  /\ UNCHANGED <<tun, request, xpc, failure, timer, served, sink, dialog, decodedSize>>

\* Content-Length frames the body, unless Transfer-Encoding does.
Framed == resp.announced < NoLength /\ ~ find_chunked(resp)

Serve ==
  /\ Waiting /\ server = "sending"
  /\ served < IF Framed THEN resp.announced ELSE MaxServed
  /\ served' = served + 1
  /\ UNCHANGED <<tun, request, xpc, failure, timer, server, resp, sink, dialog, decodedSize>>

EndBody ==
  /\ Waiting /\ server = "sending"
  /\ Framed => served = resp.announced
  /\ resp.codings # << >> => served > 0
  /\ server' = "ended"
  /\ UNCHANGED <<tun, request, xpc, failure, timer, resp, served, sink, dialog, decodedSize>>

Break ==
  /\ Waiting /\ server \in {"silent", "sending"}
  /\ server' = "broken"
  /\ UNCHANGED <<tun, request, xpc, failure, timer, resp, served, sink, dialog, decodedSize>>

\* The interval of the timeout at hand has passed.
Expire ==
  /\ Waiting /\ timer = "running"
  /\ timer' = "expired"
  /\ UNCHANGED <<tun, request, xpc, failure, server, resp, served, sink, dialog, decodedSize>>

-----------------------------------------------------------------------------
(* The client *)

Fail(error) == xpc' = "failed" /\ failure' = error

\* Mutant: no timeout.
NoTimer(timeout) == "off"

TimerFor(timeout) == IF timeout = None THEN "off" ELSE "running"

\* The request is sent, and the wait for a response begins.  A timeout can be made
\* only in the context of a runtime: see FetchPanics in Cli.
SendRequest ==
  /\ xpc = "idle"
  /\ xpc' = "response"
  /\ timer' = TimerFor(tun.res_timeout)
  /\ UNCHANGED <<tun, request, failure, server, resp, served, sink, dialog, decodedSize>>

AnnouncedTooLong(length) == length > tun.image.max_body

\* BodySink::with_ram or with_fs
SinkFor(length) == [size |-> 0, ram |-> length <= tun.image.max_body_ram]

\* resp_future: a sink by Content-Length, and the wait for the body begins.
ReceiveHead ==
  /\ xpc = "response" /\ resp # NoResponse
  /\ timer' = TimerFor(tun.body_timeout)
  /\ IF resp.announced = BadLength THEN Fail("Other") /\ sink' = sink
     ELSE IF resp.announced = NoLength
     THEN xpc' = "body" /\ failure' = failure /\ sink' = NoSink
     ELSE IF AnnouncedTooLong(resp.announced)
     THEN Fail("ContentLengthTooLong") /\ sink' = sink
     ELSE \/ xpc' = "body" /\ failure' = failure /\ sink' = SinkFor(resp.announced)
          \/ /\ ~ SinkFor(resp.announced).ram  \* no temporary file
             /\ Fail("Body") /\ sink' = sink
  /\ UNCHANGED <<tun, request, server, resp, served, dialog, decodedSize>>

\* Mutant: keep in RAM what just exceeds it.
StaysInRamLate(size) == size <= tun.image.max_body_ram + 1

StaysInRam(size) == size <= tun.image.max_body_ram

\* forward() moves what has arrived into the sink, under the limits of Tunables.
ReceivePiece ==
  /\ xpc = "body" /\ sink.size < served
  /\ LET size == sink.size + 1
     IN IF size > tun.image.max_body
        THEN Fail("BodyTooLong") /\ sink' = sink
        ELSE \/ /\ sink' = [size |-> size, ram |-> sink.ram /\ StaysInRam(size)]
                /\ UNCHANGED <<xpc, failure>>
             \/ /\ ~ (sink.ram /\ StaysInRam(size))  \* a failed write
                /\ Fail("Body") /\ sink' = sink
  /\ UNCHANGED <<tun, request, timer, server, resp, served, dialog, decodedSize>>

\* The future is ready: the body is complete, or the connection failed.
ReceiveEnd ==
  /\ xpc = "body" /\ sink.size = served /\ server = "ended"
  /\ xpc' = "prepare"
  /\ timer' = "off"
  /\ UNCHANGED <<tun, request, failure, server, resp, served, sink, dialog, decodedSize>>

\* What was still under way may be lost with the connection.
ReceiveError ==
  /\ Waiting /\ server = "broken"
  /\ Fail("Hyper")
  /\ UNCHANGED <<tun, request, timer, server, resp, served, sink, dialog, decodedSize>>

\* Mutant: look at the timer before the future.
TimerFirst == TRUE

\* The future was polled and is not ready.  Within a body, a poll may also end
\* for want of budget while there is more to move.
Pending ==
  \/ xpc = "response" /\ server = "silent"
  \/ xpc = "body" /\ (server = "sending" \/ sink.size < served)

TimeOut ==
  /\ Waiting /\ timer = "expired" /\ Pending
  /\ Fail(IF xpc = "response" THEN "ResponseTimeout" ELSE "BodyTimeout")
  /\ UNCHANGED <<tun, request, timer, server, resp, served, sink, dialog, decodedSize>>

\* InDialog::prepare: chunked, if the headers say so, was removed by the client.
Prepare ==
  /\ xpc = "prepare"
  /\ \/ /\ xpc' = "decode" /\ failure' = failure
        /\ dialog' = [prolog |-> Recorded(request), version |-> resp.version, status |-> resp.status,
                      res_h |-> resp, decoded |-> IF find_chunked(resp) THEN <<"chunked">> ELSE << >>,
                      res_b |-> [size |-> sink.size, ram |-> sink.ram, codings |-> resp.codings]]
     \/ ~ sink.ram /\ Fail("Body") /\ dialog' = dialog
  /\ UNCHANGED <<tun, request, timer, server, resp, served, sink, decodedSize>>

\* What the bytes of the body may decode to, and why they may not.
IsCompressed == Compression(find_encodings(dialog.res_h)) # "none"
DecodedSizes == IF IsCompressed THEN 0 .. MaxDecoded ELSE {0}
DecodeFaults == IF IsCompressed THEN {"Body"} ELSE {}

\* decode_res_body, for a caller that wants it.  Decoding may also fail for bytes
\* that are damaged, or a file that is not to be had.
DecodeBody ==
  /\ xpc = "decode"
  /\ \E size \in DecodedSizes :
       /\ decodedSize' = size
       /\ \E error \in {DecodeError(dialog, size, tun.image)} \cup DecodeFaults :
            IF error = "-"
            THEN /\ xpc' = "dialog" /\ failure' = failure
                 /\ dialog' = DecodedDialog(dialog, size, tun.image)
            ELSE Fail(error) /\ dialog' = dialog
  /\ UNCHANGED <<tun, request, timer, server, resp, served, sink>>

LeaveEncoded ==
  /\ xpc = "decode"
  /\ xpc' = "dialog"
  /\ UNCHANGED <<tun, request, failure, timer, server, resp, served, sink, dialog, decodedSize>>

Environment == Answer \/ Serve \/ EndBody \/ Break

Poll ==
  \/ SendRequest \/ ReceiveHead \/ ReceivePiece \/ ReceiveEnd \/ ReceiveError \/ TimeOut
  \/ Prepare

-----------------------------------------------------------------------------
(* Properties *)

ExchangeTypeOK ==
  /\ xpc \in {"idle", "response", "body", "prepare", "decode", "dialog", "failed"}
  /\ (xpc = "failed") = (failure # "-")
  /\ timer \in {"off", "running", "expired"}
  /\ server \in {"silent", "sending", "ended", "broken"}
  /\ served \in 0 .. MaxServed /\ sink.size \in 0 .. served
  /\ decodedSize \in 0 .. MaxDecoded
  /\ \A i \in DOMAIN dialog.decoded : dialog.decoded[i] \in Encodings

HasDialog == xpc \in {"decode", "dialog"}

\* A late answer wins over its timeout, and each timeout is only about its own phase:
\* ResponseTimeout means that there was no response at all, BodyTimeout that the
\* body was not complete ("reached before receiving the complete response body").
TimeoutJustified ==
  /\ failure = "ResponseTimeout" =>
       tun.res_timeout # None /\ server = "silent" /\ sink = NoSink
  /\ failure = "BodyTimeout" =>
       tun.body_timeout # None /\ ~ (server = "ended" /\ sink.size = served)

\* max_body and max_body_ram hold for the dialog's body, whatever Content-Length
\* said, as received and again as decoded.  A body is refused for its length only if
\* it is longer than max_body, as announced, as received or as decoded, and then
\* nothing of it beyond max_body was taken.
DialogWithinLimits ==
  /\ HasDialog =>
       /\ dialog.res_b.size <= tun.image.max_body
       /\ dialog.res_b.ram => dialog.res_b.size <= tun.image.max_body_ram
  /\ failure = "ContentLengthTooLong" => resp.announced > tun.image.max_body /\ sink = NoSink
  /\ failure = "BodyTooLong" =>
       IF dialog = NoDialog THEN served > tun.image.max_body
       ELSE IsCompressed /\ decodedSize > tun.image.max_body
  /\ sink.size <= tun.image.max_body

\* The codings that headers announce, chunked and identity aside.
Announced(headers) ==
  {CodingOf(t) : t \in Range(headers.ce) \cup Range(headers.te)} \ {"chunked", "identity"}

\* Servers for which Identity says what the comment in decode_res_body says of it: those
\* true to their headers that applied at most one coding, of a known name.
PlainServer ==
  /\ Unparsed \notin {resp.te, resp.ce}
  /\ Range(resp.codings) = Announced(resp)
  /\ Announced(resp) \subseteq Compressions
  /\ Len(resp.codings) <= 1

\* The compressions that res_decoded lists.
Removed == {n \in DOMAIN dialog.decoded : dialog.decoded[n] \in Compressions}

\* What res_decoded lists is exactly what was taken off the body: its one compression
\* at most and those still on the body make up what the server put on it, also when the
\* headers are wrong, list several codings or cannot be parsed.  Identity at its end
\* says that the body is decoded "to the associated raw Content-Type representation"
\* (decode_res_body), if the server is a plain one.
DecodedAccountsForBody ==
  HasDialog =>
    /\ \/ Removed = {} /\ resp.codings = dialog.res_b.codings
       \/ \E n \in Removed :
            /\ Removed = {n}
            /\ resp.codings = Append(dialog.res_b.codings, dialog.decoded[n])
    /\ (/\ PlainServer
        /\ dialog.decoded # << >> /\ dialog.decoded[Len(dialog.decoded)] = "identity")
         => dialog.res_b.codings = << >>

\* A dialog survives the conversion to a record and back, as long as nothing was
\* decoded: TryFrom<Record> does not know the name "identity".
ConvertsBackUnlessDecoded ==
  HasDialog /\ (\A i \in DOMAIN dialog.decoded : dialog.decoded[i] # "identity") =>
    /\ ConvertError(RecordOf(dialog).meta) = "-"
    /\ DialogOf(RecordOf(dialog)) = dialog

\* The doc of TryFrom<Record>: it "could fail, if the Record was not originally
\* produced from a Dialog or was otherwise modified".
ConvertsBack == xpc = "dialog" => ConvertError(RecordOf(dialog).meta) = "-"
=============================================================================
