--------------------------- MODULE ExchangeProofs ---------------------------
(* Theorems about the exchange that Cli composes with its commands, for all   *)
(* servers, tunables and commands.                                          *)
EXTENDS Cli, SequenceTheorems, WellFoundedInduction, TLAPS

\* What a state of the exchange says of the timer, the sink and the failure.
Timed ==
  /\ xpc \in {"idle", "response", "body", "prepare", "decode", "dialog", "failed"}
  /\ timer \in {"off", "running", "expired"}
  /\ xpc = "response" /\ timer # "off" => tun.res_timeout # None
  /\ xpc = "body" /\ timer # "off" => tun.body_timeout # None
  /\ xpc \in {"idle", "response"} => sink = NoSink
  /\ failure # "-" => xpc = "failed"

\* The body so far is within the limits.
Limited ==
  /\ served \in Nat
  /\ sink \in [size : Nat, ram : BOOLEAN]
  /\ sink.size <= tun.image.max_body
  /\ sink.ram => sink.size <= tun.image.max_body_ram
  /\ xpc = "decode" => dialog.prolog # << >> /\ "res_b" \in DOMAIN dialog
  /\ xpc \in {"idle", "response", "body", "prepare"} => dialog = NoDialog

\* The tunables are those of a setup, with their limits in order.
TunedInv ==
  /\ tun.image.max_body \in Nat /\ tun.image.max_body_ram \in Nat
  /\ tun.image.max_body_ram <= tun.image.max_body

IInv == TunedInv /\ Timed /\ TimeoutJustified /\ Limited /\ DialogWithinLimits

LEMMA InitInv == Init => IInv
<1> SUFFICES ASSUME Init PROVE IInv
  OBVIOUS
<1> USE DEF ExchangeInit
<1>1. TunedInv
  BY CliAssumption DEF Init, FutioTuned, Tuned, TunedInv
<1>2. Timed /\ TimeoutJustified
  BY DEF Init, Timed, TimeoutJustified
<1>3. Limited /\ DialogWithinLimits
  BY <1>1 DEF Init, Limited, DialogWithinLimits, NoSink, HasDialog, TunedInv
<1> QED  BY <1>1, <1>2, <1>3 DEF IInv

-----------------------------------------------------------------------------
(* Steps of the server and of the clock: the client still waits, so it has     *)
(* neither a dialog nor a failure.                                          *)

LEMMA WaitingClear == IInv /\ Waiting => failure = "-" /\ ~ HasDialog
BY DEF IInv, Timed, Waiting, HasDialog

LEMMA OutsideInv == IInv /\ (Environment \/ Expire) => IInv'
<1> SUFFICES ASSUME IInv, Environment \/ Expire PROVE IInv'
  OBVIOUS
<1>1. /\ Waiting
      /\ UNCHANGED <<tun, xpc, failure, sink, dialog, decodedSize>>
      /\ served' \in {served, served + 1}
      /\ timer' = timer \/ (timer = "running" /\ timer' = "expired")
  BY DEF Environment, Answer, Serve, EndBody, Break, Expire
<1>2. failure = "-" /\ ~ HasDialog
  BY <1>1, WaitingClear
<1>3. TunedInv'
  BY <1>1 DEF IInv, TunedInv
<1>4. Timed'
  BY <1>1 DEF IInv, Timed
<1>5. TimeoutJustified'
  BY <1>1, <1>2 DEF TimeoutJustified
<1>6. Limited'
  BY <1>1 DEF IInv, Limited
<1>7. DialogWithinLimits'
  BY <1>1, <1>2 DEF IInv, DialogWithinLimits, HasDialog
<1> QED  BY <1>3, <1>4, <1>5, <1>6, <1>7 DEF IInv

-----------------------------------------------------------------------------
(* Steps of the client. *)

LEMMA SendRequestInv == IInv /\ SendRequest => IInv'
<1> SUFFICES ASSUME IInv, SendRequest PROVE IInv'
  OBVIOUS
<1>1. failure = "-" /\ xpc = "idle"
  BY DEF IInv, Timed, SendRequest
<1>2. TunedInv'
  BY DEF IInv, TunedInv, SendRequest
<1>3. Timed'
  BY <1>1 DEF IInv, Timed, SendRequest, TimerFor
<1>4. TimeoutJustified' /\ DialogWithinLimits'
  BY <1>1 DEF IInv, TimeoutJustified, DialogWithinLimits, HasDialog, SendRequest
<1>5. Limited'
  BY DEF IInv, Limited, SendRequest
<1> QED  BY <1>2, <1>3, <1>4, <1>5 DEF IInv

\* A sink is made only for a length within max_body, in RAM only within max_body_ram.
LEMMA ReceiveHeadInv == IInv /\ ReceiveHead => IInv'
<1> SUFFICES ASSUME IInv, ReceiveHead PROVE IInv'
  OBVIOUS
<1>1. /\ failure = "-" /\ xpc = "response" /\ sink = NoSink
      /\ UNCHANGED <<tun, server, resp, served, dialog, decodedSize>>
      /\ timer' = TimerFor(tun.body_timeout)
  BY DEF IInv, Timed, ReceiveHead
<1>2. \/ xpc' = "body" /\ failure' = failure /\ sink' \in {NoSink, SinkFor(resp.announced)}
      \/ xpc' = "failed" /\ failure' \in {"Other", "Body"} /\ sink' = sink
      \/ /\ xpc' = "failed" /\ failure' = "ContentLengthTooLong" /\ sink' = sink
         /\ resp.announced > tun.image.max_body
  BY DEF ReceiveHead, Fail, AnnouncedTooLong
<1>3. TunedInv'
  BY <1>1 DEF IInv, TunedInv
<1>4. Timed'
  BY <1>1, <1>2 DEF IInv, Timed, TimerFor
<1>5. TimeoutJustified'
  BY <1>1, <1>2 DEF TimeoutJustified
<1>6. sink' \in [size : Nat, ram : BOOLEAN] /\ sink'.size = 0
  <2>1. sink' = NoSink \/ sink' = SinkFor(resp.announced)
    BY <1>1, <1>2
  <2>2. CASE sink' = NoSink
    BY <2>2, Zenon DEF NoSink
  <2>3. CASE sink' = SinkFor(resp.announced)
    <3>1. (resp.announced <= tun.image.max_body_ram) \in BOOLEAN
      OBVIOUS
    <3> QED  BY <2>3, <3>1 DEF SinkFor
  <2> QED  BY <2>1, <2>2, <2>3
<1>7. Limited'
  BY <1>1, <1>2, <1>6 DEF IInv, Limited, TunedInv
<1>8. DialogWithinLimits'
  BY <1>1, <1>2, <1>6 DEF IInv, DialogWithinLimits, HasDialog, TunedInv
<1> QED  BY <1>3, <1>4, <1>5, <1>7, <1>8 DEF IInv

LEMMA ReceivePieceInv == IInv /\ ReceivePiece => IInv'
<1> SUFFICES ASSUME IInv, ReceivePiece PROVE IInv'
  OBVIOUS
<1>1. /\ failure = "-" /\ xpc = "body" /\ sink.size < served
      /\ sink \in [size : Nat, ram : BOOLEAN] /\ served \in Nat
      /\ tun.image.max_body \in Nat /\ tun.image.max_body_ram \in Nat
      /\ dialog = NoDialog
      /\ UNCHANGED <<tun, timer, server, resp, served, dialog, decodedSize>>
  BY DEF IInv, Timed, Limited, TunedInv, ReceivePiece
<1>2. \/ /\ xpc' = "failed" /\ failure' = "BodyTooLong" /\ sink' = sink
         /\ sink.size + 1 > tun.image.max_body
      \/ xpc' = "failed" /\ failure' = "Body" /\ sink' = sink
      \/ /\ xpc' = xpc /\ failure' = failure
         /\ ~ (sink.size + 1 > tun.image.max_body)
         /\ sink' = [size |-> sink.size + 1, ram |-> sink.ram /\ StaysInRam(sink.size + 1)]
  BY DEF ReceivePiece, Fail
<1>3. TunedInv'
  BY <1>1 DEF IInv, TunedInv
<1>4. Timed'
  BY <1>1, <1>2 DEF IInv, Timed
<1>5. TimeoutJustified'
  BY <1>1, <1>2 DEF TimeoutJustified
<1>6. /\ sink' \in [size : Nat, ram : BOOLEAN]
      /\ sink'.size <= tun.image.max_body
      /\ sink'.ram => sink'.size <= tun.image.max_body_ram
  <2>1. CASE sink' = sink
    BY <2>1 DEF IInv, Limited
  <2>2. CASE sink' # sink
    <3>1. sink' = [size |-> sink.size + 1, ram |-> sink.ram /\ StaysInRam(sink.size + 1)]
          /\ ~ (sink.size + 1 > tun.image.max_body)
      BY <1>2, <2>2
    <3>2. sink'.size = sink.size + 1 /\ sink.size + 1 \in Nat
      BY <1>1, <3>1
    <3>3. sink'.ram = (sink.ram /\ sink.size + 1 <= tun.image.max_body_ram)
      BY <3>1, Zenon DEF StaysInRam
    <3>4. sink' \in [size : Nat, ram : BOOLEAN]
      BY <3>1, <3>2, Zenon DEF StaysInRam
    <3>5. sink'.ram => sink.size + 1 <= tun.image.max_body_ram
      BY <3>3, Zenon
    <3> QED  BY <1>1, <3>1, <3>2, <3>4, <3>5
  <2> QED  BY <2>1, <2>2
<1>7. Limited'
  BY <1>1, <1>2, <1>6 DEF IInv, Limited
<1>8. DialogWithinLimits'
  <2>1. sink.size + 1 > tun.image.max_body => served > tun.image.max_body
    BY <1>1
  <2> QED  BY <1>1, <1>2, <1>6, <2>1 DEF DialogWithinLimits, HasDialog
<1> QED  BY <1>3, <1>4, <1>5, <1>7, <1>8 DEF IInv

LEMMA ReceiveEndInv == IInv /\ ReceiveEnd => IInv'
<1> SUFFICES ASSUME IInv, ReceiveEnd PROVE IInv'
  OBVIOUS
<1>1. failure = "-" /\ xpc = "body" /\ xpc' = "prepare" /\ timer' = "off"
      /\ UNCHANGED <<tun, failure, server, resp, served, sink, dialog, decodedSize>>
  BY DEF IInv, Timed, ReceiveEnd
<1>2. TunedInv' /\ Timed' /\ Limited'
  BY <1>1 DEF IInv, TunedInv, Timed, Limited
<1>3. TimeoutJustified' /\ DialogWithinLimits'
  BY <1>1 DEF IInv, TimeoutJustified, DialogWithinLimits, HasDialog
<1> QED  BY <1>2, <1>3 DEF IInv

LEMMA ReceiveErrorInv == IInv /\ ReceiveError => IInv'
<1> SUFFICES ASSUME IInv, ReceiveError PROVE IInv'
  OBVIOUS
<1>1. xpc' = "failed" /\ failure' = "Hyper"
      /\ UNCHANGED <<tun, timer, server, resp, served, sink, dialog, decodedSize>>
  BY DEF ReceiveError, Fail
<1>2. TunedInv' /\ Timed' /\ Limited'
  BY <1>1 DEF IInv, TunedInv, Timed, Limited
<1>3. TimeoutJustified' /\ DialogWithinLimits'
  BY <1>1 DEF IInv, TimeoutJustified, DialogWithinLimits, HasDialog
<1> QED  BY <1>2, <1>3 DEF IInv

\* Only a future that is not ready lets its timer speak.
LEMMA TimeOutInv == IInv /\ TimeOut => IInv'
<1> SUFFICES ASSUME IInv, TimeOut PROVE IInv'
  OBVIOUS
<1>1. /\ xpc' = "failed" /\ timer = "expired" /\ Pending
      /\ failure' = IF xpc = "response" THEN "ResponseTimeout" ELSE "BodyTimeout"
      /\ xpc \in {"response", "body"}
      /\ UNCHANGED <<tun, timer, server, resp, served, sink, dialog, decodedSize>>
  BY DEF TimeOut, Fail, Waiting
<1>2. TunedInv' /\ Timed' /\ Limited'
  BY <1>1 DEF IInv, TunedInv, Timed, Limited
<1>3. DialogWithinLimits'
  BY <1>1 DEF IInv, DialogWithinLimits, HasDialog
<1>4. TimeoutJustified'
  <2>1. CASE xpc = "response"
    BY <1>1, <2>1 DEF IInv, Timed, Pending, TimeoutJustified
  <2>2. CASE xpc = "body"
    <3>1. server = "sending" \/ sink.size < served
      BY <1>1, <2>2 DEF Pending
    <3>2. ~ (server = "ended" /\ sink.size = served)
      BY <3>1 DEF IInv, Limited
    <3> QED  BY <1>1, <2>2, <3>2 DEF IInv, Timed, TimeoutJustified
  <2> QED  BY <1>1, <2>1, <2>2
<1> QED  BY <1>2, <1>3, <1>4 DEF IInv

\* The sink becomes the body of the dialog.
LEMMA PrepareInv == IInv /\ Prepare => IInv'
<1> SUFFICES ASSUME IInv, Prepare PROVE IInv'
  OBVIOUS
<1>1. failure = "-" /\ UNCHANGED <<tun, timer, server, resp, served, sink>>
  BY DEF IInv, Timed, Prepare
<1>2. \/ xpc' = "failed" /\ failure' = "Body" /\ dialog' = dialog
      \/ /\ xpc' = "decode" /\ failure' = failure
         /\ dialog'.prolog = Recorded(request)
         /\ "res_b" \in DOMAIN dialog'
         /\ dialog'.res_b.size = sink.size /\ dialog'.res_b.ram = sink.ram
  BY DEF Prepare, Fail
<1>3. Recorded(request) # << >>
  <2>1. "url" \in DOMAIN Recorded(request)
    BY DEF Recorded
  <2>2. DOMAIN << >> = {}
    OBVIOUS
  <2> QED  BY <2>1, <2>2
<1>4. TunedInv' /\ Timed'
  BY <1>1, <1>2 DEF IInv, TunedInv, Timed
<1>5. Limited'
  BY <1>1, <1>2, <1>3 DEF IInv, Limited
<1>6. TimeoutJustified' /\ DialogWithinLimits'
  BY <1>1, <1>2 DEF IInv, TimeoutJustified, DialogWithinLimits, HasDialog, Limited
<1> QED  BY <1>4, <1>5, <1>6 DEF IInv

LEMMA LeaveEncodedInv == IInv /\ LeaveEncoded => IInv'
<1> SUFFICES ASSUME IInv, LeaveEncoded PROVE IInv'
  OBVIOUS
<1>1. xpc = "decode" /\ xpc' = "dialog" /\ failure = "-"
      /\ UNCHANGED <<tun, failure, timer, server, resp, served, sink, dialog, decodedSize>>
  BY DEF IInv, Timed, LeaveEncoded
<1>2. TunedInv' /\ Timed' /\ Limited'
  BY <1>1 DEF IInv, TunedInv, Timed, Limited
<1>3. TimeoutJustified' /\ DialogWithinLimits'
  BY <1>1 DEF IInv, TimeoutJustified, DialogWithinLimits, HasDialog
<1> QED  BY <1>2, <1>3 DEF IInv

\* A body that decodes to more than max_body is refused; one that decodes to more
\* than max_body_ram is in a file.
LEMMA DecodeBodyInv == IInv /\ DecodeBody => IInv'
<1> SUFFICES ASSUME IInv, DecodeBody PROVE IInv'
  OBVIOUS
<1>1. /\ failure = "-" /\ xpc = "decode"
      /\ UNCHANGED <<tun, timer, server, resp, served, sink>>
  BY DEF IInv, Timed, DecodeBody
<1>2. PICK size \in DecodedSizes :
        /\ decodedSize' = size
        /\ \E error \in {DecodeError(dialog, size, tun.image)} \cup DecodeFaults :
             IF error = "-"
             THEN /\ xpc' = "dialog" /\ failure' = failure
                  /\ dialog' = DecodedDialog(dialog, size, tun.image)
             ELSE Fail(error) /\ dialog' = dialog
  BY DEF DecodeBody
<1>3. PICK error \in {DecodeError(dialog, size, tun.image)} \cup DecodeFaults :
        IF error = "-"
        THEN /\ xpc' = "dialog" /\ failure' = failure
             /\ dialog' = DecodedDialog(dialog, size, tun.image)
        ELSE Fail(error) /\ dialog' = dialog
  BY <1>2
<1>4. error = DecodeError(dialog, size, tun.image) \/ error = "Body"
  BY DEF DecodeFaults
<1>5. error \in {"-", "UnsupportedEncoding", "Body", "BodyTooLong"}
  BY <1>4 DEF DecodeError
<1>6. /\ error = "BodyTooLong" => IsCompressed /\ size > tun.image.max_body
      /\ error = "-" => ~ IsCompressed \/ ~ (size > tun.image.max_body)
  BY <1>4 DEF DecodeError, IsCompressed
<1>7. /\ size \in Nat
      /\ IsCompressed => size <= MaxDecoded
  BY ExchangeAssumption DEF DecodedSizes
<1>a. /\ tun.image.max_body \in Nat /\ tun.image.max_body_ram \in Nat
      /\ dialog.res_b.size <= tun.image.max_body
      /\ dialog.res_b.ram => dialog.res_b.size <= tun.image.max_body_ram
      /\ dialog.prolog # << >> /\ "res_b" \in DOMAIN dialog
      /\ sink.size <= tun.image.max_body
  BY <1>1 DEF IInv, TunedInv, DialogWithinLimits, HasDialog, Limited
<1>8. TunedInv'
  BY <1>1 DEF IInv, TunedInv
<1>9. CASE error = "-"
  <2>1. /\ xpc' = "dialog" /\ failure' = failure
        /\ dialog' = DecodedDialog(dialog, size, tun.image)
    BY <1>3, <1>9
  <2> DEFINE body == IF ~ IsCompressed THEN dialog.res_b
                     ELSE Unwrapped(dialog.res_b, Compression(find_encodings(dialog.res_h)),
                                    size, tun.image)
  <2>2. dialog' = [dialog EXCEPT !.res_b = body,
                     !.decoded = Append(find_encodings(dialog.res_h), "identity")]
    BY <2>1, Zenon DEF DecodedDialog, WithDecoded, IsCompressed
  <2>3. DialogWithinLimits'
    <3>1. /\ body.size <= tun.image.max_body
          /\ body.ram => body.size <= tun.image.max_body_ram
      <4>1. CASE ~ IsCompressed
        BY <4>1, <1>a
      <4>2. CASE IsCompressed
        <5>1. body.size = size
          BY <4>2, Zenon DEF Unwrapped
        <5>2. body.ram => size <= tun.image.max_body_ram
          BY <4>2, Zenon DEF Unwrapped
        <5>3. size <= tun.image.max_body
          BY <4>2, <1>6, <1>7, <1>9, <1>a
        <5> QED  BY <5>1, <5>2, <5>3, Zenon
      <4> QED  BY <4>1, <4>2
    <3>2. dialog'.res_b = body
      BY <1>a, <2>2
    <3> QED  BY <1>1, <1>a, <2>1, <3>1, <3>2 DEF DialogWithinLimits, HasDialog
  <2>4. Timed' /\ TimeoutJustified' /\ Limited'
    BY <1>1, <2>1 DEF IInv, Timed, TimeoutJustified, Limited
  <2> QED  BY <1>8, <2>3, <2>4 DEF IInv
<1>10. CASE error # "-"
  <2>1. xpc' = "failed" /\ failure' = error /\ dialog' = dialog
    BY <1>3, <1>10 DEF Fail
  <2>2. Timed' /\ TimeoutJustified' /\ Limited'
    BY <1>1, <1>5, <2>1 DEF IInv, Timed, TimeoutJustified, Limited
  <2>3. DialogWithinLimits'
    <3>1. dialog # NoDialog
      BY <1>a DEF NoDialog
    <3>2. error = "BodyTooLong" => IsCompressed /\ decodedSize' > tun.image.max_body
      BY <1>2, <1>6
    <3>3. IsCompressed' = IsCompressed
      BY <2>1 DEF IsCompressed
    <3> QED  BY <1>1, <1>5, <1>a, <2>1, <3>1, <3>2, <3>3 DEF DialogWithinLimits, HasDialog
  <2> QED  BY <1>8, <2>2, <2>3 DEF IInv
<1> QED  BY <1>9, <1>10

-----------------------------------------------------------------------------

LEMMA StutterInv == IInv /\ UNCHANGED exchangeVars => IInv'
BY DEF exchangeVars, IInv, TunedInv, Timed, TimeoutJustified, Limited, DialogWithinLimits,
       HasDialog, IsCompressed

\* All steps of the tool but Fetch leave the exchange alone.
LEMMA ToolFrame ==
  Tool => Fetch \/ UNCHANGED exchangeVars
BY DEF Tool, Start, OpenInput, OpenOutput, Skip, NextInput, ReadFails, PrintRecord,
       PrintFails, CopyRecord, CopyFails, FetchPanics, Fetched, SaveRecord

LEMMA NextInv == IInv /\ [Next]_vars => IInv'
<1> SUFFICES ASSUME IInv, [Next]_vars PROVE IInv'
  OBVIOUS
<1>1. CASE Fetch
  <2>1. Poll \/ DecodeBody \/ LeaveEncoded
    BY <1>1 DEF Fetch
  <2> QED
    BY <2>1, SendRequestInv, ReceiveHeadInv, ReceivePieceInv, ReceiveEndInv,
       ReceiveErrorInv, TimeOutInv, PrepareInv, DecodeBodyInv, LeaveEncodedInv DEF Poll
<1>2. CASE Fetching
  BY <1>2, OutsideInv DEF Fetching
<1>3. CASE UNCHANGED exchangeVars
  BY <1>3, StutterInv
<1>4. Other \/ UNCHANGED vars => UNCHANGED exchangeVars
  BY DEF Other, OtherReserves, OtherSeals, vars
<1> QED  BY <1>1, <1>2, <1>3, <1>4, ToolFrame DEF Next

LEMMA Invariant == Spec => []IInv
<1>1. Init => IInv
  BY InitInv
<1>2. IInv /\ [Next]_vars => IInv'
  BY NextInv
<1> QED  BY <1>1, <1>2, PTL DEF Spec

\* A timeout of request_dialog is reported only by its own phase, and only if what it
\* waits for was not complete when the future was last polled, for all servers and
\* tunables, with and without each of the two timeouts.
THEOREM TimeoutsJustified == Spec => []TimeoutJustified
<1>1. IInv => TimeoutJustified
  BY DEF IInv
<1> QED  BY <1>1, Invariant, PTL

\* max_body and max_body_ram hold for the body of every dialog that request_dialog and
\* decode_res_body return, for all servers and all tunables that FutioTuner lets
\* pass, and what is refused for its length is too long.
THEOREM DialogsWithinLimits == Spec => []DialogWithinLimits
<1>1. IInv => DialogWithinLimits
  BY DEF IInv
<1> QED  BY <1>1, Invariant, PTL

-----------------------------------------------------------------------------
(* What the dialog holds, and what was taken off its body. *)

\* The dialog as Prepare assembles it.
Assembled ==
  [prolog |-> Recorded(request), version |-> resp.version, status |-> resp.status,
   res_h |-> resp, decoded |-> IF find_chunked(resp) THEN <<"chunked">> ELSE << >>,
   res_b |-> [size |-> sink.size, ram |-> sink.ram, codings |-> resp.codings]]

Decoded(size) ==
  /\ DecodeError(Assembled, size, tun.image) = "-"
  /\ dialog = DecodedDialog(Assembled, size, tun.image)

\* A dialog is what was received, as it was or decoded once.
Dialogued ==
  /\ xpc \in {"idle", "response", "body", "prepare"} => dialog = NoDialog
  /\ xpc = "decode" => dialog = Assembled
  /\ xpc = "failed" => dialog = NoDialog \/ dialog = Assembled
  /\ xpc = "dialog" => dialog = Assembled \/ \E size \in Nat : Decoded(size)

\* The body arrives after its head, and in the sink after it was served.
Arrived ==
  /\ resp \in Responses \cup {NoResponse}
  /\ xpc \in {"body", "prepare", "decode", "dialog"} => resp \in Responses
  /\ served \in 0 .. MaxServed /\ decodedSize \in 0 .. MaxDecoded
  /\ sink.size \in Nat /\ sink.size <= served
  /\ server \in {"silent", "sending", "ended", "broken"}
  /\ (xpc = "failed") = (failure # "-")

Requested == request.url # Absent /\ request.method # Absent

DInv == Requested /\ Arrived /\ Dialogued

LEMMA InitDInv == Init => DInv
<1> SUFFICES ASSUME Init PROVE DInv
  OBVIOUS
<1>1. Requested
  BY CliAssumption DEF Init, Requested
<1>2. Arrived /\ Dialogued
  BY ExchangeAssumption DEF Init, ExchangeInit, Arrived, Dialogued, NoSink
<1> QED  BY <1>1, <1>2 DEF DInv

\* Nothing arrives, and no timer expires, once there is a dialog.
LEMMA OutsideDInv == Timed /\ DInv /\ (Environment \/ Expire) => DInv'
<1> SUFFICES ASSUME Timed, DInv, Environment \/ Expire PROVE DInv'
  OBVIOUS
<1>1. /\ xpc \in {"response", "body"}
      /\ UNCHANGED <<tun, request, xpc, failure, sink, dialog, decodedSize>>
      /\ resp' = resp \/ resp' \in Responses
      /\ server' \in {server, "sending", "ended", "broken"}
  BY DEF Environment, Answer, Serve, EndBody, Break, Expire, Waiting
<1>2. served' \in 0 .. MaxServed /\ served <= served'
  <2>1. resp \in Responses \cup {NoResponse} /\ served \in 0 .. MaxServed /\ MaxServed \in Nat
    BY ExchangeAssumption DEF DInv, Arrived
  <2>2. CASE served' = served
    BY <2>1, <2>2
  <2>3. CASE Serve
    <3>1. served' = served + 1 /\ served < IF Framed THEN resp.announced ELSE MaxServed
      BY <2>3 DEF Serve
    <3>2. Framed => resp.announced \in 0 .. MaxServed
      BY <2>1, ExchangeAssumption DEF Framed, NoResponse, NoLength, BadLength
    <3> QED  BY <2>1, <3>1, <3>2
  <2> QED  BY <2>2, <2>3 DEF Environment, Answer, EndBody, Break, Expire
<1>3. Requested'
  BY <1>1 DEF DInv, Requested
<1>4. Arrived'
  <2>1. resp' \in Responses \cup {NoResponse} /\ (xpc' = "body" => resp' \in Responses)
    BY <1>1 DEF DInv, Arrived
  <2>2. sink'.size <= served'
    BY <1>1, <1>2 DEF DInv, Arrived
  <2> QED  BY <1>1, <1>2, <2>1, <2>2 DEF DInv, Arrived
<1>5. Dialogued'
  BY <1>1 DEF DInv, Dialogued
<1> QED  BY <1>3, <1>4, <1>5 DEF DInv

LEMMA PollDInv == Timed /\ DInv /\ Poll => DInv'
<1> SUFFICES ASSUME Timed, DInv, Poll PROVE DInv'
  OBVIOUS
<1>1. /\ UNCHANGED <<tun, request, server, resp, served, decodedSize>>
      /\ xpc \in {"idle", "response", "body", "prepare"}
  BY DEF Poll, SendRequest, ReceiveHead, ReceivePiece, ReceiveEnd, ReceiveError, TimeOut,
         Prepare, Waiting
<1>2. failure = "-" /\ xpc # "failed"
  BY <1>1 DEF Timed
<1>3. Requested'
  BY <1>1 DEF DInv, Requested
<1>4. (xpc' = "failed") = (failure' # "-")
  BY <1>2 DEF Poll, SendRequest, ReceiveHead, ReceivePiece, ReceiveEnd, ReceiveError, TimeOut,
              Prepare, Waiting, Fail
<1>5. xpc' \in {"body", "prepare", "decode", "dialog"} => resp \in Responses
  <2>1. CASE ReceiveHead
    BY <2>1 DEF ReceiveHead, DInv, Arrived
  <2>2. CASE ~ ReceiveHead
    <3>1. xpc' \in {"body", "prepare", "decode", "dialog"} => xpc \in {"body", "prepare"}
      BY <2>2 DEF Poll, SendRequest, ReceivePiece, ReceiveEnd, ReceiveError, TimeOut,
                  Prepare, Waiting, Fail
    <3> QED  BY <3>1 DEF DInv, Arrived
  <2> QED  BY <2>1, <2>2
<1>6. sink'.size \in Nat /\ sink'.size <= served
  <2>1. sink.size \in Nat /\ sink.size <= served /\ served \in Nat
    BY DEF DInv, Arrived
  <2>2. sink' = sink \/ sink'.size = 0 \/ (sink.size < served /\ sink'.size = sink.size + 1)
    <3>1. CASE ReceiveHead
      BY <3>1 DEF ReceiveHead, Fail, NoSink, SinkFor
    <3>2. CASE ReceivePiece
      BY <3>2 DEF ReceivePiece, Fail
    <3> QED  BY <3>1, <3>2 DEF Poll, SendRequest, ReceiveEnd, ReceiveError, TimeOut, Prepare
  <2> QED  BY <2>1, <2>2
<1>7. Arrived'
  BY <1>1, <1>4, <1>5, <1>6 DEF DInv, Arrived
<1>8. Dialogued'
  <2>1. CASE xpc' = "decode"
    <3>1. Prepare
      BY <2>1, <1>1 DEF Poll, SendRequest, ReceiveHead, ReceivePiece, ReceiveEnd, ReceiveError,
                        TimeOut, Fail
    <3>2. /\ dialog' = Assembled
          /\ UNCHANGED <<request, resp, sink>>
      BY <2>1, <3>1 DEF Prepare, Assembled, Fail
    <3>3. Assembled' = Assembled
      BY <3>2 DEF Assembled
    <3> QED  BY <2>1, <3>2, <3>3 DEF Dialogued
  <2>2. CASE xpc' # "decode"
    <3>1. dialog' = dialog /\ dialog = NoDialog
      BY <1>1, <2>2 DEF Poll, SendRequest, ReceiveHead, ReceivePiece, ReceiveEnd, ReceiveError,
                        TimeOut, Prepare, Fail, DInv, Dialogued
    <3>2. xpc' # "dialog"
      BY <1>1 DEF Poll, SendRequest, ReceiveHead, ReceivePiece, ReceiveEnd, ReceiveError,
                  TimeOut, Prepare, Fail
    <3> QED  BY <2>2, <3>1, <3>2 DEF Dialogued
  <2> QED  BY <2>1, <2>2
<1> QED  BY <1>3, <1>7, <1>8 DEF DInv

LEMMA DecideDInv == Timed /\ DInv /\ (DecodeBody \/ LeaveEncoded) => DInv'
<1> SUFFICES ASSUME Timed, DInv, DecodeBody \/ LeaveEncoded PROVE DInv'
  OBVIOUS
<1>1. /\ UNCHANGED <<tun, request, server, resp, served, sink>>
      /\ xpc = "decode" /\ dialog = Assembled /\ failure = "-" /\ resp \in Responses
  BY DEF DecodeBody, LeaveEncoded, Timed, DInv, Dialogued, Arrived
<1>2. \/ xpc' = "failed" /\ failure' # "-" /\ dialog' = dialog
      \/ xpc' = "dialog" /\ failure' = "-" /\ dialog' = dialog
      \/ /\ xpc' = "dialog" /\ failure' = "-"
         /\ \E size \in Nat : /\ DecodeError(dialog, size, tun.image) = "-"
                              /\ dialog' = DecodedDialog(dialog, size, tun.image)
  <2>1. CASE LeaveEncoded
    BY <1>1, <2>1 DEF LeaveEncoded
  <2>2. CASE DecodeBody
    <3>1. PICK size \in DecodedSizes :
            \E error \in {DecodeError(dialog, size, tun.image)} \cup DecodeFaults :
              IF error = "-"
              THEN /\ xpc' = "dialog" /\ failure' = failure
                   /\ dialog' = DecodedDialog(dialog, size, tun.image)
              ELSE Fail(error) /\ dialog' = dialog
      BY <2>2 DEF DecodeBody
    <3>2. size \in Nat
      BY ExchangeAssumption DEF DecodedSizes
    <3>3. PICK error \in {DecodeError(dialog, size, tun.image)} \cup DecodeFaults :
            IF error = "-"
            THEN /\ xpc' = "dialog" /\ failure' = failure
                 /\ dialog' = DecodedDialog(dialog, size, tun.image)
            ELSE Fail(error) /\ dialog' = dialog
      BY <3>1
    <3>4. error = "-" => DecodeError(dialog, size, tun.image) = "-"
      BY DEF DecodeFaults
    <3> QED  BY <1>1, <3>2, <3>3, <3>4 DEF Fail
  <2> QED  BY <2>1, <2>2
<1>3. Assembled' = Assembled /\ tun' = tun
  BY <1>1 DEF Assembled
<1>4. Requested' /\ Arrived'
  <2>1. decodedSize' \in 0 .. MaxDecoded
    <3>1. DecodedSizes \subseteq 0 .. MaxDecoded
      BY ExchangeAssumption DEF DecodedSizes
    <3> QED  BY <3>1 DEF DecodeBody, LeaveEncoded, DInv, Arrived
  <2> QED  BY <1>1, <1>2, <2>1 DEF DInv, Requested, Arrived
<1>5. Dialogued'
  BY <1>1, <1>2, <1>3 DEF Dialogued, Decoded
<1> QED  BY <1>4, <1>5 DEF DInv

LEMMA StutterDInv == DInv /\ UNCHANGED exchangeVars => DInv'
BY DEF exchangeVars, DInv, Requested, Arrived, Dialogued, Decoded, Assembled

LEMMA NextDInv == IInv /\ DInv /\ [Next]_vars => DInv'
<1> SUFFICES ASSUME IInv, DInv, [Next]_vars PROVE DInv'
  OBVIOUS
<1>1. Timed
  BY DEF IInv
<1>2. CASE Fetch
  BY <1>1, <1>2, PollDInv, DecideDInv DEF Fetch
<1>3. CASE Fetching
  BY <1>1, <1>3, OutsideDInv DEF Fetching
<1>4. CASE UNCHANGED exchangeVars
  BY <1>4, StutterDInv
<1>5. Other \/ UNCHANGED vars => UNCHANGED exchangeVars
  BY DEF Other, OtherReserves, OtherSeals, vars
<1> QED  BY <1>2, <1>3, <1>4, <1>5, ToolFrame DEF Next

LEMMA DialogInvariant == Spec => []DInv
<1>1. Init => DInv
  BY InitDInv
<1>2. IInv /\ DInv /\ [Next]_vars => DInv'
  BY NextDInv
<1> QED  BY <1>1, <1>2, Invariant, PTL DEF Spec

\* A set of positions has a last one.
LEMMA LastPosition ==
  ASSUME NEW n \in Nat, NEW S \in SUBSET (1 .. n), S # {}
  PROVE  Max(S) \in S
<1> DEFINE T == {n - k : k \in S}
<1>1. PICK t \in T : \A u \in T : ~ (<<u, t>> \in OpToRel(<, Nat))
  <2>1. T \subseteq Nat
    OBVIOUS
  <2>2. PICK k \in S : TRUE
    OBVIOUS
  <2>3. n - k \in T
    BY <2>2
  <2> HIDE DEF T
  <2> QED  BY <2>1, <2>3, NatLessThanWellFounded, WFMin
<1>2. PICK k \in S : t = n - k
  OBVIOUS
<1>3. \A j \in S : k >= j
  <2> SUFFICES ASSUME NEW j \in S PROVE k >= j
    OBVIOUS
  <2>1. n - j \in T /\ n - j \in Nat /\ t \in Nat
    BY <1>2
  <2>2. ~ (n - j < t)
    BY <1>1, <2>1 DEF OpToRel
  <2> QED  BY <1>2, <2>2
<1> QED  BY <1>3 DEF Max

\* Tuples of known length.
LEMMA ShortTuples ==
  ASSUME NEW a, NEW b, NEW c
  PROVE  /\ DOMAIN << >> = {} /\ DOMAIN <<a>> = {1} /\ DOMAIN <<a, b>> = {1, 2}
         /\ DOMAIN <<a, b, c>> = {1, 2, 3}
         /\ Len(<<a>>) = 1 /\ Len(<<a, b>>) = 2 /\ Len(<<a, b, c>>) = 3
         /\ <<a>>[1] = a
         /\ <<a, b>>[1] = a /\ <<a, b>>[2] = b
         /\ <<a, b, c>>[1] = a /\ <<a, b, c>>[2] = b /\ <<a, b, c>>[3] = c
OBVIOUS

LEMMA NotEmptyTuples ==
  ASSUME NEW a, NEW b, NEW c
  PROVE <<a>> # << >> /\ <<a, b>> # << >> /\ <<a, b, c>> # << >>
BY ShortTuples

LEMMA AppendShort ==
  ASSUME NEW a, NEW b, NEW c
  PROVE  /\ Append(<< >>, a) = <<a>>
         /\ Append(<<a>>, b) = <<a, b>>
         /\ Append(<<a, b>>, c) = <<a, b, c>>
<1> DEFINE one == <<a>>
           two == <<a, b>>
           three == <<a, b, c>>
           S == {a, b, c}
<1>1. /\ << >> \in Seq(S) /\ one \in Seq(S) /\ two \in Seq(S) /\ three \in Seq(S)
      /\ a \in S /\ b \in S /\ c \in S
  OBVIOUS
<1>2. /\ Len(<<>>) = 0 /\ Len(one) = 1 /\ Len(two) = 2 /\ Len(three) = 3
      /\ one[1] = a /\ two[1] = a /\ two[2] = b
      /\ three[1] = a /\ three[2] = b /\ three[3] = c
  BY ShortTuples
<1> HIDE DEF one, two, three, S
<1>3. Append(<< >>, a) = one
  <2>1. /\ Append(<< >>, a) \in Seq(S) /\ Len(Append(<< >>, a)) = 1
        /\ Append(<< >>, a)[1] = a
    BY <1>1, <1>2, AppendProperties
  <2>2. \A n \in 1 .. 1 : Append(<< >>, a)[n] = one[n]
    BY ONLY <1>2, <2>1
  <2> QED  BY <1>1, <1>2, <2>1, <2>2, SeqEqual
<1>4. Append(one, b) = two
  <2>1. /\ Append(one, b) \in Seq(S) /\ Len(Append(one, b)) = 2
        /\ Append(one, b)[1] = a /\ Append(one, b)[2] = b
    <3>1. /\ Append(one, b) \in Seq(S) /\ Len(Append(one, b)) = Len(one) + 1
          /\ \A n \in 1 .. Len(one) : Append(one, b)[n] = one[n]
          /\ Append(one, b)[Len(one) + 1] = b
      BY <1>1, AppendProperties
    <3> QED  BY ONLY <1>2, <3>1
  <2>2. \A n \in 1 .. 2 : Append(one, b)[n] = two[n]
    BY ONLY <1>2, <2>1
  <2> QED  BY <1>1, <1>2, <2>1, <2>2, SeqEqual
<1>5. Append(two, c) = three
  <2>1. /\ Append(two, c) \in Seq(S) /\ Len(Append(two, c)) = 3
        /\ Append(two, c)[1] = a /\ Append(two, c)[2] = b /\ Append(two, c)[3] = c
    <3>1. /\ Append(two, c) \in Seq(S) /\ Len(Append(two, c)) = Len(two) + 1
          /\ \A n \in 1 .. Len(two) : Append(two, c)[n] = two[n]
          /\ Append(two, c)[Len(two) + 1] = c
      BY <1>1, AppendProperties
    <3> QED  BY ONLY <1>2, <3>1
  <2>2. \A n \in 1 .. 3 : Append(two, c)[n] = three[n]
    BY ONLY <1>2, <2>1
  <2> QED  BY <1>1, <1>2, <2>1, <2>2, SeqEqual
<1> QED  BY <1>3, <1>4, <1>5 DEF one, two, three

LEMMA TokensConcat ==
  ASSUME NEW s \in Seq(STRING), NEW t \in Seq(STRING)
  PROVE  Range(s \o t) = Range(s) \cup Range(t)
<1>1. /\ Len(s) \in Nat /\ Len(t) \in Nat
      /\ DOMAIN s = 1 .. Len(s) /\ DOMAIN t = 1 .. Len(t)
      /\ DOMAIN (s \o t) = 1 .. Len(s) + Len(t)
      /\ \A n \in 1 .. Len(s) + Len(t) : (s \o t)[n] = IF n <= Len(s) THEN s[n] ELSE t[n - Len(s)]
  BY ConcatProperties, LenProperties
<1>2. Range(s \o t) \subseteq Range(s) \cup Range(t)
  <2> SUFFICES ASSUME NEW n \in DOMAIN (s \o t)
               PROVE  (s \o t)[n] \in Range(s) \cup Range(t)
    BY DEF Range
  <2>1. n \in 1 .. Len(s) \/ n - Len(s) \in 1 .. Len(t)
    BY <1>1
  <2> QED  BY <1>1, <2>1 DEF Range
<1>3. Range(s) \subseteq Range(s \o t)
  <2> SUFFICES ASSUME NEW n \in DOMAIN s PROVE s[n] \in Range(s \o t)
    BY DEF Range
  <2>1. n \in DOMAIN (s \o t) /\ (s \o t)[n] = s[n]
    BY <1>1
  <2> QED  BY <2>1 DEF Range
<1>4. Range(t) \subseteq Range(s \o t)
  <2> SUFFICES ASSUME NEW n \in DOMAIN t PROVE t[n] \in Range(s \o t)
    BY DEF Range
  <2>1. n + Len(s) \in DOMAIN (s \o t) /\ (s \o t)[n + Len(s)] = t[n]
    BY <1>1
  <2> QED  BY <2>1 DEF Range
<1> QED  BY <1>2, <1>3, <1>4

\* find_encodings lists at most one compression, last, and one of those announced if there
\* are any; chunked, which is none, is all that may come before it.
LEMMA FoundEncodings ==
  ASSUME NEW headers, headers.ce \in Seq(STRING), headers.te \in Seq(STRING)
  PROVE  \/ /\ Announced(headers) \cap Compressions = {}
            /\ find_encodings(headers) = IF find_chunked(headers) THEN <<"chunked">> ELSE << >>
         \/ \E c \in Announced(headers) \cap Compressions :
              find_encodings(headers) = IF find_chunked(headers) THEN <<"chunked", c>> ELSE <<c>>
<1> DEFINE applied == headers.ce \o headers.te
           found == parse_encodings(applied)
<1>1. Range(applied) = Range(headers.ce) \cup Range(headers.te)
  BY TokensConcat
<1>2. Len(applied) \in Nat /\ DOMAIN applied = 1 .. Len(applied)
  BY ConcatProperties, LenProperties
<1>3. found \in SUBSET (1 .. Len(applied))
  BY <1>2 DEF parse_encodings
<1>4. CASE found = {}
  <2>1. Announced(headers) \cap Compressions = {}
    <3> SUFFICES ASSUME NEW t \in Range(headers.ce) \cup Range(headers.te),
                        CodingOf(t) \in Compressions
                 PROVE  FALSE
      BY DEF Announced
    <3>1. PICK n \in DOMAIN applied : t = applied[n]
      BY <1>1 DEF Range
    <3>2. n \in found
      BY <3>1 DEF parse_encodings
    <3> QED  BY <1>4, <3>2
  <2>2. find_encodings(headers) = IF find_chunked(headers) THEN <<"chunked">> ELSE << >>
    BY <1>4 DEF find_encodings
  <2> QED  BY <2>1, <2>2
<1>5. CASE found # {}
  <2> DEFINE last == Max(found)
             c == CodingOf(applied[last])
  <2>1. last \in found
    BY <1>2, <1>3, <1>5, LastPosition
  <2>2. c \in Compressions /\ applied[last] \in Range(applied)
    BY <2>1 DEF parse_encodings, Range
  <2>3. c \in Announced(headers)
    BY <1>1, <2>2 DEF Announced, Compressions
  <2>4. find_encodings(headers) = IF find_chunked(headers) THEN <<"chunked", c>> ELSE <<c>>
    <3>1. find_encodings(headers) = (IF find_chunked(headers) THEN <<"chunked">> ELSE << >>) \o <<c>>
      BY <1>5, Zenon DEF find_encodings
    <3> HIDE DEF c
    <3>2. <<"chunked">> \o <<c>> = <<"chunked", c>>
      <4>1. <<"chunked">> \in Seq({"chunked", c})
        OBVIOUS
      <4>2. <<"chunked">> \o <<c>> = Append(<<"chunked">>, c)
        BY <4>1, AppendIsConcat
      <4> QED  BY <4>2, AppendShort
    <3>3. << >> \o <<c>> = <<c>>
      <4>1. <<c>> \in Seq({c})
        OBVIOUS
      <4> QED  BY <4>1, ConcatEmptySeq
    <3> QED  BY ONLY <3>1, <3>2, <3>3
  <2> QED  BY <2>2, <2>3, <2>4
<1> QED  BY <1>4, <1>5

\* The headers of an answer are lists of tokens.
LEMMA AnswersTyped ==
  DInv /\ HasDialog => resp.ce \in Seq(STRING) /\ resp.te \in Seq(STRING) /\ resp.codings \in Seq(STRING)
BY ExchangeAssumption DEF DInv, Arrived, HasDialog

\* The compression that decode_res_body takes off is the one that find_encodings lists.
LEMMA CompressionFound ==
  ASSUME NEW headers, headers.ce \in Seq(STRING), headers.te \in Seq(STRING)
  PROVE  LET encodings == find_encodings(headers)
             c == Compression(encodings)
         IN \/ /\ c = "none" /\ Announced(headers) \cap Compressions = {}
               /\ encodings \in {<<"chunked">>, << >>}
            \/ /\ c \in Announced(headers) \cap Compressions
               /\ encodings \in {<<"chunked", c>>, <<c>>}
<1> DEFINE encodings == find_encodings(headers)
<1>1. CASE /\ Announced(headers) \cap Compressions = {}
           /\ encodings \in {<<"chunked">>, << >>}
  <2>1. Compression(encodings) = "none"
    BY <1>1 DEF Compression
  <2> QED  BY <1>1, <2>1
<1>2. CASE \E d \in Announced(headers) \cap Compressions : encodings \in {<<"chunked", d>>, <<d>>}
  <2>1. PICK d \in Announced(headers) \cap Compressions : encodings \in {<<"chunked", d>>, <<d>>}
    BY <1>2
  <2>2. d # "chunked"
    BY DEF Compressions
  <2>3. encodings # << >> /\ encodings[Len(encodings)] = d
    <3> HIDE DEF encodings
    <3>1. CASE encodings = <<d>>
      BY ONLY <3>1, ShortTuples, NotEmptyTuples
    <3>2. CASE encodings = <<"chunked", d>>
      BY ONLY <3>2, ShortTuples, NotEmptyTuples
    <3> QED  BY <2>1, <3>1, <3>2
  <2>4. Compression(encodings) = d
    BY <2>2, <2>3 DEF Compression
  <2> QED  BY <2>1, <2>4
<1>3. \/ /\ Announced(headers) \cap Compressions = {}
         /\ encodings \in {<<"chunked">>, << >>}
      \/ \E d \in Announced(headers) \cap Compressions : encodings \in {<<"chunked", d>>, <<d>>}
  BY FoundEncodings
<1> QED  BY <1>1, <1>2, <1>3

\* Identity comes last.
MarkedIdentity ==
  /\ Len(dialog.decoded) \in DOMAIN dialog.decoded
  /\ dialog.decoded[Len(dialog.decoded)] = "identity"
  /\ \A n \in DOMAIN dialog.decoded : dialog.decoded[n] \in Encodings

\* A dialog as it was received lists no compression.
LEMMA AssembledAccounts ==
  HasDialog /\ dialog = Assembled => DecodedAccountsForBody
<1> SUFFICES ASSUME HasDialog, dialog = Assembled PROVE DecodedAccountsForBody
  OBVIOUS
<1>1. dialog.decoded \in {<<"chunked">>, << >>} /\ dialog.res_b.codings = resp.codings
  BY DEF Assembled
<1>2. Removed = {} /\ ~ (dialog.decoded # << >> /\ dialog.decoded[Len(dialog.decoded)] = "identity")
  BY <1>1 DEF Removed, Compressions
<1> QED  BY <1>1, <1>2 DEF DecodedAccountsForBody

\* Decoding takes the outermost coding off, if it is the one that the headers announce last.
LEMMA DecodedAccounts ==
  ASSUME DInv, HasDialog, NEW size \in Nat, Decoded(size)
  PROVE  DecodedAccountsForBody /\ MarkedIdentity
<1> DEFINE encodings == find_encodings(resp)
           c == Compression(encodings)
           body == Assembled.res_b
<1>1. resp.ce \in Seq(STRING) /\ resp.te \in Seq(STRING) /\ resp.codings \in Seq(STRING)
  BY AnswersTyped
<1>2. \/ /\ c = "none" /\ Announced(resp) \cap Compressions = {}
         /\ encodings \in {<<"chunked">>, << >>}
      \/ /\ c \in Announced(resp) \cap Compressions
         /\ encodings \in {<<"chunked", c>>, <<c>>}
  BY <1>1, CompressionFound
<1>3. Assembled.res_h = resp /\ body.codings = resp.codings
  BY DEF Assembled
<1>4. /\ dialog.decoded = Append(encodings, "identity")
      /\ dialog.res_b = IF c = "none" THEN body ELSE Unwrapped(body, c, size, tun.image)
  <2>1. dialog = [Assembled EXCEPT
                    !.res_b = IF c = "none" THEN body ELSE Unwrapped(body, c, size, tun.image),
                    !.decoded = Append(encodings, "identity")]
    BY <1>3, Zenon DEF Decoded, DecodedDialog, WithDecoded
  <2>2. {"res_b", "decoded"} \subseteq DOMAIN Assembled
    BY DEF Assembled
  <2> HIDE DEF encodings, c, body
  <2> QED  BY <2>1, <2>2
<1> HIDE DEF encodings, c, body
<1>5. CASE c = "none"
  <2>1. dialog.decoded \in {<<"chunked", "identity">>, <<"identity">>}
    <3>1. encodings \in {<<"chunked">>, << >>}
      BY <1>2, <1>5 DEF Compressions
    <3> QED  BY ONLY <1>4, <3>1, AppendShort
  <2>2. Removed = {}
    <3>1. \A n \in DOMAIN dialog.decoded : dialog.decoded[n] \in {"chunked", "identity"}
      BY ONLY <2>1, ShortTuples
    <3> QED  BY <3>1 DEF Removed, Compressions
  <2>2a. dialog.res_b.codings = resp.codings
    BY <1>3, <1>4, <1>5
  <2>3. PlainServer => resp.codings = << >>
    <3> SUFFICES ASSUME PlainServer PROVE resp.codings = << >>
      OBVIOUS
    <3>1. Range(resp.codings) = {}
      BY <1>2, <1>5 DEF PlainServer, Compressions
    <3>2. 1 \notin DOMAIN resp.codings
      BY <3>1 DEF Range
    <3> QED  BY <1>1, <3>2
  <2>4. MarkedIdentity
    <3>1. CASE dialog.decoded = <<"identity">>
      BY ONLY <3>1, ShortTuples DEF MarkedIdentity, Encodings
    <3>2. CASE dialog.decoded = <<"chunked", "identity">>
      BY ONLY <3>2, ShortTuples DEF MarkedIdentity, Encodings
    <3> QED  BY <2>1, <3>1, <3>2
  <2> QED  BY <2>2, <2>2a, <2>3, <2>4 DEF DecodedAccountsForBody
<1>6. CASE c # "none"
  <2>1. /\ c \in Announced(resp) \cap Compressions
        /\ dialog.decoded \in {<<"chunked", c, "identity">>, <<c, "identity">>}
    <3>1. /\ c \in Announced(resp) \cap Compressions
          /\ encodings \in {<<"chunked", c>>, <<c>>}
      BY <1>2, <1>6
    <3>2. CASE encodings = <<"chunked", c>>
      BY ONLY <1>4, <3>1, <3>2, AppendShort
    <3>3. CASE encodings = <<c>>
      BY ONLY <1>4, <3>1, <3>3, AppendShort
    <3> QED  BY <3>1, <3>2, <3>3
  <2>2. Decodes(body, c)
    <3>1. DecodeError(Assembled, size, tun.image) = "-"
      BY DEF Decoded
    <3> QED  BY <1>3, <1>6, <3>1 DEF DecodeError, encodings, c, body
  <2>3. /\ resp.codings # << >> /\ resp.codings[Len(resp.codings)] = c
        /\ dialog.res_b.codings = Front(resp.codings)
    BY <1>3, <1>4, <1>6, <2>2 DEF Decodes, Unwrapped
  <2>4. resp.codings = Append(Front(resp.codings), c)
    BY <1>1, <2>3 DEF Front
  <2>5. \E n \in Removed : Removed = {n} /\ dialog.decoded[n] = c
    <3>1. CASE dialog.decoded = <<"chunked", c, "identity">>
      <4>1. Removed = {2} /\ dialog.decoded[2] = c
        BY <2>1, <3>1 DEF Removed, Compressions
      <4> QED  BY <4>1
    <3>2. CASE dialog.decoded = <<c, "identity">>
      <4>1. Removed = {1} /\ dialog.decoded[1] = c
        BY <2>1, <3>2 DEF Removed, Compressions
      <4> QED  BY <4>1
    <3> QED  BY <2>1, <3>1, <3>2
  <2>6. PlainServer => dialog.res_b.codings = << >>
    <3> SUFFICES ASSUME PlainServer PROVE Front(resp.codings) = << >>
      BY <2>3
    <3>1. Len(resp.codings) = 1
      <4> DEFINE n == Len(resp.codings)
      <4>1. n \in Nat /\ n # 0
        BY <1>1, <2>3, EmptySeq, LenProperties
      <4>2. n <= 1
        BY DEF PlainServer
      <4> HIDE DEF n
      <4>3. n = 1
        BY ONLY <4>1, <4>2
      <4> QED  BY <4>3 DEF n
    <3> QED  BY <1>1, <3>1 DEF Front
  <2>7. MarkedIdentity
    <3>1. {c, "chunked", "identity"} \subseteq Encodings
      BY <2>1 DEF Encodings, Compressions
    <3>2. CASE dialog.decoded = <<c, "identity">>
      BY ONLY <3>1, <3>2, ShortTuples DEF MarkedIdentity
    <3>3. CASE dialog.decoded = <<"chunked", c, "identity">>
      BY ONLY <3>1, <3>3, ShortTuples DEF MarkedIdentity
    <3> QED  BY <2>1, <3>2, <3>3
  <2> QED  BY <2>3, <2>4, <2>5, <2>6, <2>7 DEF DecodedAccountsForBody
<1> QED  BY <1>5, <1>6

LEMMA DialogAccounts == DInv => DecodedAccountsForBody
<1> SUFFICES ASSUME DInv, HasDialog PROVE DecodedAccountsForBody
  BY DEF DecodedAccountsForBody
<1>1. dialog = Assembled \/ \E size \in Nat : Decoded(size)
  BY DEF DInv, Dialogued, HasDialog
<1> QED  BY <1>1, AssembledAccounts, DecodedAccounts

\* res_decoded lists encodings only, if anything.
LEMMA DecodedTyped == DInv /\ Timed => \A n \in DOMAIN dialog.decoded : dialog.decoded[n] \in Encodings
<1> SUFFICES ASSUME DInv, Timed
             PROVE  \A n \in DOMAIN dialog.decoded : dialog.decoded[n] \in Encodings
  OBVIOUS
<1>1. CASE dialog = NoDialog
  BY <1>1, ShortTuples DEF NoDialog
<1>2. CASE dialog = Assembled
  <2>1. dialog.decoded = <<"chunked">> \/ dialog.decoded = << >>
    BY <1>2 DEF Assembled
  <2> QED  BY ONLY <2>1, ShortTuples DEF Encodings
<1>3. ASSUME HasDialog, NEW size \in Nat, Decoded(size)
      PROVE  \A n \in DOMAIN dialog.decoded : dialog.decoded[n] \in Encodings
  BY <1>3, DecodedAccounts DEF MarkedIdentity
<1> QED  BY <1>1, <1>2, <1>3 DEF DInv, Dialogued, Timed, HasDialog

\* The meta headers that TryFrom<Dialog> writes of a dialog as it was received are all that
\* TryFrom<Record> asks for.
LEMMA AssembledConverts ==
  DInv /\ HasDialog /\ dialog = Assembled =>
    ConvertError(RecordOf(dialog).meta) = "-" /\ DialogOf(RecordOf(dialog)) = dialog
<1> SUFFICES ASSUME DInv, HasDialog, dialog = Assembled
             PROVE  ConvertError(RecordOf(dialog).meta) = "-" /\ DialogOf(RecordOf(dialog)) = dialog
  OBVIOUS
<1>1. resp.version \in KnownVersions /\ resp.status # Absent
  BY ExchangeAssumption DEF DInv, Arrived, HasDialog
<1>2. request.url # Absent /\ request.method # Absent
  BY DEF DInv, Requested
<1>3. ConvertError(RecordOf(dialog).meta) = "-"
  <2>1. RecordOf(dialog).meta =
          [url |-> request.url, method |-> request.method, version |-> resp.version,
           status |-> resp.status,
           decoded |-> IF find_chunked(resp) THEN <<"chunked">> ELSE << >>]
    BY DEF RecordOf, Assembled, Recorded
  <2>2. resp.version # Absent
    BY <1>1 DEF KnownVersions, Absent
  <2> QED  BY <1>1, <1>2, <2>1, <2>2 DEF ConvertError, KnownDecoded
<1>4. DialogOf(RecordOf(dialog)) = dialog
  BY DEF DialogOf, RecordOf, Assembled, Recorded
<1> QED  BY <1>3, <1>4

LEMMA DialogConverts == DInv => ConvertsBackUnlessDecoded
<1> SUFFICES ASSUME DInv, HasDialog,
                    \A n \in DOMAIN dialog.decoded : dialog.decoded[n] # "identity"
             PROVE  ConvertError(RecordOf(dialog).meta) = "-" /\ DialogOf(RecordOf(dialog)) = dialog
  BY DEF ConvertsBackUnlessDecoded
<1>1. dialog = Assembled \/ \E size \in Nat : Decoded(size)
  BY DEF DInv, Dialogued, HasDialog
<1>2. ASSUME NEW size \in Nat, Decoded(size) PROVE FALSE
  BY <1>2, DecodedAccounts DEF MarkedIdentity
<1> QED  BY <1>1, <1>2, AssembledConverts

\* What res_decoded lists accounts for what was taken off the body, for all servers, whatever
\* codings they announce in whichever headers and order, and whatever they applied; and
\* Identity is true of the servers that it can be true of.
THEOREM DecodedAccounted == Spec => []DecodedAccountsForBody
BY DialogInvariant, DialogAccounts, PTL

\* A dialog that was not decoded survives its conversion to a record and back, for all requests
\* and all responses.
THEOREM UndecodedConvertsBack == Spec => []ConvertsBackUnlessDecoded
BY DialogInvariant, DialogConverts, PTL
=============================================================================
