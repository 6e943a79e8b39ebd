-------------------------------- MODULE MCCli -------------------------------
(* Commands, files, servers and tunables for the runs of Cli. *)
EXTENDS Cli

\* a and x name one file.
MCFileOf == ("a" :> "A" @@ "x" :> "A" @@ "b" :> "B" @@ "o" :> "O")

MCIds == {"a1", "a2", "a3", "b1", "b2", "o1", "new", "other"}

Rec(id) == [id |-> id, coding |-> "plain", head |-> "Dialog"]
Br(id) == [id |-> id, coding |-> "br", head |-> "Dialog"]
Stub(id) == [id |-> id, coding |-> "plain", head |-> "Reserved"]
Cut(id) == [id |-> id, coding |-> "plain", head |-> "cut"]

There(records) == [there |-> TRUE, records |-> records]

\* Read to the end; up to a reserved head; up to a record of another build; empty.
MCContents ==
  {("A" :> There(a) @@ "B" :> b @@ "O" :> o) :
     a \in {<<Rec("a1"), Rec("a2"), Rec("a3")>>, <<Rec("a1"), Stub("a2"), Rec("a3")>>,
            <<Rec("a1"), Br("a2")>>, << >>},
     b \in {NoFile, There(<<Rec("b1"), Cut("b2")>>), There(<<Rec("b1")>>)},
     o \in {NoFile, There(<<Rec("o1")>>)}}

\* What a fetch saves to.
MCOutputs ==
  {("A" :> NoFile @@ "B" :> NoFile @@ "O" :> o) :
     o \in {NoFile, There(<<Rec("o1")>>), There(<<Stub("o1")>>)}}

Command(name, ins, out) ==
  [name |-> name, ins |-> ins, out |-> out, index |-> NoFlag, offset |-> NoFlag,
   count |-> NoFlag, strategy |-> "gzip", decode |-> TRUE]

Cat == Command("cat", <<"a">>, "o")
Cp == Command("cp", <<"a">>, "o")
Both == {Cat, Cp}

Counted == {[c EXCEPT !.count = n] : c \in Both, n \in {0, 2}}
Indexed == {[c EXCEPT !.index = n] : c \in Both, n \in {1, 3}}
FromOffset == {[c EXCEPT !.offset = n] : c \in Both, n \in {2, 3, 6}}
OffsetCount == {[c EXCEPT !.offset = 2, !.count = 1] : c \in Both}
IndexCount == {[c EXCEPT !.index = 2, !.count = 1] : c \in Both}
Several == {[c EXCEPT !.ins = <<"a", "b">>] : c \in Both}
Refusable ==
  {[c EXCEPT !.ins = <<"a", "b">>, !.count = 1] : c \in Both}
    \cup {Command("cp", <<"a">>, "a"), [Cp EXCEPT !.strategy = "br"]}
Aliased == {Command("cp", <<"a">>, "x")}
Recording == {[Command("record", << >>, "o") EXCEPT !.decode = d] : d \in BOOLEAN}
Programs == {[Command("api", << >>, "o") EXCEPT !.decode = d] : d \in BOOLEAN}

\* Sizes in units that fit small bodies.
Image(ram, max) ==
  [max_body_ram |-> ram, max_body |-> max, buffer_size_ram |-> 1, buffer_size_fs |-> 1,
   size_estimate_deflate |-> 1, size_estimate_gzip |-> 2, size_estimate_brotli |-> 2]

Tunables(ram, max, res, body) ==
  [image |-> Image(ram, max), res_timeout |-> res, body_timeout |-> body, stream_item_size |-> 1]

Get == [method |-> "GET", url |-> "u", headers |-> "h", body |-> EmptyBody]
Post == [Get EXCEPT !.method = "POST", !.body = [size |-> 1, ram |-> TRUE, codings |-> << >>]]

FileSetups(commands) ==
  {[cmd |-> c, files |-> f, tun |-> DefaultFutioTunables, request |-> Get] :
     c \in commands, f \in MCContents}

RecordSetups ==
  {[cmd |-> c, files |-> f, tun |-> DefaultFutioTunables, request |-> Get] :
     c \in Recording, f \in MCOutputs}

ProgramSetups ==
  {[cmd |-> c, files |-> "A" :> NoFile @@ "B" :> NoFile @@ "O" :> NoFile, tun |-> t, request |-> r] :
     c \in Programs, r \in {Get, Post},
     t \in {Tunables(1, 2, 1, 2), Tunables(0, 1, 0, 2), Tunables(2, 2, 2, 0)}}

\* fetch with a timeout for the response, and without.
OwnFetchSetups ==
  {[cmd |-> Command("fetch", << >>, "o"), files |-> "A" :> NoFile @@ "B" :> NoFile @@ "O" :> NoFile,
    tun |-> t, request |-> Get] : t \in {Tunables(1, 2, 1, 2), Tunables(1, 2, None, 2)}}

SelectSetups == FileSetups(Both \cup Counted \cup IndexCount)
FetchSetups == RecordSetups \cup ProgramSetups \cup OwnFetchSetups
MCSetups ==
  FetchSetups \cup
  FileSetups(Both \cup Counted \cup Indexed \cup FromOffset \cup OffsetCount
             \cup IndexCount \cup Several \cup Refusable \cup Aliased)

Response(te, ce, codings, announced) ==
  [version |-> "HTTP/1.1", te |-> te, ce |-> ce, status |-> "200", codings |-> codings,
   announced |-> announced]

\* True to their headers; with two codings, an unknown one, one that is not on the
\* body, one that no build has, headers that cannot be parsed, and bad lengths.
MCResponses ==
  {Response(<< >>, << >>, << >>, n) : n \in {1, 2, 3, NoLength, BadLength}}
    \cup {Response(<<"chunked">>, <<"x-gzip">>, <<"gzip">>, NoLength),
          Response(<<"gzip", "chunked">>, <<"deflate">>, <<"deflate", "gzip">>, NoLength),
          Response(<<"chunked">>, <<"gzip", "deflate">>, <<"gzip", "deflate">>, 1),
          Response(<< >>, <<"zstd">>, <<"zstd">>, 2),
          Response(<< >>, <<"gzip">>, << >>, NoLength),
          Response(<< >>, <<"compress">>, <<"compress">>, NoLength),
          [Response(<< >>, <<"br">>, <<"br">>, 2) EXCEPT !.version = "HTTP/2.0"],
          Response(Unparsed, <<"identity">>, << >>, NoLength),
          Response(<<"chunked">>, Unparsed, <<"gzip">>, NoLength)}
=============================================================================
