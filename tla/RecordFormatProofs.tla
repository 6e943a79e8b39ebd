------------------------- MODULE RecordFormatProofs -------------------------
(* Theorems about RecordFormat, for any records, strategies, readers' tunables *)
(* and limits of the format.                                                 *)
EXTENDS RecordFormat, SequenceTheorems, TLAPS

-----------------------------------------------------------------------------
(* Sequences of cells of any kind, and the place of one in another *)

IsSeq(s) == \E S : s \in Seq(S)

\* s holds the cells of block from offset o on.
HoldsAt(s, o, block) ==
  /\ o + Len(block) <= Len(s)
  /\ \A i \in 1 .. Len(block) : s[o + i] = block[i]

LEMMA SeqMono ==
  ASSUME NEW S, NEW T, NEW s \in Seq(S), S \subseteq T
  PROVE  s \in Seq(T)
OBVIOUS

LEMMA Joined ==
  ASSUME NEW s, NEW t, IsSeq(s), IsSeq(t)
  PROVE  /\ IsSeq(s \o t)
         /\ Len(s) \in Nat /\ Len(t) \in Nat
         /\ Len(s \o t) = Len(s) + Len(t)
         /\ \A i \in 1 .. Len(s) : (s \o t)[i] = s[i]
         /\ \A i \in 1 .. Len(t) : (s \o t)[Len(s) + i] = t[i]
<1>1. PICK S : s \in Seq(S)
  BY DEF IsSeq
<1>2. PICK T : t \in Seq(T)
  BY DEF IsSeq
<1>3. s \in Seq(S \cup T) /\ t \in Seq(S \cup T)
  BY <1>1, <1>2, SeqMono
<1>4. s \o t \in Seq(S \cup T)
  BY <1>3
<1> QED  BY <1>3, <1>4 DEF IsSeq

LEMMA Appended ==
  ASSUME NEW s, NEW c, IsSeq(s)
  PROVE  /\ IsSeq(Append(s, c))
         /\ Len(s) \in Nat
         /\ Len(Append(s, c)) = Len(s) + 1
         /\ \A i \in 1 .. Len(s) : Append(s, c)[i] = s[i]
         /\ Append(s, c)[Len(s) + 1] = c
<1>1. PICK S : s \in Seq(S)
  BY DEF IsSeq
<1>2. s \in Seq(S \cup {c})
  BY <1>1, SeqMono
<1>3. Append(s, c) \in Seq(S \cup {c})
  BY <1>2
<1> QED  BY <1>2, <1>3 DEF IsSeq

LEMMA Replaced ==
  ASSUME NEW s, IsSeq(s), NEW k \in 1 .. Len(s), NEW c
  PROVE  /\ IsSeq([s EXCEPT ![k] = c])
         /\ Len(s) \in Nat
         /\ Len([s EXCEPT ![k] = c]) = Len(s)
         /\ [s EXCEPT ![k] = c][k] = c
         /\ \A i \in 1 .. Len(s) : i # k => [s EXCEPT ![k] = c][i] = s[i]
<1>1. PICK S : s \in Seq(S)
  BY DEF IsSeq
<1>2. s \in Seq(S \cup {c})
  BY <1>1, SeqMono
<1>3. [s EXCEPT ![k] = c] \in Seq(S \cup {c}) /\ Len([s EXCEPT ![k] = c]) = Len(s)
  BY <1>2, ExceptSeq
<1> QED  BY <1>2, <1>3 DEF IsSeq

\* A function on 1 .. n is a sequence.
LEMMA Listed ==
  ASSUME NEW n \in Nat, NEW f, f = [i \in 1 .. n |-> f[i]]
  PROVE  IsSeq(f) /\ Len(f) = n
<1> DEFINE S == {f[i] : i \in 1 .. n}
<1>1. f \in [1 .. n -> S]
  OBVIOUS
<1> HIDE DEF S
<1>2. f \in Seq(S)
  BY <1>1, SeqDef
<1>3. Len(f) = n
  BY <1>1, <1>2
<1> QED  BY <1>2, <1>3 DEF IsSeq

\* A part of a sequence that ends within it.
LEMMA Part ==
  ASSUME NEW s, IsSeq(s), NEW o \in Nat, NEW n \in Nat, o + n <= Len(s)
  PROVE  /\ IsSeq(SubSeq(s, o + 1, o + n))
         /\ Len(SubSeq(s, o + 1, o + n)) = n
         /\ \A i \in 1 .. n : SubSeq(s, o + 1, o + n)[i] = s[o + i]
<1>1. PICK S : s \in Seq(S)
  BY DEF IsSeq
<1>2. Len(s) \in Nat
  BY <1>1
<1>3. SubSeq(s, o + 1, o + n) = [i \in 1 .. n |-> s[o + i]]
  BY <1>1, <1>2
<1> DEFINE f == [i \in 1 .. n |-> s[o + i]]
<1>4. f = [i \in 1 .. n |-> f[i]]
  OBVIOUS
<1>5. \A i \in 1 .. n : f[i] = s[o + i]
  OBVIOUS
<1> HIDE DEF f
<1>6. IsSeq(f) /\ Len(f) = n
  BY <1>4, Listed
<1> QED  BY <1>3, <1>5, <1>6 DEF f

\* The same from the start.
LEMMA Prefix ==
  ASSUME NEW s, IsSeq(s), NEW n \in Nat, n <= Len(s)
  PROVE  /\ IsSeq(SubSeq(s, 1, n))
         /\ Len(SubSeq(s, 1, n)) = n
         /\ \A i \in 1 .. n : SubSeq(s, 1, n)[i] = s[i]
<1>1. PICK S : s \in Seq(S)
  BY DEF IsSeq
<1>2. Len(s) \in Nat
  BY <1>1
<1>3. SubSeq(s, 1, n) = [i \in 1 .. n |-> s[i]]
  BY <1>1, <1>2
<1> DEFINE f == [i \in 1 .. n |-> s[i]]
<1>4. f = [i \in 1 .. n |-> f[i]]
  OBVIOUS
<1>5. \A i \in 1 .. n : f[i] = s[i]
  OBVIOUS
<1> HIDE DEF f
<1>6. IsSeq(f) /\ Len(f) = n
  BY <1>4, Listed
<1> QED  BY <1>3, <1>5, <1>6 DEF f

\* Two sequences with the same cells are the same.
LEMMA SameCells ==
  ASSUME NEW s, NEW t, IsSeq(s), IsSeq(t), Len(s) = Len(t),
         \A i \in 1 .. Len(s) : s[i] = t[i]
  PROVE  s = t
<1>1. PICK S : s \in Seq(S)
  BY DEF IsSeq
<1>2. PICK T : t \in Seq(T)
  BY DEF IsSeq
<1>3. s \in Seq(S \cup T) /\ t \in Seq(S \cup T)
  BY <1>1, <1>2, SeqMono
<1> QED  BY <1>3, SeqEqual

\* A block is what lies at its place.
LEMMA Extract ==
  ASSUME NEW s, NEW block, IsSeq(s), IsSeq(block), NEW o \in Nat, HoldsAt(s, o, block)
  PROVE  SubSeq(s, o + 1, o + Len(block)) = block
<1>1. Len(block) \in Nat
  BY Joined
<1>2. /\ IsSeq(SubSeq(s, o + 1, o + Len(block)))
      /\ Len(SubSeq(s, o + 1, o + Len(block))) = Len(block)
      /\ \A i \in 1 .. Len(block) : SubSeq(s, o + 1, o + Len(block))[i] = s[o + i]
  BY <1>1, Part DEF HoldsAt
<1> QED  BY <1>2, SameCells DEF HoldsAt

\* A part of the rest of a sequence is a part of the sequence.
LEMMA PartOfRest ==
  ASSUME NEW s, IsSeq(s), NEW o \in Nat, NEW n \in Nat, o + n <= Len(s)
  PROVE  /\ SubSeq(SubSeq(s, o + 1, Len(s)), 1, n) = SubSeq(s, o + 1, o + n)
         /\ Len(SubSeq(s, o + 1, Len(s))) = Len(s) - o
<1>1. Len(s) \in Nat
  BY Joined
<1> DEFINE rest == SubSeq(s, o + 1, Len(s))
<1>2. PICK m \in Nat : m = Len(s) - o /\ o + m = Len(s) /\ n <= m
  BY <1>1
<1>3. /\ IsSeq(rest) /\ Len(rest) = m
      /\ \A i \in 1 .. m : rest[i] = s[o + i]
  <2>1. rest = SubSeq(s, o + 1, o + m)
    BY <1>2
  <2>2. o + m <= Len(s)
    BY <1>1, <1>2
  <2> HIDE DEF rest
  <2> QED  BY <2>1, <2>2, Part
<1> HIDE DEF rest
<1>4. /\ IsSeq(SubSeq(rest, 1, n))
      /\ Len(SubSeq(rest, 1, n)) = n
      /\ \A i \in 1 .. n : SubSeq(rest, 1, n)[i] = rest[i]
  BY <1>2, <1>3, Prefix
<1>5. /\ IsSeq(SubSeq(s, o + 1, o + n))
      /\ Len(SubSeq(s, o + 1, o + n)) = n
      /\ \A i \in 1 .. n : SubSeq(s, o + 1, o + n)[i] = s[o + i]
  BY Part
<1>6. SubSeq(rest, 1, n) = SubSeq(s, o + 1, o + n)
  <2>1. \A i \in 1 .. n : rest[i] = s[o + i]
    BY <1>2, <1>3
  <2> QED  BY <1>4, <1>5, <2>1, SameCells
<1> QED  BY <1>2, <1>3, <1>6 DEF rest

\* What a sequence holds it holds also when it grows.
LEMMA HoldsMore ==
  ASSUME NEW s, NEW t, NEW o \in Nat, NEW block, Len(block) \in Nat,
         Len(s) \in Nat, Len(t) \in Nat, Len(s) <= Len(t),
         \A i \in 1 .. Len(s) : o < i /\ i <= o + Len(block) => t[i] = s[i],
         HoldsAt(s, o, block)
  PROVE  HoldsAt(t, o, block)
<1>1. ASSUME NEW i \in 1 .. Len(block)
      PROVE  t[o + i] = block[i]
  <2>1. o + Len(block) <= Len(s) /\ s[o + i] = block[i]
    BY DEF HoldsAt
  <2>2. PICK k \in Nat : k = o + i /\ o < k /\ k <= o + Len(block)
    OBVIOUS
  <2>3. k \in 1 .. Len(s)
    BY <2>1, <2>2
  <2>4. t[k] = s[k]
    BY <2>2, <2>3
  <2> QED  BY <2>1, <2>2, <2>4
<1>2. o + Len(block) <= Len(t)
  BY DEF HoldsAt
<1> QED  BY <1>1, <1>2 DEF HoldsAt

\* What lies within a part lies in the whole.
LEMMA HoldsWithin ==
  ASSUME NEW s, NEW t, NEW o \in Nat, NEW p \in Nat, NEW block,
         Len(block) \in Nat, Len(s) \in Nat, Len(t) \in Nat,
         HoldsAt(t, p, s), HoldsAt(s, o, block)
  PROVE  HoldsAt(t, p + o, block)
<1>1. ASSUME NEW i \in 1 .. Len(block)
      PROVE  t[p + o + i] = block[i]
  <2>1. o + i \in 1 .. Len(s) /\ s[o + i] = block[i]
    <3>1. i \in Nat /\ 1 <= i /\ i <= Len(block) /\ o + Len(block) <= Len(s) /\ s[o + i] = block[i]
      BY DEF HoldsAt
    <3> QED  BY <3>1
  <2>2. t[p + (o + i)] = s[o + i]
    BY <2>1 DEF HoldsAt
  <2>3. p + (o + i) = p + o + i
    BY <2>1
  <2> QED  BY <2>1, <2>2, <2>3
<1> QED  BY <1>1 DEF HoldsAt

-----------------------------------------------------------------------------
(* Header blocks *)

\* LineLen cells per line: where a line begins, and how many there are.
LEMMA LineArithmetic ==
  ASSUME NEW m \in Nat
  PROVE  /\ LineLen \in Nat /\ LineLen >= 3
         /\ LineLen * m \in Nat
         /\ (LineLen * m) \div LineLen = m
         /\ m > 0 => LineLen * m >= LineLen
         /\ \A k \in 1 .. m :
              /\ (k - 1) * LineLen + 1 \in 1 .. LineLen * m
              /\ ((k - 1) * LineLen) \div LineLen = k - 1
              /\ ((k - 1) * LineLen) % LineLen = 0
<1>1. LineLen \in Nat /\ LineLen >= 3
  BY CompressAssumption DEF LineLen
<1>2. PICK L \in Nat : L = LineLen /\ L >= 3
  BY <1>1
<1>3. \A j \in Nat : L * j \in Nat /\ (L * j) \div L = j /\ (L * j) % L = 0 /\ L * j = j * L
  BY <1>2
<1>4. m > 0 => L * m >= L
  BY <1>2
<1>5. \A k \in 1 .. m : L * (k - 1) + 1 \in 1 .. L * m
  BY <1>2
<1>6. \A k \in 1 .. m : k - 1 \in Nat
  OBVIOUS
<1>7. \A k \in 1 .. m : L * (k - 1) = (k - 1) * L
  BY <1>3, <1>6
<1> QED  BY <1>2, <1>3, <1>4, <1>5, <1>6, <1>7

\* A block of n header lines has LineLen cells for each, and the first cell of a
\* line tells which it is.
LEMMA LinesOf ==
  ASSUME NEW h \in HeaderMap
  PROVE  /\ Len(h) \in Nat
         /\ IsSeq(Lines(h)) /\ Len(Lines(h)) = LineLen * Len(h)
         /\ \A k \in 1 .. Len(h) : Lines(h)[(k - 1) * LineLen + 1] = TextCell(h[k], 1)
<1>1. Len(h) \in Nat
  BY DEF HeaderMap
<1>2. LineLen * Len(h) \in Nat
  BY <1>1, LineArithmetic
<1>3. PICK n \in Nat : n = LineLen * Len(h)
  BY <1>2
<1> DEFINE cell(i) == LET j == ((i - 1) % LineLen) + 1
                      IN IF j <= TextLen THEN TextCell(h[((i - 1) \div LineLen) + 1], j)
                                         ELSE CRLF[j - TextLen]
<1>4. Lines(h) = [i \in 1 .. n |-> cell(i)]
  BY <1>3 DEF Lines
<1> HIDE DEF cell
<1>5. Lines(h) = [i \in 1 .. n |-> Lines(h)[i]]
  BY <1>4
<1>6. IsSeq(Lines(h)) /\ Len(Lines(h)) = n
  BY <1>3, <1>5, Listed
<1>7. ASSUME NEW k \in 1 .. Len(h)
      PROVE  Lines(h)[(k - 1) * LineLen + 1] = TextCell(h[k], 1)
  <2>1. PICK p : p = (k - 1) * LineLen
    OBVIOUS
  <2>2. /\ p + 1 \in 1 .. n
        /\ p \div LineLen = k - 1
        /\ p % LineLen = 0
    BY <1>1, <1>3, <2>1, LineArithmetic
  <2>3. LineLen \in Nat /\ k \in Int
    BY <1>1, LineArithmetic
  <2>4. p \in Int
    BY <2>1, <2>3
  <2>5. (p + 1) - 1 = p
    BY <2>4
  <2>6. Lines(h)[p + 1] = cell(p + 1)
    BY <1>4, <2>2
  <2>7. cell(p + 1) = TextCell(h[k], 1)
    <3>1. (((p + 1) - 1) % LineLen) + 1 = 1 /\ (((p + 1) - 1) \div LineLen) + 1 = k
      BY <2>2, <2>3, <2>5
    <3> QED  BY <3>1, CompressAssumption DEF cell
  <2> QED  BY <2>1, <2>6, <2>7
<1> QED  BY <1>1, <1>3, <1>6, <1>7

LEMMA TwoCells ==
  /\ IsSeq(CRLF) /\ Len(CRLF) = 2
  /\ IsSeq(<< >>) /\ Len(<< >>) = 0
<1>1. CRLF \in Seq({Byte("cr"), Byte("lf")}) /\ Len(CRLF) = 2
  BY DEF CRLF
<1>2. << >> \in Seq({}) /\ Len(<< >>) = 0
  OBVIOUS
<1> QED  BY <1>1, <1>2 DEF IsSeq

LEMMA PaddedSeq ==
  ASSUME NEW block, IsSeq(block), NEW with_crlf \in BOOLEAN
  PROVE  /\ IsSeq(Padded(block, with_crlf))
         /\ Len(block) \in Nat /\ Len(Padded(block, with_crlf)) \in Nat
         /\ Len(Padded(block, with_crlf)) =
              IF with_crlf /\ block # << >> THEN Len(block) + 2 ELSE Len(block)
         /\ \A i \in 1 .. Len(block) : Padded(block, with_crlf)[i] = block[i]
         /\ (block = << >>) = (Len(block) = 0)
<1>1. /\ IsSeq(block \o CRLF) /\ Len(block) \in Nat
      /\ Len(block \o CRLF) = Len(block) + 2
      /\ \A i \in 1 .. Len(block) : (block \o CRLF)[i] = block[i]
  <2>1. IsSeq(CRLF) /\ Len(CRLF) = 2
    BY TwoCells
  <2>2. /\ IsSeq(block \o CRLF) /\ Len(block) \in Nat
        /\ Len(block \o CRLF) = Len(block) + Len(CRLF)
        /\ \A i \in 1 .. Len(block) : (block \o CRLF)[i] = block[i]
    BY <2>1, Joined, ZenonT(60)
  <2> QED  BY <2>1, <2>2, Zenon
<1>2. (block = << >>) = (Len(block) = 0)
  <2>1. ASSUME Len(block) = 0 PROVE block = << >>
    BY <2>1, TwoCells, SameCells
  <2> QED  BY <2>1, TwoCells
<1>3. CASE with_crlf /\ block # << >>
  <2>1. Padded(block, with_crlf) = block \o CRLF
    BY <1>3 DEF Padded
  <2>2. /\ IsSeq(Padded(block, with_crlf)) /\ Len(block) \in Nat
        /\ Len(Padded(block, with_crlf)) = Len(block) + 2
        /\ \A i \in 1 .. Len(block) : Padded(block, with_crlf)[i] = block[i]
    BY <1>1, <2>1, Zenon
  <2>3. Len(block) + 2 \in Nat
    BY <2>2
  <2> QED  BY <1>2, <1>3, <2>2, <2>3, Zenon
<1>4. CASE ~ (with_crlf /\ block # << >>)
  <2>1. Padded(block, with_crlf) = block
    BY <1>4 DEF Padded
  <2> QED  BY <1>1, <1>2, <1>4, <2>1
<1> QED  BY <1>3, <1>4

\* The parser gets back the header lines of a block, unless there are too many.
LEMMA HeadersBack ==
  ASSUME NEW h \in HeaderMap, NEW with_crlf \in BOOLEAN
  PROVE  \/ read_headers(write_headers(h, with_crlf), with_crlf) = Fine(h)
         \/ /\ read_headers(write_headers(h, with_crlf), with_crlf) = Fails("TooManyHeaders")
            /\ Len(h) > MaxHeaders
<1> DEFINE m == Len(h)
           block == Lines(h)
           buf == write_headers(h, with_crlf)
           full == block \o CRLF
<1>1. /\ m \in Nat /\ IsSeq(block) /\ Len(block) = LineLen * m
      /\ \A k \in 1 .. m : block[(k - 1) * LineLen + 1] = TextCell(h[k], 1)
  BY LinesOf
<1>2. /\ Len(buf) = IF with_crlf /\ block # << >> THEN Len(block) + 2 ELSE Len(block)
      /\ (block = << >>) = (Len(block) = 0)
  BY <1>1, PaddedSeq DEF write_headers
<1>3. CASE m = 0
  <2>1. h = << >>
    BY <1>3 DEF HeaderMap
  <2>2. LineLen * m = 0
    BY <1>3, LineArithmetic
  <2>3. block = << >>
    BY <1>1, <1>2, <2>2
  <2>4. buf = << >>
    BY <2>3 DEF write_headers, Padded
  <2> HIDE DEF buf
  <2>5. read_headers(buf, with_crlf) = Fine(<< >>)
    BY <2>4 DEF read_headers
  <2> QED  BY <2>1, <2>5 DEF buf
<1>4. CASE m > 0
  <2>1. /\ LineLen \in Nat /\ LineLen >= 3 /\ LineLen * m >= LineLen
        /\ LineLen * m \in Nat
        /\ (LineLen * m) \div LineLen = m
        /\ \A k \in 1 .. m : (k - 1) * LineLen + 1 \in 1 .. LineLen * m
    BY <1>1, <1>4, LineArithmetic
  <2>2. block # << >> /\ Len(block) >= 3 /\ Len(block) \in Nat
    BY <1>1, <1>2, <2>1
  <2>3. /\ Len(full) = Len(block) + 2
        /\ \A i \in 1 .. Len(block) : full[i] = block[i]
    <3>1. IsSeq(CRLF) /\ Len(CRLF) = 2
      BY TwoCells
    <3>2. /\ Len(full) = Len(block) + Len(CRLF)
          /\ \A i \in 1 .. Len(block) : full[i] = block[i]
      BY <1>1, <3>1, Joined, ZenonT(60)
    <3> QED  BY <3>1, <3>2, Zenon
  <2>4. Len(buf) > 2
    BY <1>2, <2>2
  <2>5. buf # << >>
    BY <2>4, TwoCells
  <2>6. (IF with_crlf THEN buf ELSE buf \o CRLF) = full
    BY <2>2 DEF write_headers, Padded
  <2> HIDE DEF buf, full
  <2>7. read_headers(buf, with_crlf) = parse_headers(full)
    <3>1. ~ (Len(buf) <= 2)
      BY <1>1, <1>2, <2>2, <2>4
    <3> QED  BY <2>5, <2>6, <3>1, Zenon DEF read_headers
  <2>8. (Len(full) - 2) \div LineLen = m
    <3>1. Len(full) - 2 = LineLen * m
      BY <1>1, <2>1, <2>3
    <3> QED  BY <2>1, <3>1
  <2>9. ASSUME NEW k \in 1 .. m
        PROVE  full[(k - 1) * LineLen + 1].data[1] = h[k] /\ full[(k - 1) * LineLen + 1].b = "text"
    <3>1. full[(k - 1) * LineLen + 1] = TextCell(h[k], 1)
      BY <1>1, <2>1, <2>3
    <3> QED  BY <3>1 DEF TextCell
  <2>10. [k \in 1 .. m |-> full[(k - 1) * LineLen + 1].data[1]] = h
    <3>1. h = [k \in 1 .. m |-> h[k]]
      BY DEF HeaderMap
    <3>2. [k \in 1 .. m |-> full[(k - 1) * LineLen + 1].data[1]] = [k \in 1 .. m |-> h[k]]
      BY <2>9
    <3> QED  BY <3>1, <3>2
  <2>11. parse_headers(full) = IF ~ RoomFor(m) THEN Fails("TooManyHeaders") ELSE Fine(h)
    <3>1. full = Lines(h) \o CRLF
      BY DEF full
    <3> HIDE DEF m
    <3> QED  BY <2>8, <2>9, <2>10, <3>1 DEF parse_headers
  <2>12. MaxHeaders \in Nat
    BY RecordAssumption
  <2> QED  BY <1>1, <2>7, <2>11, <2>12 DEF RoomFor, buf
<1> QED  BY <1>1, <1>3, <1>4

\* A body comes back without its padding.
LEMMA BodyBack ==
  ASSUME NEW body, IsSeq(body), NEW with_crlf \in BOOLEAN
  PROVE  ReadBody(write_body(body, with_crlf), with_crlf) = Fine(body)
<1> DEFINE buf == write_body(body, with_crlf)
<1>1. /\ IsSeq(buf) /\ Len(body) \in Nat
      /\ Len(buf) = IF with_crlf /\ body # << >> THEN Len(body) + 2 ELSE Len(body)
      /\ \A i \in 1 .. Len(body) : buf[i] = body[i]
      /\ (body = << >>) = (Len(body) = 0)
  BY PaddedSeq DEF write_body
<1>2. CASE body = << >>
  <2>1. buf = << >>
    BY <1>2 DEF write_body, Padded
  <2> QED  BY <1>2, <2>1 DEF ReadBody
<1>3. CASE body # << >> /\ with_crlf
  <2>1. Len(buf) = Len(body) + 2 /\ Len(body) > 0
    BY <1>1, <1>3
  <2>2. buf # << >> /\ ~ (Len(buf) <= 2)
    BY <1>1, <2>1, TwoCells
  <2> HIDE DEF buf
  <2>3. /\ IsSeq(SubSeq(buf, 1, Len(body)))
        /\ Len(SubSeq(buf, 1, Len(body))) = Len(body)
        /\ \A i \in 1 .. Len(body) : SubSeq(buf, 1, Len(body))[i] = buf[i]
    <3>1. Len(body) <= Len(buf)
      BY <1>1, <2>1
    <3> QED  BY <1>1, <3>1, Prefix
  <2>4. SubSeq(buf, 1, Len(body)) = body
    BY <1>1, <2>3, SameCells
  <2>5. Len(buf) - 2 = Len(body)
    BY <1>1, <2>1
  <2>6. ReadBody(buf, with_crlf) = Fine(body)
    BY <1>3, <2>2, <2>4, <2>5 DEF ReadBody
  <2> QED  BY <2>6 DEF buf
<1>4. CASE body # << >> /\ ~ with_crlf
  <2>1. buf = body
    BY <1>4 DEF write_body, Padded
  <2> QED  BY <1>4, <2>1 DEF ReadBody
<1> QED  BY <1>2, <1>3, <1>4

-----------------------------------------------------------------------------
(* The inductive invariant *)

RecType == [meta : HeaderMap, req_h : HeaderMap, req_b : Body, res_h : HeaderMap, res_b : Body]
StrategyType == [mode : DOMAIN ModeFlag, min_len : Nat, coef2 : Nat, check_identity : BOOLEAN]
HeadType == [len : Nat, type : {"-", "R", "D"}, comp : {"-", "P", "Z", "B"},
             meta : Nat, req_h : Nat, req_b : Nat, res_h : Nat]
WorkType(S) == [rec : RecType, strategy : StrategyType, comp : DOMAIN ModeFlag,
                start : Nat, head : HeadType, out : Seq(S)]

\* The cells of a block, its size, and its offset in the payload of its record.
Cells(rec, comp, b) == BlockOf(rec, b, comp = "Plain")
Size(rec, comp, b) == Len(Cells(rec, comp, b))

Off(rec, comp) ==
  LET z(b) == Size(rec, comp, b)
  IN [meta   |-> 0,
      req_h  |-> z("meta"),
      req_b  |-> z("meta") + z("req_h"),
      res_h  |-> z("meta") + z("req_h") + z("req_b"),
      res_b  |-> z("meta") + z("req_h") + z("req_b") + z("res_h"),
      finish |-> z("meta") + z("req_h") + z("req_b") + z("res_h") + z("res_b")]

\* The blocks that are written when the writer is about to write b.
Done == [meta |-> {}, req_h |-> {"meta"}, req_b |-> {"meta", "req_h"},
         res_h |-> {"meta", "req_h", "req_b"},
         res_b |-> {"meta", "req_h", "req_b", "res_h"},
         finish |-> {"meta", "req_h", "req_b", "res_h", "res_b"}]

\* The payload of a record, block after block, from offset o of s on.
Payload(s, o, rec, comp, blocks) ==
  \A b \in blocks : HoldsAt(s, o + Off(rec, comp)[b], Cells(rec, comp, b))

\* Where the committed records end, and the offsets at which a read may begin.
End == IF wpc = "idle" THEN Len(file) ELSE cur.start
Places == {w.start : w \in written} \cup {End}

TypeInv ==
  /\ IsSeq(file)
  /\ wpc \in Blocks \cup {"idle", "finish", "head", "panic"}
  /\ \E S : cur \in WorkType(S)
  /\ IF wpc = "idle" THEN cur = NoWork
     ELSE cur.rec \in Records /\ cur.strategy \in Strategies
  /\ written \subseteq [rec : Records, strategy : Strategies, comp : DOMAIN ModeFlag, start : Nat]
  /\ tune \in Tunes

\* The record at hand: a reserved head, then what is written of the payload, which
\* the encoder keeps to itself until it is finished.
WorkInv ==
  LET stage == IF wpc = "head" THEN "finish" ELSE wpc
      off == Off(cur.rec, cur.comp)
  IN /\ wpc # "idle" =>
          cur.start + 1 <= Len(file) /\ file[cur.start + 1] = HeadCell(V2_RESERVE_HEAD)
     /\ wpc \in Blocks \cup {"finish", "head"} =>
          /\ Len(cur.out) = off[stage]
          /\ cur.head.len = off[stage] /\ cur.head.type = TypeFlag.Dialog
          /\ Payload(cur.out, 0, cur.rec, cur.comp, Done[stage])
          /\ \A b \in Done[stage] : b # "res_b" => cur.head[b] = Size(cur.rec, cur.comp, b)
          /\ cur.comp = "Plain" =>
               Len(file) = cur.start + 1 + Len(cur.out) /\ HoldsAt(file, cur.start + 1, cur.out)
          /\ cur.comp # "Plain" =>
               IF wpc = "head" THEN Len(file) > cur.start + 1 /\ file[cur.start + 2].data = cur.out
                               ELSE Len(file) = cur.start + 1

\* A record that was written: its head tells the type, the compression and the sizes
\* of its blocks, its payload follows, in the file or in the encoder's output, and
\* after that another record or the end of the file.
RecordAt(w) ==
  LET h == file[w.start + 1].head
      z == file[w.start + 2].data
      off == Off(w.rec, w.comp)
  IN /\ file[w.start + 1].b = "head"
     /\ h.type = TypeFlag.Dialog /\ h.comp = ModeFlag[w.comp]
     /\ \A b \in Blocks : b # "res_b" => h[b] = Size(w.rec, w.comp, b)
     /\ h.len \in Nat /\ w.start + 1 + h.len <= End
     /\ w.start + 1 + h.len \in Places
     /\ w.comp = "Plain" =>
          h.len = off.finish /\ Payload(file, w.start + 1, w.rec, w.comp, Blocks)
     /\ w.comp # "Plain" =>
          /\ h.len > 0
          /\ IsSeq(z) /\ Len(z) = off.finish /\ Payload(z, 0, w.rec, w.comp, Blocks)

WrittenInv == \A w \in written : RecordAt(w)

FInv == TypeInv /\ WorkInv /\ WrittenInv /\ PanicsOnlyOverLimit

-----------------------------------------------------------------------------
(* Blocks and sizes *)

LEMMA BlockNames ==
  /\ Blocks = {"meta", "req_h", "req_b", "res_h", "res_b"}
  /\ DOMAIN ModeFlag = {"Plain", "Gzip", "Brotli"}
  /\ Done.finish = Blocks
  /\ \A b \in Blocks : /\ NextBlock[b] \in Blocks \cup {"finish"}
                       /\ Done[NextBlock[b]] = Done[b] \cup {b}
                       /\ Done[b] \subseteq Blocks /\ b \notin Done[b]
BY DEF Blocks, NextBlock, Done, ModeFlag

LEMMA BlockSeq ==
  ASSUME NEW rec \in RecType, NEW comp, NEW b \in Blocks
  PROVE  /\ IsSeq(Cells(rec, comp, b)) /\ Size(rec, comp, b) \in Nat
         /\ Len(rec[b]) \in Nat
         /\ b \in {"req_b", "res_b"} =>
              /\ IsSeq(rec[b])
              /\ comp # "Plain" => Size(rec, comp, b) = Len(rec[b])
              /\ Len(rec[b]) <= Size(rec, comp, b) /\ Size(rec, comp, b) <= Len(rec[b]) + 2
<1> DEFINE with_crlf == comp = "Plain"
<1>1. with_crlf \in BOOLEAN
  OBVIOUS
<1> HIDE DEF with_crlf
<1>2. CASE b \in {"meta", "req_h", "res_h"}
  <2>1. rec[b] \in HeaderMap
    BY <1>2 DEF RecType
  <2>2. Cells(rec, comp, b) = Padded(Lines(rec[b]), with_crlf)
    BY <1>2 DEF Cells, BlockOf, HeaderBlocks, write_headers, with_crlf
  <2>3. IsSeq(Lines(rec[b])) /\ Len(rec[b]) \in Nat
    BY <2>1, LinesOf
  <2>4. IsSeq(Padded(Lines(rec[b]), with_crlf)) /\ Len(Padded(Lines(rec[b]), with_crlf)) \in Nat
    BY <1>1, <2>3, PaddedSeq
  <2> QED  BY <1>2, <2>2, <2>3, <2>4 DEF Size
<1>3. CASE b \in {"req_b", "res_b"}
  <2>1. rec[b] \in Body
    BY <1>3 DEF RecType
  <2>2. IsSeq(rec[b])
    BY <2>1 DEF Body, IsSeq
  <2>3. Cells(rec, comp, b) = Padded(rec[b], with_crlf)
    BY <1>3 DEF Cells, BlockOf, HeaderBlocks, write_body, with_crlf
  <2>4. /\ IsSeq(Padded(rec[b], with_crlf))
        /\ Len(rec[b]) \in Nat /\ Len(Padded(rec[b], with_crlf)) \in Nat
        /\ Len(Padded(rec[b], with_crlf)) =
             IF with_crlf /\ rec[b] # << >> THEN Len(rec[b]) + 2 ELSE Len(rec[b])
    BY <1>1, <2>2, PaddedSeq
  <2>5. comp # "Plain" => Size(rec, comp, b) = Len(rec[b])
    BY <2>3, <2>4, Zenon DEF Size, with_crlf
  <2>6. Len(rec[b]) <= Size(rec, comp, b) /\ Size(rec, comp, b) <= Len(rec[b]) + 2
    BY <2>3, <2>4 DEF Size
  <2>7. IsSeq(Cells(rec, comp, b)) /\ Size(rec, comp, b) \in Nat
    BY <2>3, <2>4 DEF Size
  <2> QED  BY <2>2, <2>4, <2>5, <2>6, <2>7
<1> QED  BY <1>2, <1>3, BlockNames

LEMMA Offsets ==
  ASSUME NEW rec \in RecType, NEW comp
  PROVE  /\ \A b \in Blocks \cup {"finish"} : Off(rec, comp)[b] \in Nat
         /\ Off(rec, comp).meta = 0
         /\ \A b \in Blocks :
              /\ Off(rec, comp)[NextBlock[b]] = Off(rec, comp)[b] + Size(rec, comp, b)
              /\ Off(rec, comp)[b] + Size(rec, comp, b) <= Off(rec, comp).finish
<1>1. \A b \in {"meta", "req_h", "req_b", "res_h", "res_b"} : Size(rec, comp, b) \in Nat
  BY BlockSeq, BlockNames
<1> QED  BY <1>1, BlockNames DEF Off, NextBlock

-----------------------------------------------------------------------------
(* The writer's steps *)

LEMMA Work ==
  ASSUME TypeInv
  PROVE  /\ Len(file) \in Nat
         /\ cur.rec \in RecType /\ cur.comp \in DOMAIN ModeFlag
         /\ cur.start \in Nat /\ cur.head \in HeadType
         /\ IsSeq(cur.out) /\ Len(cur.out) \in Nat
         /\ Records \subseteq RecType /\ Strategies \subseteq StrategyType
<1>1. PICK S : cur \in WorkType(S)
  BY DEF TypeInv
<1>2. cur.out \in Seq(S)
  BY <1>1 DEF WorkType
<1>3. IsSeq(cur.out)
  BY <1>2 DEF IsSeq
<1>4. Len(cur.out) \in Nat /\ Len(file) \in Nat
  BY <1>3, Joined DEF TypeInv
<1>5. Records \subseteq RecType /\ Strategies \subseteq StrategyType
  BY RecordsAssumption, RecordAssumption DEF RecType, StrategyType
<1> QED  BY <1>1, <1>3, <1>4, <1>5 DEF WorkType

LEMMA Ends ==
  ASSUME TypeInv, WorkInv
  PROVE  End \in Nat /\ End <= Len(file) /\ End \in Places
<1>1. cur.start \in Nat /\ Len(file) \in Nat
  BY Work
<1>2. wpc # "idle" => cur.start + 1 <= Len(file)
  BY DEF WorkInv
<1> QED  BY <1>1, <1>2 DEF End, Places

\* A record that was written stays what it is as long as the committed part of the
\* file does.
LEMMA RecordKept ==
  ASSUME NEW w, w.rec \in RecType, w.start \in Nat, RecordAt(w),
         Len(file) \in Nat, Len(file') \in Nat, Len(file) <= Len(file'),
         End \in Nat, End' \in Nat, End <= End', End <= Len(file),
         \A i \in 1 .. End : file'[i] = file[i],
         Places \subseteq Places'
  PROVE  RecordAt(w)'
<1> DEFINE h == file[w.start + 1].head
           off == Off(w.rec, w.comp)
<1>1. h.len \in Nat /\ w.start + 1 + h.len <= End
  BY DEF RecordAt
<1>2. file'[w.start + 1] = file[w.start + 1]
  BY <1>1
<1>3. w.start + 1 + h.len <= End' /\ w.start + 1 + h.len \in Places'
  BY <1>1 DEF RecordAt
<1>4. CASE w.comp = "Plain"
  <2>1. h.len = off.finish /\ Payload(file, w.start + 1, w.rec, w.comp, Blocks)
    BY <1>4 DEF RecordAt
  <2>2. ASSUME NEW b \in Blocks
        PROVE  HoldsAt(file', w.start + 1 + off[b], Cells(w.rec, w.comp, b))
    <3>1. /\ off[b] \in Nat /\ Size(w.rec, w.comp, b) \in Nat
          /\ off[b] + Size(w.rec, w.comp, b) <= off.finish
      BY Offsets, BlockSeq
    <3>2. PICK o \in Nat : o = w.start + 1 + off[b]
      BY <3>1
    <3>3. HoldsAt(file, o, Cells(w.rec, w.comp, b))
      BY <2>1, <3>2 DEF Payload
    <3>4. o + Len(Cells(w.rec, w.comp, b)) <= End
      <4>1. PICK s \in Nat, n \in Nat : s = w.start /\ n = h.len /\ s + 1 + n <= End
        BY <1>1
      <4>2. n = off.finish
        BY <2>1, <4>1
      <4>3. PICK k \in Nat, z \in Nat : k = off[b] /\ z = Size(w.rec, w.comp, b) /\ k + z <= n
        BY <3>1, <4>2
      <4>4. o = s + 1 + k
        BY <3>2, <4>1, <4>3
      <4>5. o + z <= End
        BY ONLY End \in Nat, <4>1, <4>3, <4>4
      <4> QED  BY <4>3, <4>5 DEF Size
    <3>5. Len(Cells(w.rec, w.comp, b)) \in Nat
      BY <3>1 DEF Size
    <3>6. \A i \in 1 .. Len(file) :
            o < i /\ i <= o + Len(Cells(w.rec, w.comp, b)) => file'[i] = file[i]
      BY <3>4, <3>5
    <3>7. HoldsAt(file', o, Cells(w.rec, w.comp, b))
      BY <3>3, <3>5, <3>6, HoldsMore
    <3> QED  BY <3>2, <3>7
  <2>3. Payload(file', w.start + 1, w.rec, w.comp, Blocks)
    BY <2>2 DEF Payload
  <2> QED  BY <1>1, <1>2, <1>3, <1>4, <2>1, <2>3 DEF RecordAt, Payload, Cells, Size, Off
<1>5. CASE w.comp # "Plain"
  <2>1. w.start + 2 \in 1 .. End
    <3>1. h.len > 0
      BY <1>5 DEF RecordAt
    <3>2. PICK s \in Nat, n \in Nat : s = w.start /\ n = h.len /\ s + 1 + n <= End
      BY <1>1
    <3>3. n > 0
      BY <3>1, <3>2
    <3>4. s + 2 \in 1 .. End
      BY ONLY End \in Nat, <3>2, <3>3
    <3> QED  BY <3>2, <3>4
  <2>2. file'[w.start + 2] = file[w.start + 2]
    BY <2>1
  <2> QED  BY <1>1, <1>2, <1>3, <1>5, <2>2 DEF RecordAt, Payload, Cells, Size, Off
<1> QED  BY <1>4, <1>5

LEMMA AllRecordsKept ==
  ASSUME TypeInv, WorkInv, WrittenInv, written' = written,
         Len(file') \in Nat, Len(file) <= Len(file'),
         End' \in Nat, End <= End',
         \A i \in 1 .. End : file'[i] = file[i],
         End \in Places'
  PROVE  WrittenInv'
<1>1. End \in Nat /\ End <= Len(file) /\ Len(file) \in Nat
  BY Ends, Work
<1>2. Places \subseteq Places'
  BY DEF Places
<1> SUFFICES ASSUME NEW w \in written PROVE RecordAt(w)'
  BY DEF WrittenInv
<1>3. w.rec \in RecType /\ w.start \in Nat /\ RecordAt(w)
  BY Work DEF TypeInv, WrittenInv
<1> QED  BY <1>1, <1>2, <1>3, RecordKept

\* A step that leaves the file alone leaves the records in it alone.
LEMMA RecordsStay ==
  ASSUME TypeInv, WorkInv, WrittenInv, written' = written, file' = file, End' = End
  PROVE  WrittenInv'
<1>1. End \in Nat /\ Len(file) \in Nat
  BY Ends, Work
<1>2. End \in Places'
  BY DEF Places
<1>3. /\ Len(file') \in Nat /\ Len(file) <= Len(file') /\ End' \in Nat /\ End <= End'
      /\ \A i \in 1 .. End : file'[i] = file[i]
  BY <1>1
<1> QED  BY <1>2, <1>3, AllRecordsKept

LEMMA NoWorkType ==
  /\ NoRecord \in RecType
  /\ NoHead \in HeadType
  /\ NoWork \in WorkType({})
<1>1. NoRecord \in RecType
  <2>1. << >> \in HeaderMap /\ << >> \in Body
    BY DEF HeaderMap, Body
  <2> QED  BY <2>1 DEF NoRecord, RecType
<1>2. NoHead \in HeadType
  BY DEF NoHead, HeadType
<1>3. [mode |-> "Plain", min_len |-> 0, coef2 |-> 0, check_identity |-> FALSE] \in StrategyType
  BY BlockNames DEF StrategyType
<1>4. << >> \in Seq({})
  OBVIOUS
<1> QED  BY <1>1, <1>2, <1>3, <1>4, BlockNames DEF NoWork, WorkType

LEMMA StartWriteStep ==
  ASSUME FInv, NEW rec \in Records, NEW strategy \in Strategies, StartWrite(rec, strategy)
  PROVE  FInv' /\ End' = End
<1> DEFINE s == Len(file)
           c == HeadCell(V2_RESERVE_HEAD)
           comp == wrap_encoder(rec, strategy)
<1>1. wpc = "idle" /\ s \in Nat /\ IsSeq(file) /\ End = s
  BY Work DEF FInv, TypeInv, StartWrite, End
<1>2. file' = Append(file, c) /\ wpc' = "meta" /\ written' = written /\ tune' = tune
  BY DEF StartWrite, readerVars
<1>3. /\ IsSeq(file') /\ Len(file') = s + 1
      /\ \A i \in 1 .. s : file'[i] = file[i]
      /\ file'[s + 1] = c
  BY <1>1, <1>2, Appended
<1>4. rec \in RecType /\ strategy \in StrategyType
  BY Work DEF FInv
<1>5. comp \in DOMAIN ModeFlag
  BY <1>4, BlockNames DEF wrap_encoder, StrategyType
<1> DEFINE h == [NoHead EXCEPT !.type = TypeFlag.Dialog]
<1>6. h \in HeadType /\ h.len = 0 /\ h.type = TypeFlag.Dialog
  BY DEF NoHead, HeadType, TypeFlag
<1> HIDE DEF comp, c, h
<1>7. /\ cur' \in WorkType({})
      /\ cur'.rec = rec /\ cur'.strategy = strategy /\ cur'.comp = comp /\ cur'.start = s
      /\ cur'.head = h /\ cur'.out = << >>
  <2>1. cur' = [NoWork EXCEPT !.rec = rec, !.strategy = strategy, !.start = s,
                  !.comp = comp, !.head = h]
    BY DEF StartWrite, comp, h
  <2>2. cur' = [rec |-> rec, strategy |-> strategy, comp |-> comp, start |-> s,
                head |-> h, out |-> << >>]
    BY <2>1 DEF NoWork
  <2>3. << >> \in Seq({})
    OBVIOUS
  <2> QED  BY <1>1, <1>4, <1>5, <1>6, <2>2, <2>3 DEF WorkType
<1>8. TypeInv'
  BY <1>2, <1>3, <1>7, BlockNames DEF FInv, TypeInv
<1>9. WorkInv'
  <2>1. Off(rec, comp).meta = 0
    BY <1>4, Offsets
  <2>2. Payload(<< >>, 0, rec, comp, Done["meta"])
    BY DEF Payload, Done
  <2>3. Len(<< >>) = 0 /\ HoldsAt(file', s + 1, << >>)
    BY <1>1, <1>3 DEF HoldsAt
  <2>4. \A b \in Done["meta"] : FALSE
    BY DEF Done
  <2> QED
    BY <1>1, <1>2, <1>3, <1>6, <1>7, <2>1, <2>2, <2>3, <2>4, BlockNames
       DEF WorkInv, Payload, Cells, Size, Off, c
<1>10. End' = s
  BY <1>2, <1>7 DEF End
<1>11. WrittenInv'
  <2>1. End \in Places'
    BY <1>1, <1>10 DEF Places
  <2> QED  BY <1>1, <1>2, <1>3, <1>10, <2>1, AllRecordsKept DEF FInv
<1>12. PanicsOnlyOverLimit'
  BY <1>2 DEF PanicsOnlyOverLimit
<1> QED  BY <1>1, <1>8, <1>9, <1>10, <1>11, <1>12 DEF FInv

\* Adding a block to a sequence, and to one that ends with it.
LEMMA Extended ==
  ASSUME NEW s, NEW block, IsSeq(s), IsSeq(block)
  PROVE  /\ IsSeq(s \o block)
         /\ Len(s) \in Nat /\ Len(block) \in Nat
         /\ Len(s \o block) = Len(s) + Len(block)
         /\ \A i \in 1 .. Len(s) : (s \o block)[i] = s[i]
         /\ \A i \in 1 .. Len(block) : (s \o block)[Len(s) + i] = block[i]
         /\ HoldsAt(s \o block, Len(s), block)
         /\ \A o \in Nat : \A c : Len(c) \in Nat /\ HoldsAt(s, o, c) => HoldsAt(s \o block, o, c)
<1> DEFINE t == s \o block
<1>1. /\ IsSeq(t) /\ Len(s) \in Nat /\ Len(block) \in Nat
      /\ Len(t) = Len(s) + Len(block)
      /\ \A i \in 1 .. Len(s) : t[i] = s[i]
      /\ \A i \in 1 .. Len(block) : t[Len(s) + i] = block[i]
  <2>1. IsSeq(t) /\ Len(s) \in Nat /\ Len(block) \in Nat
    BY Joined, Zenon
  <2>2. Len(t) = Len(s) + Len(block)
    BY Joined, Zenon
  <2>3. \A i \in 1 .. Len(s) : t[i] = s[i]
    BY Joined, Zenon
  <2>4. ASSUME NEW i \in 1 .. Len(block)
        PROVE  t[Len(s) + i] = block[i]
    <3>1. PICK S : s \in Seq(S)
      BY DEF IsSeq
    <3>2. PICK T : block \in Seq(T)
      BY DEF IsSeq
    <3>3. s \in Seq(S \cup T) /\ block \in Seq(S \cup T)
      BY <3>1, <3>2, SeqMono
    <3> QED  BY <3>3
  <2> QED  BY <2>1, <2>2, <2>3, <2>4
<1> HIDE DEF t
<1>2. HoldsAt(t, Len(s), block)
  BY <1>1 DEF HoldsAt
<1>3. ASSUME NEW o \in Nat, NEW c, Len(c) \in Nat, HoldsAt(s, o, c)
      PROVE  HoldsAt(t, o, c)
  <2>1. Len(t) \in Nat /\ Len(s) <= Len(t)
    BY <1>1
  <2>2. \A i \in 1 .. Len(s) : o < i /\ i <= o + Len(c) => t[i] = s[i]
    BY <1>1
  <2> QED  BY <1>1, <1>3, <2>1, <2>2, HoldsMore
<1> QED  BY <1>1, <1>2, <1>3, Zenon DEF t

LEMMA ExtendedEnd ==
  ASSUME NEW f, NEW s, NEW block, IsSeq(f), IsSeq(s), IsSeq(block),
         NEW p \in Nat, Len(f) = p + Len(s), HoldsAt(f, p, s)
  PROVE  HoldsAt(f \o block, p, s \o block)
<1> DEFINE g == f \o block
           t == s \o block
<1>1. /\ Len(f) \in Nat /\ Len(block) \in Nat
      /\ Len(g) = Len(f) + Len(block)
      /\ \A i \in 1 .. Len(f) : g[i] = f[i]
      /\ \A i \in 1 .. Len(block) : g[Len(f) + i] = block[i]
  BY Extended
<1>2. /\ Len(s) \in Nat
      /\ Len(t) = Len(s) + Len(block)
      /\ \A i \in 1 .. Len(s) : t[i] = s[i]
      /\ \A i \in 1 .. Len(block) : t[Len(s) + i] = block[i]
  BY Extended
<1> HIDE DEF g, t
<1>3. ASSUME NEW i \in 1 .. Len(t)
      PROVE  g[p + i] = t[i]
  <2>1. CASE i \in 1 .. Len(s)
    <3>1. f[p + i] = s[i]
      BY <2>1 DEF HoldsAt
    <3>2. p + i \in 1 .. Len(f)
      BY <1>1, <1>2, <2>1
    <3> QED  BY <1>1, <1>2, <2>1, <3>1, <3>2
  <2>2. CASE i \notin 1 .. Len(s)
    <3>1. PICK j \in 1 .. Len(block) : i = Len(s) + j
      <4>1. i - Len(s) \in 1 .. Len(block) /\ i = Len(s) + (i - Len(s))
        BY <1>1, <1>2, <2>2
      <4> QED  BY <4>1
    <3>2. p + i = Len(f) + j
      BY <1>1, <1>2, <3>1
    <3>3. g[Len(f) + j] = block[j] /\ t[Len(s) + j] = block[j]
      BY <1>1, <1>2
    <3> QED  BY <3>1, <3>2, <3>3
  <2> QED  BY <2>1, <2>2
<1>4. p + Len(t) <= Len(g)
  BY <1>1, <1>2
<1>5. HoldsAt(g, p, t)
  BY <1>3, <1>4 DEF HoldsAt
<1> QED  BY <1>5 DEF g, t

\* What writing a block makes of the record at hand, when no assertion fails
\* before it.
LEMMA WorkOn ==
  ASSUME TypeInv, NEW b \in Blocks, WriteBlock(b), ~ RecordTooLong(b)
  PROVE  /\ \E S : cur' \in WorkType(S)
         /\ cur'.rec = cur.rec /\ cur'.strategy = cur.strategy
         /\ cur'.comp = cur.comp /\ cur'.start = cur.start
         /\ cur'.out = cur.out \o Cells(cur.rec, cur.comp, b)
         /\ cur'.head.len = cur.head.len + Size(cur.rec, cur.comp, b)
         /\ cur'.head.type = cur.head.type
         /\ b # "res_b" => cur'.head[b] = Size(cur.rec, cur.comp, b)
         /\ \A c \in Blocks : c # b /\ c # "res_b" => cur'.head[c] = cur.head[c]
<1> DEFINE bytes == Cells(cur.rec, cur.comp, b)
           n == Size(cur.rec, cur.comp, b)
<1>1. PICK S : cur \in WorkType(S)
  BY DEF TypeInv
<1>2. /\ cur.rec \in RecType /\ cur.head \in HeadType /\ IsSeq(cur.out)
      /\ IsSeq(bytes) /\ n \in Nat
  BY Work, BlockSeq
<1>3. Count(b) = n /\ BlockOf(cur.rec, b, cur.comp = "Plain") = bytes
  BY DEF Count, Size, Cells
<1> HIDE DEF bytes, n
<1>4. PICK k : k = [cur.head EXCEPT !.len = cur.head.len + n]
  OBVIOUS
<1>5. PICK h : h = IF b = "res_b" THEN k ELSE [k EXCEPT ![b] = n]
  OBVIOUS
<1>6. cur' = [cur EXCEPT !.out = cur.out \o bytes, !.head = h]
  BY <1>3, <1>4, <1>5 DEF WriteBlock
<1>7. /\ k \in HeadType
      /\ k.len = cur.head.len + n /\ k.type = cur.head.type
      /\ \A c \in {"meta", "req_h", "req_b", "res_h"} : k[c] = cur.head[c]
  BY <1>2, <1>4 DEF HeadType
<1>8. /\ h \in HeadType /\ h.len = k.len /\ h.type = k.type
      /\ b # "res_b" => h[b] = n
      /\ \A c \in {"meta", "req_h", "req_b", "res_h"} : c # b => h[c] = k[c]
  <2>1. CASE b = "res_b"
    BY <1>5, <1>7, <2>1
  <2>2. CASE b # "res_b"
    <3>1. b \in {"meta", "req_h", "req_b", "res_h"} /\ h = [k EXCEPT ![b] = n]
      BY <1>5, <2>2, BlockNames
    <3>2. k \in HeadType /\ n \in Nat
      BY <1>2, <1>7
    <3>3. CASE b = "meta"
      BY <3>1, <3>2, <3>3 DEF HeadType
    <3>4. CASE b = "req_h"
      BY <3>1, <3>2, <3>4 DEF HeadType
    <3>5. CASE b = "req_b"
      BY <3>1, <3>2, <3>5 DEF HeadType
    <3>6. CASE b = "res_h"
      BY <3>1, <3>2, <3>6 DEF HeadType
    <3> QED  BY <3>1, <3>3, <3>4, <3>5, <3>6
  <2> QED  BY <2>1, <2>2
<1>9. PICK T : cur.out \o bytes \in Seq(T)
  BY <1>2, Extended DEF IsSeq
<1>10. cur' = [rec |-> cur.rec, strategy |-> cur.strategy, comp |-> cur.comp,
               start |-> cur.start, head |-> h, out |-> cur.out \o bytes]
  BY <1>1, <1>6 DEF WorkType
<1>11. cur' \in WorkType(T)
  BY <1>1, <1>8, <1>9, <1>10 DEF WorkType
<1>12. /\ cur'.rec = cur.rec /\ cur'.strategy = cur.strategy
       /\ cur'.comp = cur.comp /\ cur'.start = cur.start
       /\ cur'.out = cur.out \o bytes /\ cur'.head = h
  BY <1>10
<1>13. \A c \in Blocks : c # b /\ c # "res_b" => cur'.head[c] = cur.head[c]
  BY <1>7, <1>8, <1>12, BlockNames
<1> QED  BY <1>7, <1>8, <1>11, <1>12, <1>13 DEF bytes, n

\* The assertion before the response body counts what was written before it.
LEMMA TooLongToWrite ==
  ASSUME TypeInv, WorkInv, wpc \in Blocks, RecordTooLong(wpc)
  PROVE  LET z(b) == Size(cur.rec, cur.comp, b)
         IN z("meta") + z("req_h") + z("req_b") + z("res_h") + Len(cur.rec.res_b) + 2 > MaxRecord
<1>1. wpc = "res_b" /\ cur.head.len + Len(cur.rec.res_b) + 2 > MaxRecord
  BY DEF RecordTooLong
<1>2. cur.head.len = Off(cur.rec, cur.comp)["res_b"]
  BY <1>1, BlockNames DEF WorkInv
<1> QED  BY <1>1, <1>2 DEF Off

LEMMA WriteBlockStep ==
  ASSUME FInv, NEW b \in Blocks, WriteBlock(b)
  PROVE  FInv' /\ End' = End
<1> DEFINE bytes == Cells(cur.rec, cur.comp, b)
           n == Size(cur.rec, cur.comp, b)
           off == Off(cur.rec, cur.comp)
<1>1. /\ wpc = b /\ written' = written /\ tune' = tune
      /\ TypeInv /\ WorkInv
  BY DEF WriteBlock, readerVars, FInv
<1>2. /\ cur.rec \in RecType /\ cur.start \in Nat /\ Len(file) \in Nat /\ IsSeq(file)
      /\ IsSeq(cur.out) /\ Len(cur.out) \in Nat
      /\ IsSeq(bytes) /\ n \in Nat /\ n = Len(bytes)
  BY <1>1, Work, BlockSeq DEF TypeInv, Size
<1>3. /\ cur.start + 1 <= Len(file) /\ file[cur.start + 1] = HeadCell(V2_RESERVE_HEAD)
      /\ b # "idle" /\ b # "head" /\ b # "panic" /\ b # "finish"
  BY <1>1, BlockNames DEF WorkInv
<1>4. CASE RecordTooLong(b)
  <2>1. wpc' = "panic" /\ file' = file /\ cur' = cur
    BY <1>4 DEF WriteBlock
  <2>2. TypeInv'
    BY <1>1, <1>3, <2>1 DEF TypeInv
  <2>3. WorkInv'
    BY <1>3, <2>1, BlockNames DEF WorkInv
  <2>4. End' = End
    BY <1>1, <1>3, <2>1 DEF End
  <2>5. WrittenInv'
    BY <1>1, <2>1, <2>4, RecordsStay DEF FInv
  <2>6. PanicsOnlyOverLimit'
    BY <1>1, <1>4, <2>1, TooLongToWrite DEF PanicsOnlyOverLimit, Size, Cells
  <2> QED  BY <2>2, <2>3, <2>4, <2>5, <2>6 DEF FInv
<1>5. CASE ~ RecordTooLong(b)
  <2>1. /\ \E S : cur' \in WorkType(S)
        /\ cur'.rec = cur.rec /\ cur'.strategy = cur.strategy
        /\ cur'.comp = cur.comp /\ cur'.start = cur.start
        /\ cur'.out = cur.out \o bytes
        /\ cur'.head.len = cur.head.len + n /\ cur'.head.type = cur.head.type
        /\ b # "res_b" => cur'.head[b] = n
        /\ \A c \in Blocks : c # b /\ c # "res_b" => cur'.head[c] = cur.head[c]
    BY <1>1, <1>5, WorkOn
  <2>2. /\ wpc' = IF BlockTooLong(b) THEN "panic" ELSE NextBlock[b]
        /\ file' = IF cur.comp = "Plain" THEN file \o bytes ELSE file
    BY <1>5 DEF WriteBlock, Cells
  <2>3. wpc' \in Blocks \cup {"finish", "panic"} /\ wpc' # "idle" /\ wpc' # "head"
    BY <2>2, BlockNames
  <2> HIDE DEF bytes, n, off
  <2>4. /\ IsSeq(file') /\ Len(file') \in Nat /\ Len(file) <= Len(file')
        /\ \A i \in 1 .. Len(file) : file'[i] = file[i]
    <3>1. /\ IsSeq(file \o bytes)
          /\ Len(file \o bytes) = Len(file) + Len(bytes)
          /\ \A i \in 1 .. Len(file) : (file \o bytes)[i] = file[i]
      BY <1>2, Extended
    <3>2. CASE cur.comp = "Plain"
      <4>1. file' = file \o bytes
        BY <2>2, <3>2
      <4> HIDE DEF bytes
      <4>2. /\ IsSeq(file') /\ Len(file') = Len(file) + Len(bytes)
            /\ \A i \in 1 .. Len(file) : file'[i] = file[i]
        BY <3>1, <4>1, Zenon
      <4> QED  BY <1>2, <4>2
    <3>3. CASE cur.comp # "Plain"
      BY <1>2, <2>2, <3>3
    <3> QED  BY <3>2, <3>3
  <2>5. TypeInv'
    <3>1. cur'.rec \in Records /\ cur'.strategy \in Strategies
      BY <1>1, <1>3, <2>1 DEF TypeInv
    <3>2. wpc' \in Blocks \cup {"idle", "finish", "head", "panic"}
      BY <2>3
    <3> QED  BY <1>1, <2>1, <2>3, <2>4, <3>1, <3>2 DEF TypeInv
  <2>6. End' = End
    BY <1>1, <1>3, <2>1, <2>3 DEF End
  <2>7. WrittenInv'
    <3>1. End \in Nat /\ End <= Len(file)
      BY <1>1, Ends
    <3>2. \A i \in 1 .. End : file'[i] = file[i]
      BY <1>2, <2>4, <3>1
    <3>3. End \in Places'
      BY <2>6 DEF Places
    <3> QED  BY <1>1, <2>4, <2>6, <3>1, <3>2, <3>3, AllRecordsKept DEF FInv
  <2>8. cur'.start + 1 <= Len(file') /\ file'[cur'.start + 1] = HeadCell(V2_RESERVE_HEAD)
    <3>1. cur.start + 1 \in 1 .. Len(file)
      BY <1>2, <1>3
    <3> QED  BY <1>2, <1>3, <2>1, <2>4, <3>1
  <2>9. CASE BlockTooLong(b)
    <3>1. wpc' = "panic"
      BY <2>2, <2>9
    <3>2. WorkInv'
      BY <2>8, <3>1, BlockNames DEF WorkInv
    <3>3. b \in HeaderBlocks /\ n > MaxHBlock
      BY <2>9 DEF BlockTooLong, Count, n, Size, Cells
    <3>4. Len(BlockOf(cur'.rec, b, cur'.comp = "Plain")) > MaxHBlock
      BY <2>1, <3>3 DEF n, Size, Cells
    <3>5. PanicsOnlyOverLimit'
      BY <3>3, <3>4 DEF PanicsOnlyOverLimit
    <3> QED  BY <2>5, <2>6, <2>7, <3>2, <3>5 DEF FInv
  <2>10. CASE ~ BlockTooLong(b)
    <3>1. wpc' = NextBlock[b] /\ wpc' # "panic" /\ wpc' \in Blocks \cup {"finish"}
      BY <2>2, <2>10, BlockNames
    <3>2. /\ Len(cur.out) = off[b] /\ cur.head.len = off[b]
          /\ cur.head.type = TypeFlag.Dialog
          /\ Payload(cur.out, 0, cur.rec, cur.comp, Done[b])
          /\ \A c \in Done[b] : c # "res_b" => cur.head[c] = Size(cur.rec, cur.comp, c)
          /\ cur.comp = "Plain" =>
               Len(file) = cur.start + 1 + Len(cur.out) /\ HoldsAt(file, cur.start + 1, cur.out)
          /\ cur.comp # "Plain" => Len(file) = cur.start + 1
      BY <1>1, <1>3 DEF WorkInv, off
    <3>3. /\ off[b] \in Nat /\ off[NextBlock[b]] = off[b] + n
          /\ Done[NextBlock[b]] = Done[b] \cup {b} /\ Done[b] \subseteq Blocks /\ b \notin Done[b]
      BY <1>2, Offsets, BlockNames DEF off, n
    <3>4. /\ Len(cur'.out) = Len(cur.out) + n
          /\ HoldsAt(cur'.out, Len(cur.out), bytes)
          /\ \A o \in Nat : \A c : Len(c) \in Nat /\ HoldsAt(cur.out, o, c) => HoldsAt(cur'.out, o, c)
      <4>1. /\ Len(cur.out \o bytes) = Len(cur.out) + Len(bytes)
            /\ HoldsAt(cur.out \o bytes, Len(cur.out), bytes)
            /\ \A o \in Nat : \A c : Len(c) \in Nat /\ HoldsAt(cur.out, o, c)
                                       => HoldsAt(cur.out \o bytes, o, c)
        BY <1>2, Extended
      <4> QED  BY <1>2, <2>1, <4>1, Zenon
    <3>5. Payload(cur'.out, 0, cur.rec, cur.comp, Done[b] \cup {b})
      <4> SUFFICES ASSUME NEW c \in Done[b] \cup {b}
                   PROVE  HoldsAt(cur'.out, 0 + off[c], Cells(cur.rec, cur.comp, c))
        BY DEF Payload, off
      <4>1. CASE c = b
        <5>1. 0 + off[b] = Len(cur.out)
          BY <3>2, <3>3
        <5> QED  BY <3>4, <4>1, <5>1 DEF bytes
      <4>2. CASE c \in Done[b]
        <5>1. c \in Blocks
          BY <3>3, <4>2
        <5>2. off[c] \in Nat /\ Len(Cells(cur.rec, cur.comp, c)) \in Nat
          BY <1>2, <5>1, Offsets, BlockSeq DEF off, Size
        <5>3. PICK o \in Nat : o = 0 + off[c]
          BY <5>2
        <5>4. HoldsAt(cur.out, o, Cells(cur.rec, cur.comp, c))
          BY <3>2, <4>2, <5>3 DEF Payload, off
        <5> QED  BY <3>4, <5>2, <5>3, <5>4
      <4> QED  BY <4>1, <4>2
    <3>6. \A c \in Done[b] \cup {b} : c # "res_b" => cur'.head[c] = Size(cur.rec, cur.comp, c)
      BY <2>1, <3>2, <3>3 DEF n
    <3>7. cur.comp = "Plain" =>
            /\ Len(file') = cur.start + 1 + Len(cur'.out)
            /\ HoldsAt(file', cur.start + 1, cur'.out)
      <4> SUFFICES ASSUME cur.comp = "Plain"
                   PROVE  /\ Len(file') = cur.start + 1 + Len(cur'.out)
                          /\ HoldsAt(file', cur.start + 1, cur'.out)
        OBVIOUS
      <4>1. file' = file \o bytes
        BY <2>2
      <4>2. Len(file \o bytes) = Len(file) + Len(bytes)
        BY <1>2, Extended
      <4>3. Len(file') = Len(file) + n
        BY <1>2, <4>1, <4>2, Zenon
      <4>4. Len(file) = cur.start + 1 + Len(cur.out) /\ HoldsAt(file, cur.start + 1, cur.out)
        BY <3>2
      <4>5. PICK p \in Nat : p = cur.start + 1
        BY <1>2
      <4>6. HoldsAt(file \o bytes, p, cur.out \o bytes)
        BY <1>2, <4>4, <4>5, ExtendedEnd
      <4>7. HoldsAt(file', p, cur'.out)
        BY <2>1, <4>1, <4>6, Zenon
      <4>8. Len(file') = p + Len(cur'.out)
        <5>1. Len(cur'.out) = Len(cur.out) + n
          BY <3>4
        <5>2. Len(file) = p + Len(cur.out)
          BY <4>4, <4>5
        <5> QED  BY <1>2, <4>3, <5>1, <5>2
      <4> QED  BY <4>5, <4>7, <4>8
    <3>8. cur.comp # "Plain" => Len(file') = cur.start + 1
      BY <2>2, <3>2
    <3>9. WorkInv'
      <4> DEFINE stage == NextBlock[b]
      <4>1. /\ Len(cur'.out) = off[stage] /\ cur'.head.len = off[stage]
            /\ cur'.head.type = TypeFlag.Dialog
            /\ Payload(cur'.out, 0, cur.rec, cur.comp, Done[stage])
            /\ \A c \in Done[stage] : c # "res_b" => cur'.head[c] = Size(cur.rec, cur.comp, c)
        BY <2>1, <3>2, <3>3, <3>4, <3>5, <3>6
      <4>2. wpc' = stage /\ wpc' # "head"
        BY <2>3, <3>1
      <4> HIDE DEF stage
      <4> QED
        BY <2>1, <2>3, <2>8, <3>7, <3>8, <4>1, <4>2
           DEF WorkInv, Payload, Cells, Size, Off, off
    <3>10. PanicsOnlyOverLimit'
      BY <3>1 DEF PanicsOnlyOverLimit
    <3> QED  BY <2>5, <2>6, <2>7, <3>9, <3>10 DEF FInv
  <2> QED  BY <2>9, <2>10
<1> QED  BY <1>4, <1>5

LEMMA FinishStep ==
  ASSUME FInv, Finish
  PROVE  FInv' /\ End' = End
<1> DEFINE off == Off(cur.rec, cur.comp)
<1>1. /\ wpc = "finish" /\ wpc' = "head" /\ cur' = cur /\ written' = written /\ tune' = tune
      /\ TypeInv /\ WorkInv
  BY DEF Finish, readerVars, FInv
<1>2. cur.start \in Nat /\ Len(file) \in Nat /\ IsSeq(file) /\ IsSeq(cur.out)
  BY <1>1, Work DEF TypeInv
<1>3. /\ cur.start + 1 <= Len(file) /\ file[cur.start + 1] = HeadCell(V2_RESERVE_HEAD)
      /\ Len(cur.out) = off["finish"] /\ cur.head.len = off["finish"]
      /\ cur.head.type = TypeFlag.Dialog
      /\ Payload(cur.out, 0, cur.rec, cur.comp, Done["finish"])
      /\ \A c \in Done["finish"] : c # "res_b" => cur.head[c] = Size(cur.rec, cur.comp, c)
      /\ cur.comp = "Plain" =>
           Len(file) = cur.start + 1 + Len(cur.out) /\ HoldsAt(file, cur.start + 1, cur.out)
      /\ cur.comp # "Plain" => Len(file) = cur.start + 1
  BY <1>1 DEF WorkInv
<1>4. /\ IsSeq(file') /\ Len(file') \in Nat /\ Len(file) <= Len(file')
      /\ \A i \in 1 .. Len(file) : file'[i] = file[i]
      /\ cur.comp = "Plain" => file' = file
      /\ cur.comp # "Plain" => Len(file') > Len(file) /\ file'[Len(file) + 1].data = cur.out
  <2>1. CASE cur.comp = "Plain"
    BY <1>2, <2>1 DEF Finish
  <2>2. CASE cur.comp # "Plain"
    <3>1. PICK n \in 1 .. MaxZ :
            file' = file \o [i \in 1 .. n |-> ZCell(IF i = 1 THEN cur.out ELSE << >>)]
      BY <2>2 DEF Finish
    <3>2. n \in Nat /\ n >= 1
      BY RecordAssumption
    <3> DEFINE z == [i \in 1 .. n |-> ZCell(IF i = 1 THEN cur.out ELSE << >>)]
    <3>3. z = [i \in 1 .. n |-> z[i]] /\ z[1].data = cur.out
      BY <3>2 DEF ZCell
    <3> HIDE DEF z
    <3>4. IsSeq(z) /\ Len(z) = n
      BY <3>2, <3>3, Listed
    <3>5. /\ IsSeq(file \o z) /\ Len(file \o z) = Len(file) + Len(z)
          /\ \A i \in 1 .. Len(file) : (file \o z)[i] = file[i]
      BY <1>2, <3>4, Extended
    <3>6. \A i \in 1 .. Len(z) : (file \o z)[Len(file) + i] = z[i]
      BY <1>2, <3>4, Extended
    <3>7. (file \o z)[Len(file) + 1] = z[1]
      BY <3>2, <3>4, <3>6
    <3>8. file' = file \o z
      BY <3>1 DEF z
    <3>9. /\ IsSeq(file') /\ Len(file') = Len(file) + Len(z)
          /\ \A i \in 1 .. Len(file) : file'[i] = file[i]
          /\ file'[Len(file) + 1] = z[1]
      BY <3>5, <3>7, <3>8, Zenon
    <3> QED  BY <1>2, <2>2, <3>2, <3>3, <3>4, <3>9
  <2> QED  BY <2>1, <2>2
<1> HIDE DEF off
<1>5. TypeInv'
  BY <1>1, <1>4 DEF TypeInv
<1>6. End' = End
  BY <1>1 DEF End
<1>7. WrittenInv'
  <2>1. End \in Nat /\ End <= Len(file)
    BY <1>1, Ends
  <2>2. \A i \in 1 .. End : file'[i] = file[i]
    BY <1>2, <1>4, <2>1
  <2>3. End \in Places'
    BY <1>6 DEF Places
  <2> QED  BY <1>1, <1>4, <1>6, <2>1, <2>2, <2>3, AllRecordsKept DEF FInv
<1>8. cur.start + 1 <= Len(file') /\ file'[cur.start + 1] = HeadCell(V2_RESERVE_HEAD)
  <2>1. cur.start + 1 \in 1 .. Len(file)
    BY <1>2, <1>3
  <2> QED  BY <1>2, <1>3, <1>4, <2>1
<1>9. cur.comp = "Plain" =>
        Len(file') = cur.start + 1 + Len(cur.out) /\ HoldsAt(file', cur.start + 1, cur.out)
  BY <1>3, <1>4
<1>10. cur.comp # "Plain" => Len(file') > cur.start + 1 /\ file'[cur.start + 2].data = cur.out
  BY <1>2, <1>3, <1>4
<1>11. WorkInv'
  <2>1. wpc' = "head" /\ cur' = cur
    BY <1>1
  <2> QED  BY ONLY <1>3, <1>8, <1>9, <1>10, <2>1 DEF WorkInv, Payload, off
<1>12. PanicsOnlyOverLimit'
  BY <1>1 DEF PanicsOnlyOverLimit
<1> QED  BY <1>5, <1>6, <1>7, <1>11, <1>12 DEF FInv

LEMMA CommitHeadStep ==
  ASSUME FInv, CommitHead
  PROVE  /\ FInv'
         /\ End \in Places' /\ Places \subseteq Places' /\ written \subseteq written'
         /\ Len(file') = Len(file)
<1> DEFINE s == cur.start
           off == Off(cur.rec, cur.comp)
           h == [cur.head EXCEPT !.len = FinalLen, !.comp = ModeFlag[cur.comp]]
<1>0. PICK new : new = [rec |-> cur.rec, strategy |-> cur.strategy, comp |-> cur.comp, start |-> s]
  OBVIOUS
<1>1. /\ wpc = "head" /\ wpc' = "idle" /\ cur' = NoWork /\ tune' = tune
      /\ written' = written \cup {new}
      /\ file' = [file EXCEPT ![s + 1] = HeadCell(h)]
      /\ TypeInv /\ WorkInv
  BY <1>0 DEF CommitHead, readerVars, FInv
<1>2. /\ s \in Nat /\ Len(file) \in Nat /\ IsSeq(file) /\ IsSeq(cur.out) /\ Len(cur.out) \in Nat
      /\ cur.rec \in RecType /\ cur.head \in HeadType /\ cur.comp \in DOMAIN ModeFlag
      /\ cur.rec \in Records /\ cur.strategy \in Strategies
  BY <1>1, Work DEF TypeInv
<1>3. /\ s + 1 <= Len(file)
      /\ Len(cur.out) = off["finish"]
      /\ cur.head.type = TypeFlag.Dialog
      /\ Payload(cur.out, 0, cur.rec, cur.comp, Done["finish"])
      /\ \A c \in Done["finish"] : c # "res_b" => cur.head[c] = Size(cur.rec, cur.comp, c)
      /\ cur.comp = "Plain" => Len(file) = s + 1 + Len(cur.out) /\ HoldsAt(file, s + 1, cur.out)
      /\ cur.comp # "Plain" => Len(file) > s + 1 /\ file[s + 2].data = cur.out
  BY <1>1 DEF WorkInv
<1>4. FinalLen \in Nat /\ s + 1 + FinalLen = Len(file)
  <2>1. FinalLen = Len(file) - (s + 1) /\ s + 1 <= Len(file)
    BY <1>2, <1>3 DEF FinalLen, HeadSize
  <2>2. PICK a \in Nat, b \in Nat : a = s /\ b = Len(file)
    BY <1>2
  <2> QED  BY <2>1, <2>2
<1>5. /\ h.len = FinalLen /\ h.type = TypeFlag.Dialog /\ h.comp = ModeFlag[cur.comp]
      /\ \A c \in Blocks : c # "res_b" => h[c] = Size(cur.rec, cur.comp, c)
  <2>1. /\ h.len = FinalLen /\ h.type = cur.head.type /\ h.comp = ModeFlag[cur.comp]
        /\ \A c \in {"meta", "req_h", "req_b", "res_h"} : h[c] = cur.head[c]
    BY <1>2 DEF HeadType
  <2> HIDE DEF h
  <2> QED  BY <1>3, <2>1, BlockNames
<1> HIDE DEF h, off
<1>6. /\ IsSeq(file') /\ Len(file') = Len(file)
      /\ file'[s + 1] = HeadCell(h)
      /\ \A i \in 1 .. Len(file) : i # s + 1 => file'[i] = file[i]
  <2>1. PICK k \in 1 .. Len(file) : k = s + 1
    BY <1>2, <1>3
  <2>2. PICK c : c = HeadCell(h)
    OBVIOUS
  <2>3. file' = [file EXCEPT ![k] = c]
    BY <1>1, <2>1, <2>2
  <2>4. /\ IsSeq([file EXCEPT ![k] = c]) /\ Len([file EXCEPT ![k] = c]) = Len(file)
        /\ [file EXCEPT ![k] = c][k] = c
        /\ \A i \in 1 .. Len(file) : i # k => [file EXCEPT ![k] = c][i] = file[i]
    BY <1>2, Replaced
  <2> QED  BY <2>1, <2>2, <2>3, <2>4, Zenon
<1>7. End = s /\ End' = Len(file) /\ End \in Places' /\ Places \subseteq Places'
  <2>1. End = s /\ End' = Len(file)
    BY <1>1, <1>6 DEF End
  <2>2. new.start = s /\ new \in written'
    BY <1>0, <1>1
  <2>3. s \in Places'
    BY <2>2 DEF Places
  <2> QED  BY <1>1, <2>1, <2>3 DEF Places
<1>8. TypeInv'
  <2>1. written' \subseteq [rec : Records, strategy : Strategies, comp : DOMAIN ModeFlag, start : Nat]
    BY <1>0, <1>1, <1>2 DEF TypeInv
  <2> QED  BY <1>1, <1>6, <2>1, NoWorkType DEF TypeInv
<1>9. WorkInv'
  BY <1>1, BlockNames DEF WorkInv
<1>10. ASSUME NEW w \in written
       PROVE  RecordAt(w)'
  <2>1. w.rec \in RecType /\ w.start \in Nat /\ RecordAt(w)
    BY <1>1, Work DEF TypeInv, FInv, WrittenInv
  <2>2. /\ End \in Nat /\ End' \in Nat /\ End <= End' /\ End <= Len(file)
        /\ Len(file') \in Nat /\ Len(file) <= Len(file')
    BY <1>2, <1>3, <1>6, <1>7
  <2>3. \A i \in 1 .. End : file'[i] = file[i]
    BY <1>2, <1>3, <1>6, <1>7
  <2> QED  BY <1>2, <1>7, <2>1, <2>2, <2>3, RecordKept
<1>11. RecordAt(new)'
  <2>1. new.rec = cur.rec /\ new.comp = cur.comp /\ new.start = s
    BY <1>0
  <2>2. file'[s + 1].b = "head" /\ file'[s + 1].head = h
    BY <1>6 DEF HeadCell
  <2>3. s + 1 + h.len <= End' /\ s + 1 + h.len \in Places'
    BY <1>2, <1>4, <1>5, <1>7 DEF Places
  <2>6. /\ h.len \in Nat /\ h.type = TypeFlag.Dialog /\ h.comp = ModeFlag[cur.comp]
        /\ \A c \in Blocks : c # "res_b" => h[c] = Size(cur.rec, cur.comp, c)
    BY <1>4, <1>5
  <2>4. CASE cur.comp = "Plain"
    <3>1. h.len = off.finish
      BY <1>2, <1>3, <1>4, <1>5, <2>4
    <3>2. ASSUME NEW b \in Blocks
          PROVE  HoldsAt(file', s + 1 + off[b], Cells(cur.rec, cur.comp, b))
      <4>1. off[b] \in Nat /\ Len(Cells(cur.rec, cur.comp, b)) \in Nat
        BY <1>2, Offsets, BlockSeq DEF off, Size
      <4>2. PICK o \in Nat : o = 0 + off[b]
        BY <4>1
      <4>3. HoldsAt(cur.out, o, Cells(cur.rec, cur.comp, b))
        BY <1>3, <4>2, BlockNames DEF Payload, off
      <4>4. PICK p \in Nat : p = s + 1
        BY <1>2
      <4>5. HoldsAt(file, p, cur.out)
        BY <1>3, <2>4, <4>4
      <4>6. HoldsAt(file, p + o, Cells(cur.rec, cur.comp, b))
        BY <1>2, <4>1, <4>3, <4>5, HoldsWithin
      <4>7. PICK q \in Nat : q = p + o
        OBVIOUS
      <4>8. \A i \in 1 .. Len(file) :
              q < i /\ i <= q + Len(Cells(cur.rec, cur.comp, b)) => file'[i] = file[i]
        BY <1>6, <4>4, <4>7
      <4>9. Len(file') \in Nat /\ Len(file) <= Len(file')
        BY <1>2, <1>6
      <4>10. HoldsAt(file', q, Cells(cur.rec, cur.comp, b))
        BY <1>2, <4>1, <4>6, <4>7, <4>8, <4>9, HoldsMore
      <4>11. q = s + 1 + off[b]
        BY <1>2, <4>1, <4>2, <4>4, <4>7
      <4> QED  BY <4>10, <4>11
    <3>3. Payload(file', s + 1, cur.rec, cur.comp, Blocks)
      BY <3>2 DEF Payload, off
    <3> QED
      BY <2>1, <2>2, <2>3, <2>4, <2>6, <3>1, <3>3
         DEF RecordAt, Payload, Cells, Size, Off, off
  <2>5. CASE cur.comp # "Plain"
    <3>1. s + 2 \in 1 .. Len(file) /\ file[s + 2].data = cur.out
      BY <1>2, <1>3, <2>5
    <3>2. file'[s + 2] = file[s + 2]
      BY <1>2, <1>6, <3>1
    <3>3. h.len > 0
      BY <1>2, <1>3, <1>4, <1>5, <2>5
    <3>4. /\ IsSeq(file'[s + 2].data) /\ Len(file'[s + 2].data) = off.finish
          /\ Payload(file'[s + 2].data, 0, cur.rec, cur.comp, Blocks)
      <4>1. Payload(cur.out, 0, cur.rec, cur.comp, Blocks)
        BY <1>3, BlockNames
      <4>2. IsSeq(cur.out) /\ Len(cur.out) = off.finish
        BY <1>2, <1>3
      <4>3. file'[s + 2].data = cur.out
        BY <3>1, <3>2
      <4> QED  BY <4>1, <4>2, <4>3
    <3> QED
      BY <2>1, <2>2, <2>3, <2>5, <2>6, <3>3, <3>4
         DEF RecordAt, Payload, Cells, Size, Off, off
  <2> QED  BY <2>4, <2>5
<1>12. WrittenInv'
  <2> SUFFICES ASSUME NEW w \in written' PROVE RecordAt(w)'
    BY DEF WrittenInv
  <2>1. w \in written \/ w = new
    BY <1>1
  <2>2. CASE w \in written
    BY <1>10, <2>2
  <2>3. CASE w = new
    BY <1>11, <2>3
  <2> QED  BY <2>1, <2>2, <2>3
<1>13. PanicsOnlyOverLimit'
  BY <1>1 DEF PanicsOnlyOverLimit
<1> QED  BY <1>1, <1>6, <1>7, <1>8, <1>9, <1>12, <1>13 DEF FInv

\* A head is refused only for a record over a limit: the assertion that compares the
\* counted length of a Plain record with the file's holds.
LEMMA RefuseHeadStep ==
  ASSUME FInv, RefuseHead
  PROVE  FInv' /\ End' = End
<1> DEFINE off == Off(cur.rec, cur.comp)
           z(b) == Size(cur.rec, cur.comp, b)
<1>1. /\ wpc = "head" /\ wpc' = "panic" /\ file' = file /\ cur' = cur /\ written' = written
      /\ tune' = tune /\ TypeInv /\ WorkInv
  BY DEF RefuseHead, readerVars, FInv
<1>2. TypeInv'
  BY <1>1 DEF TypeInv
<1>3. WorkInv'
  BY <1>1, BlockNames DEF WorkInv
<1>4. End' = End
  BY <1>1 DEF End
<1>5. WrittenInv'
  BY <1>1, <1>4, RecordsStay DEF FInv
<1>6. /\ cur.rec \in RecType /\ cur.start \in Nat /\ Len(file) \in Nat /\ Len(cur.out) \in Nat
      /\ cur.head \in HeadType
  BY <1>1, Work
<1>7. /\ Len(cur.out) = off.finish /\ cur.head.len = off.finish
      /\ \A c \in Done["finish"] : c # "res_b" => cur.head[c] = z(c)
      /\ cur.comp = "Plain" => Len(file) = cur.start + 1 + Len(cur.out)
  BY <1>1 DEF WorkInv
<1>8. \A c \in {"meta", "req_h", "req_b", "res_h"} : cur.head[c] = z(c)
  BY <1>7 DEF Done
<1>9. cur.comp = "Plain" => FinalLen = off.finish
  BY <1>6, <1>7 DEF FinalLen, HeadSize
<1>10. off.finish <= z("meta") + z("req_h") + z("req_b") + z("res_h") + Len(cur.rec.res_b) + 2
  <2>1. \A b \in Blocks : z(b) \in Nat
    BY <1>6, BlockSeq
  <2>2. z("res_b") <= Len(cur.rec.res_b) + 2 /\ Len(cur.rec.res_b) \in Nat
    BY <1>6, BlockSeq, BlockNames
  <2>3. off.finish = z("meta") + z("req_h") + z("req_b") + z("res_h") + z("res_b")
    BY DEF Off
  <2>4. PICK m \in Nat, q \in Nat, r \in Nat, x \in Nat, y \in Nat, l \in Nat :
             /\ m = z("meta") /\ q = z("req_h") /\ r = z("req_b") /\ x = z("res_h")
             /\ y = z("res_b") /\ l = Len(cur.rec.res_b)
    <3> HIDE DEF z
    <3> QED  BY <2>1, <2>2, BlockNames
  <2> HIDE DEF z, off
  <2>5. off.finish = m + q + r + x + y /\ y <= l + 2
    BY <2>2, <2>3, <2>4
  <2>6. off.finish <= m + q + r + x + l + 2
    BY ONLY <2>5, m \in Nat, q \in Nat, r \in Nat, x \in Nat, y \in Nat, l \in Nat
  <2> QED  BY <2>4, <2>6
<1> HIDE DEF off
<1>11. /\ HeadRefused
       /\ MaxRecord \in Nat
  BY RecordAssumption DEF RefuseHead
<1>12. z("meta") + z("req_h") + z("req_b") + z("res_h") + Len(cur.rec.res_b) + 2 > MaxRecord
         \/ ~ (cur.comp = "Plain" /\ FinalLen > MaxRecord)
  <2>1. \A b \in Blocks : z(b) \in Nat
    BY <1>6, BlockSeq
  <2>2. Len(cur.rec.res_b) \in Nat /\ off.finish \in Nat
    BY <1>6, <1>7, BlockSeq, BlockNames
  <2>3. PICK f \in Nat : f = off.finish
    BY <2>2
  <2> HIDE DEF z
  <2>4. PICK t \in Nat : t = z("meta") + z("req_h") + z("req_b") + z("res_h") + Len(cur.rec.res_b) + 2
    <3>1. PICK m \in Nat, q \in Nat, r \in Nat, x \in Nat, l \in Nat :
               /\ m = z("meta") /\ q = z("req_h") /\ r = z("req_b") /\ x = z("res_h")
               /\ l = Len(cur.rec.res_b)
      BY <2>1, <2>2, BlockNames
    <3>2. m + q + r + x + l + 2 \in Nat
      OBVIOUS
    <3> QED  BY ONLY <3>1, <3>2
  <2>5. f <= t
    BY <1>10, <2>3, <2>4
  <2>6. cur.comp = "Plain" => FinalLen = f
    BY <1>9, <2>3
  <2> QED  BY <1>11, <2>4, <2>5, <2>6
<1>13. PanicsOnlyOverLimit'
  <2> SUFFICES \/ \E b \in HeaderBlocks : z(b) > MaxHBlock
               \/ z("req_b") > MaxReqBody
               \/ z("meta") + z("req_h") + z("req_b") + z("res_h") + Len(cur.rec.res_b) + 2 > MaxRecord
               \/ cur.comp # "Plain" /\ FinalLen > MaxRecord
    BY <1>1 DEF PanicsOnlyOverLimit, Size, Cells, FinalLen
  <2>1. ~ (cur.comp = "Plain" /\ cur.head.len # FinalLen)
    BY <1>7, <1>9
  <2>2. \A b \in HeaderBlocks : cur.head[b] = z(b)
    BY <1>8 DEF HeaderBlocks
  <2>3. cur.head.req_b = z("req_b")
    BY <1>8
  <2> HIDE DEF z
  <2> QED  BY <1>11, <1>12, <2>1, <2>2, <2>3, Zenon DEF HeadRefused
<1> QED  BY <1>2, <1>3, <1>4, <1>5, <1>13 DEF FInv

LEMMA FInvInit ==
  ASSUME Init
  PROVE  FInv
<1>1. TypeInv
  <2>1. IsSeq(<< >>)
    BY TwoCells
  <2> QED  BY <2>1, NoWorkType DEF Init, TypeInv
<1>2. WorkInv
  BY BlockNames DEF Init, WorkInv
<1>3. WrittenInv /\ PanicsOnlyOverLimit
  BY DEF Init, WrittenInv, PanicsOnlyOverLimit
<1> QED  BY <1>1, <1>2, <1>3 DEF FInv

\* The reader's steps.
Reading == ReadRecord \/ ReadNone \/ \E w \in written : Seek(w.start)

\* The writer's.
Writing ==
  \/ \E rec \in Records, strategy \in Strategies : StartWrite(rec, strategy)
  \/ \E block \in Blocks : WriteBlock(block)
  \/ Finish \/ CommitHead \/ RefuseHead

\* A step of the writer keeps the invariant, the offsets and the reader.
LEMMA WritingStep ==
  ASSUME FInv, Writing
  PROVE  /\ FInv' /\ Places \subseteq Places' /\ written \subseteq written'
         /\ tune' = tune /\ pos' = pos /\ got' = got
<1>1. tune' = tune /\ pos' = pos /\ got' = got
  BY DEF Writing, StartWrite, WriteBlock, Finish, CommitHead, RefuseHead, readerVars
<1>2. CASE CommitHead
  BY <1>1, <1>2, CommitHeadStep
<1>3. CASE ~ CommitHead
  <2>1. written' = written
    BY <1>3 DEF Writing, StartWrite, WriteBlock, Finish, RefuseHead
  <2>2. FInv' /\ End' = End
    BY <1>3, StartWriteStep, WriteBlockStep, FinishStep, RefuseHeadStep DEF Writing
  <2> QED  BY <1>1, <2>1, <2>2 DEF Places
<1> QED  BY <1>2, <1>3

\* A step of the reader leaves all of it alone.
LEMMA ReadingStep ==
  ASSUME FInv, Reading \/ UNCHANGED vars
  PROVE  FInv' /\ Places' = Places /\ written' = written /\ tune' = tune /\ file' = file
<1>1. file' = file /\ wpc' = wpc /\ cur' = cur /\ written' = written /\ tune' = tune
  BY DEF Reading, ReadRecord, ReadNone, Seek, vars
<1>2. End' = End
  BY <1>1 DEF End
<1>3. Places' = Places
  BY <1>1, <1>2 DEF Places
<1>4. TypeInv' /\ WorkInv'
  BY <1>1 DEF FInv, TypeInv, WorkInv, Payload, Cells, Size, Off
<1>5. WrittenInv'
  BY <1>1, <1>2, RecordsStay DEF FInv
<1>6. PanicsOnlyOverLimit'
  BY <1>1 DEF FInv, PanicsOnlyOverLimit, FinalLen
<1> QED  BY <1>1, <1>3, <1>4, <1>5, <1>6 DEF FInv

LEMMA NextSteps ==
  [Next]_vars => Writing \/ (Reading \/ UNCHANGED vars)
BY DEF Next, Writing, Reading

-----------------------------------------------------------------------------
(* What the reader makes of a record *)

\* A block is read from its place.
LEMMA BlockRead ==
  ASSUME NEW s, IsSeq(s), NEW o \in Nat, NEW rec \in RecType, NEW comp,
         Payload(s, o, rec, comp, Blocks), NEW b \in Blocks
  PROVE  /\ SubSeq(s, o + Off(rec, comp)[b] + 1, o + Off(rec, comp)[b] + Size(rec, comp, b))
              = Cells(rec, comp, b)
         /\ o + Off(rec, comp)[b] + Size(rec, comp, b) <= Len(s)
<1>1. Off(rec, comp)[b] \in Nat /\ Size(rec, comp, b) \in Nat /\ IsSeq(Cells(rec, comp, b))
  BY Offsets, BlockSeq
<1>2. PICK p \in Nat : p = o + Off(rec, comp)[b]
  BY <1>1
<1>3. HoldsAt(s, p, Cells(rec, comp, b))
  BY <1>2 DEF Payload
<1>4. SubSeq(s, p + 1, p + Len(Cells(rec, comp, b))) = Cells(rec, comp, b)
  BY <1>1, <1>3, Extract
<1>5. p + Len(Cells(rec, comp, b)) <= Len(s)
  BY <1>3 DEF HoldsAt
<1> QED  BY <1>2, <1>4, <1>5 DEF Size

\* What the reader may make of a block of headers, and makes of a body.
HeadersRead(rec, b, part) ==
  \/ part = Fine(rec[b])
  \/ part = Fails("TooManyHeaders") /\ Len(rec[b]) > MaxHeaders

LEMMA BlockBack ==
  ASSUME NEW rec \in RecType, NEW comp
  PROVE  /\ \A b \in HeaderBlocks :
              HeadersRead(rec, b, read_headers(Cells(rec, comp, b), comp = "Plain"))
         /\ \A b \in {"req_b", "res_b"} : 
              /\ ReadBody(Cells(rec, comp, b), comp = "Plain") = Fine(rec[b])
              /\ comp # "Plain" => Cells(rec, comp, b) = rec[b]
<1> DEFINE with_crlf == comp = "Plain"
<1>1. with_crlf \in BOOLEAN
  OBVIOUS
<1> HIDE DEF with_crlf
<1>2. ASSUME NEW b \in HeaderBlocks
      PROVE  HeadersRead(rec, b, read_headers(Cells(rec, comp, b), with_crlf))
  <2>1. rec[b] \in HeaderMap
    BY DEF RecType, HeaderBlocks
  <2>2. Cells(rec, comp, b) = write_headers(rec[b], with_crlf)
    BY DEF Cells, BlockOf, with_crlf
  <2>3. \/ read_headers(write_headers(rec[b], with_crlf), with_crlf) = Fine(rec[b])
        \/ /\ read_headers(write_headers(rec[b], with_crlf), with_crlf) = Fails("TooManyHeaders")
           /\ Len(rec[b]) > MaxHeaders
    BY <1>1, <2>1, HeadersBack
  <2> QED  BY <2>2, <2>3 DEF HeadersRead
<1>3. ASSUME NEW b \in {"req_b", "res_b"}
      PROVE  /\ ReadBody(Cells(rec, comp, b), with_crlf) = Fine(rec[b])
             /\ ~ with_crlf => Cells(rec, comp, b) = rec[b]
  <2>1. rec[b] \in Body
    BY DEF RecType
  <2>2. IsSeq(rec[b])
    BY <2>1 DEF Body, IsSeq
  <2>3. Cells(rec, comp, b) = write_body(rec[b], with_crlf)
    BY DEF Cells, BlockOf, HeaderBlocks, with_crlf
  <2>4. ReadBody(write_body(rec[b], with_crlf), with_crlf) = Fine(rec[b])
    BY <1>1, <2>2, BodyBack
  <2>5. ~ with_crlf => write_body(rec[b], with_crlf) = rec[b]
    BY DEF write_body, Padded
  <2> QED  BY <2>3, <2>4, <2>5
<1> QED  BY <1>2, <1>3 DEF with_crlf

\* The blocks are put together, or the first error counts.
AllRead(parts, ram, end) ==
  [kind |-> "record", start |-> pos, next |-> end, ram |-> ram, error |-> "-",
   rec |-> [meta |-> parts[1].value, req_h |-> parts[2].value, req_b |-> parts[3].value,
            res_h |-> parts[4].value, res_b |-> parts[5].value]]

NotRead(error, next) ==
  [NothingRead EXCEPT !.kind = "error", !.start = pos, !.next = next, !.error = error]

LEMMA OutcomeOf ==
  ASSUME NEW parts, DOMAIN parts \subseteq 1 .. 5, NEW ends, NEW ram, NEW end
  PROVE  \/ /\ \A i \in DOMAIN parts : parts[i].error = "-"
            /\ Outcome(parts, ends, ram, end) =
                 AllRead(parts, ram, end)
         \/ \E i \in DOMAIN parts :
              /\ parts[i].error # "-"
              /\ Outcome(parts, ends, ram, end) =
                   NotRead(parts[i].error, ends[i])
<1> DEFINE failed == {i \in DOMAIN parts : parts[i].error # "-"}
           first == CHOOSE i \in failed : \A j \in failed : i <= j
<1>1. CASE failed = {}
  <2>1. \A i \in DOMAIN parts : parts[i].error = "-"
    BY <1>1
  <2> QED  BY <1>1, <2>1, Zenon DEF Outcome, AllRead
<1>2. CASE failed # {}
  <2>1. failed \subseteq 1 .. 5 /\ failed \subseteq DOMAIN parts
    OBVIOUS
  <2> HIDE DEF failed
  <2>2. \E i \in failed : \A j \in failed : i <= j
    <3>1. \A j \in failed : j \in {1, 2, 3, 4, 5}
      BY <2>1
    <3>2. CASE 1 \in failed
      BY <3>1, <3>2
    <3>3. CASE 1 \notin failed /\ 2 \in failed
      BY <3>1, <3>3
    <3>4. CASE 1 \notin failed /\ 2 \notin failed /\ 3 \in failed
      BY <3>1, <3>4
    <3>5. CASE 1 \notin failed /\ 2 \notin failed /\ 3 \notin failed
      BY <1>2, <3>1, <3>5
    <3> QED  BY <3>2, <3>3, <3>4, <3>5
  <2>3. first \in failed
    BY <2>2
  <2> HIDE DEF first
  <2>4. parts[first].error # "-" /\ first \in DOMAIN parts
    BY <2>1, <2>3 DEF failed
  <2>5. Outcome(parts, ends, ram, end) =
          NotRead(parts[first].error, ends[first])
    BY <1>2, Zenon DEF Outcome, failed, first, NotRead
  <2> QED  BY <2>4, <2>5
<1> QED  BY <1>1, <1>2

\* Five blocks, of which each is what was written or one that the reader has no room
\* for, give the record or that error.
LEMMA FiveParts ==
  ASSUME NEW rec \in RecType, NEW p1, NEW p2, NEW p3, NEW p4, NEW p5,
         NEW ends, NEW ram, NEW end, NEW g,
         g = Outcome(<<p1, p2, p3, p4, p5>>, ends, ram, end),
         HeadersRead(rec, "meta", p1), HeadersRead(rec, "req_h", p2), p3 = Fine(rec.req_b),
         HeadersRead(rec, "res_h", p4), p5 \in {Fine(rec.res_b), Fails("BodyTooLong")}
  PROVE  \/ /\ g.kind = "record" /\ g.start = pos /\ g.next = end /\ g.ram = ram /\ g.rec = rec
         \/ /\ g.kind = "error" /\ g.start = pos /\ g.ram = {}
            /\ \E i \in 1 .. 5 : g.next = ends[i]
            /\ \/ g.error = "TooManyHeaders" /\ \E b \in HeaderBlocks : Len(rec[b]) > MaxHeaders
               \/ g.error = "BodyTooLong" /\ p5 = Fails("BodyTooLong")
<1> DEFINE parts == <<p1, p2, p3, p4, p5>>
<1>1. /\ DOMAIN parts = 1 .. 5
      /\ parts[1] = p1 /\ parts[2] = p2 /\ parts[3] = p3 /\ parts[4] = p4 /\ parts[5] = p5
  OBVIOUS
<1>2. /\ p1.error # "-" => p1.error = "TooManyHeaders" /\ Len(rec.meta) > MaxHeaders
      /\ p2.error # "-" => p2.error = "TooManyHeaders" /\ Len(rec.req_h) > MaxHeaders
      /\ p3.error = "-"
      /\ p4.error # "-" => p4.error = "TooManyHeaders" /\ Len(rec.res_h) > MaxHeaders
      /\ p5.error # "-" => p5.error = "BodyTooLong" /\ p5 = Fails("BodyTooLong")
  BY DEF HeadersRead, Fine, Fails
<1>3. /\ p1.error = "-" => p1.value = rec.meta
      /\ p2.error = "-" => p2.value = rec.req_h
      /\ p3.value = rec.req_b
      /\ p4.error = "-" => p4.value = rec.res_h
      /\ p5.error = "-" => p5.value = rec.res_b
  BY DEF HeadersRead, Fine, Fails
<1> HIDE DEF parts
<1>4. g = Outcome(parts, ends, ram, end)
  BY DEF parts
<1>5. CASE /\ \A i \in 1 .. 5 : parts[i].error = "-"
           /\ g = AllRead(parts, ram, end)
  <2>1. p1.error = "-" /\ p2.error = "-" /\ p4.error = "-" /\ p5.error = "-"
    BY <1>1, <1>5
  <2>2. g.rec = [meta |-> rec.meta, req_h |-> rec.req_h, req_b |-> rec.req_b,
                 res_h |-> rec.res_h, res_b |-> rec.res_b]
    BY <1>1, <1>3, <1>5, <2>1 DEF AllRead
  <2>3. g.rec = rec
    BY <2>2 DEF RecType
  <2> QED  BY <1>5, <2>3 DEF AllRead
<1>6. CASE \E i \in 1 .. 5 :
              /\ parts[i].error # "-"
              /\ g = NotRead(parts[i].error, ends[i])
  <2>1. PICK i \in 1 .. 5 :
              /\ parts[i].error # "-"
              /\ g = NotRead(parts[i].error, ends[i])
    BY <1>6
  <2>2. /\ g.kind = "error" /\ g.start = pos /\ g.ram = {} /\ g.next = ends[i]
        /\ g.error = parts[i].error
    BY <2>1 DEF NothingRead, NotRead
  <2>3. \/ g.error = "TooManyHeaders" /\ \E b \in HeaderBlocks : Len(rec[b]) > MaxHeaders
        \/ g.error = "BodyTooLong" /\ p5 = Fails("BodyTooLong")
    <3>1. i \in {1, 2, 3, 4, 5}
      OBVIOUS
    <3> QED  BY <1>1, <1>2, <2>1, <2>2, <3>1 DEF HeaderBlocks
  <2> QED  BY <2>2, <2>3
<1>7. DOMAIN parts = 1 .. 5 /\ DOMAIN parts \subseteq 1 .. 5
  BY <1>1
<1>8. \/ /\ \A i \in DOMAIN parts : parts[i].error = "-"
         /\ Outcome(parts, ends, ram, end) =
              AllRead(parts, ram, end)
      \/ \E i \in DOMAIN parts :
           /\ parts[i].error # "-"
           /\ Outcome(parts, ends, ram, end) =
                NotRead(parts[i].error, ends[i])
  BY <1>7, OutcomeOf, Zenon
<1> QED  BY <1>4, <1>5, <1>6, <1>7, <1>8, Zenon

\* Where the bodies of a record go, and why a record is not returned.
BodiesFit(rec, ram) ==
  /\ ram \subseteq {"req_b", "res_b"}
  /\ \A b \in {"req_b", "res_b"} :
       /\ b \in ram => Len(rec[b]) <= tune.max_body_ram
       /\ b \notin ram => \/ Len(rec[b]) + 2 > tune.max_body_ram
                          \/ b = "res_b" /\ ResEstimate > tune.max_body_ram

Justified(w, error) ==
  \/ error = "TooManyHeaders" /\ \E b \in HeaderBlocks : Len(w.rec[b]) > MaxHeaders
  \/ error = "BodyTooLong" /\ w.comp # "Plain" /\ Len(w.rec.res_b) > tune.max_body
  \/ error = "DecoderUnsupported" /\ w.comp = "Brotli" /\ ~ tune.brotli

\* What read() may return of a record that was written.
ReadOf(w, g) ==
  /\ g.start = pos /\ w.start = pos
  /\ \/ g.kind = "record" /\ g.rec = w.rec /\ g.next \in Places /\ BodiesFit(w.rec, g.ram)
     \/ g.kind = "error" /\ g.next \in 0 .. Len(file) /\ g.ram = {} /\ Justified(w, g.error)

\* The sizes of the blocks of a record and their offsets, as numbers.
SizesAre(rec, comp, m, q, r, s, t) ==
  /\ Size(rec, comp, "meta") = m /\ Size(rec, comp, "req_h") = q
  /\ Size(rec, comp, "req_b") = r /\ Size(rec, comp, "res_h") = s
  /\ Size(rec, comp, "res_b") = t
  /\ Off(rec, comp).meta = 0 /\ Off(rec, comp).req_h = m
  /\ Off(rec, comp).req_b = m + q /\ Off(rec, comp).res_h = m + q + r
  /\ Off(rec, comp).res_b = m + q + r + s
  /\ Off(rec, comp).finish = m + q + r + s + t

LEMMA Sizes ==
  ASSUME NEW rec \in RecType, NEW comp
  PROVE  \E m \in Nat, q \in Nat, r \in Nat, s \in Nat, t \in Nat :
           SizesAre(rec, comp, m, q, r, s, t)
<1>1. \A b \in Blocks : Size(rec, comp, b) \in Nat
  BY BlockSeq
<1>2. PICK m \in Nat, q \in Nat, r \in Nat, s \in Nat, t \in Nat :
           /\ Size(rec, comp, "meta") = m /\ Size(rec, comp, "req_h") = q
           /\ Size(rec, comp, "req_b") = r /\ Size(rec, comp, "res_h") = s
           /\ Size(rec, comp, "res_b") = t
  BY <1>1, BlockNames
<1>3. SizesAre(rec, comp, m, q, r, s, t)
  BY <1>2 DEF Off, SizesAre
<1> QED  BY <1>3

\* A record that was written, and where it lies.
LEMMA RecordFacts ==
  ASSUME FInv, NEW w \in written
  PROVE  /\ w.rec \in RecType /\ w.start \in Nat /\ w.comp \in {"Plain", "Gzip", "Brotli"}
         /\ RecordAt(w) /\ IsSeq(file) /\ Len(file) \in Nat
         /\ w.start + 1 + file[w.start + 1].head.len \in Places
         /\ w.start + 1 + file[w.start + 1].head.len <= Len(file)
         /\ file[w.start + 1].head.len \in Nat
         /\ tune.max_body_ram \in Nat /\ tune.max_body \in Nat /\ tune.brotli \in BOOLEAN
<1>1. TypeInv /\ WorkInv /\ RecordAt(w)
  BY DEF FInv, WrittenInv
<1>2. /\ w.rec \in RecType /\ w.start \in Nat /\ w.comp \in {"Plain", "Gzip", "Brotli"}
      /\ IsSeq(file) /\ Len(file) \in Nat
  BY <1>1, Work, BlockNames DEF TypeInv
<1>3. tune.max_body_ram \in Nat /\ tune.max_body \in Nat /\ tune.brotli \in BOOLEAN
  BY <1>1, RecordAssumption DEF TypeInv
<1>4. End \in Nat /\ End <= Len(file)
  BY <1>1, Ends
<1>5. /\ w.start + 1 + file[w.start + 1].head.len \in Places
      /\ w.start + 1 + file[w.start + 1].head.len <= End
      /\ file[w.start + 1].head.len \in Nat
  BY <1>1 DEF RecordAt
<1>6. w.start + 1 + file[w.start + 1].head.len <= Len(file)
  BY <1>2, <1>4, <1>5
<1> QED  BY <1>1, <1>2, <1>3, <1>5, <1>6

\* A Plain record: the reader's offsets are the writer's, and what the other blocks
\* leave of len is the response body with its padding.
LEMMA ReadPlain ==
  ASSUME FInv, NEW w \in written, w.start = pos, w.comp = "Plain"
  PROVE  ReadOf(w, read_plain(HeadAtPos))
<1> DEFINE rec == w.rec
           c(b) == Cells(rec, "Plain", b)
<1>1. /\ rec \in RecType /\ pos \in Nat /\ IsSeq(file) /\ Len(file) \in Nat
      /\ tune.max_body_ram \in Nat
      /\ pos + 1 + HeadAtPos.len \in Places /\ pos + 1 + HeadAtPos.len <= Len(file)
  BY RecordFacts DEF HeadAtPos
<1>2. /\ \A b \in Blocks : b # "res_b" => HeadAtPos[b] = Size(rec, "Plain", b)
      /\ HeadAtPos.len = Off(rec, "Plain").finish
      /\ Payload(file, pos + 1, rec, "Plain", Blocks)
  BY RecordFacts DEF RecordAt, HeadAtPos
<1>3. PICK m \in Nat, q \in Nat, r \in Nat, s \in Nat, t \in Nat :
           SizesAre(rec, "Plain", m, q, r, s, t)
  BY <1>1, Sizes
<1>4. PICK h : h = HeadAtPos
  OBVIOUS
<1>5. /\ h.meta = m /\ h.req_h = q /\ h.req_b = r /\ h.res_h = s
      /\ h.len = m + q + r + s + t
  BY <1>2, <1>3, <1>4, BlockNames DEF SizesAre
<1>6. PICK o1 \in Nat, o2 \in Nat, o3 \in Nat, o4 \in Nat, o5 \in Nat :
           /\ o1 = pos + 1 /\ o2 = o1 + m /\ o3 = o2 + q /\ o4 = o3 + r /\ o5 = o4 + s
  BY <1>1, <1>3
<1>7. /\ SubSeq(file, o1 + 1, o1 + m) = c("meta")
      /\ SubSeq(file, o2 + 1, o2 + q) = c("req_h")
      /\ SubSeq(file, o3 + 1, o3 + r) = c("req_b")
      /\ SubSeq(file, o4 + 1, o4 + s) = c("res_h")
      /\ SubSeq(file, o5 + 1, o5 + t) = c("res_b")
  <2>1. \A b \in Blocks :
          SubSeq(file, pos + 1 + Off(rec, "Plain")[b] + 1,
                 pos + 1 + Off(rec, "Plain")[b] + Size(rec, "Plain", b)) = c(b)
    BY <1>1, <1>2, BlockRead
  <2> HIDE DEF c
  <2>2. SubSeq(file, o1 + 1, o1 + m) = c("meta")
    <3>1. pos + 1 + Off(rec, "Plain")["meta"] = o1 /\ Size(rec, "Plain", "meta") = m
      BY <1>3, <1>6 DEF SizesAre
    <3>2. SubSeq(file, pos + 1 + Off(rec, "Plain")["meta"] + 1,
                 pos + 1 + Off(rec, "Plain")["meta"] + Size(rec, "Plain", "meta")) = c("meta")
      BY <2>1, BlockNames
    <3> QED  BY ONLY <3>1, <3>2, Zenon
  <2>3. SubSeq(file, o2 + 1, o2 + q) = c("req_h")
    <3>1. pos + 1 + Off(rec, "Plain")["req_h"] = o2 /\ Size(rec, "Plain", "req_h") = q
      BY <1>3, <1>6 DEF SizesAre
    <3>2. SubSeq(file, pos + 1 + Off(rec, "Plain")["req_h"] + 1,
                 pos + 1 + Off(rec, "Plain")["req_h"] + Size(rec, "Plain", "req_h")) = c("req_h")
      BY <2>1, BlockNames
    <3> QED  BY ONLY <3>1, <3>2, Zenon
  <2>4. SubSeq(file, o3 + 1, o3 + r) = c("req_b")
    <3>1. pos + 1 + Off(rec, "Plain")["req_b"] = o3 /\ Size(rec, "Plain", "req_b") = r
      BY <1>1, <1>3, <1>6 DEF SizesAre
    <3>2. SubSeq(file, pos + 1 + Off(rec, "Plain")["req_b"] + 1,
                 pos + 1 + Off(rec, "Plain")["req_b"] + Size(rec, "Plain", "req_b")) = c("req_b")
      BY <2>1, BlockNames
    <3> QED  BY ONLY <3>1, <3>2, Zenon
  <2>5. SubSeq(file, o4 + 1, o4 + s) = c("res_h")
    <3>1. pos + 1 + Off(rec, "Plain")["res_h"] = o4 /\ Size(rec, "Plain", "res_h") = s
      BY <1>1, <1>3, <1>6 DEF SizesAre
    <3>2. SubSeq(file, pos + 1 + Off(rec, "Plain")["res_h"] + 1,
                 pos + 1 + Off(rec, "Plain")["res_h"] + Size(rec, "Plain", "res_h")) = c("res_h")
      BY <2>1, BlockNames
    <3> QED  BY ONLY <3>1, <3>2, Zenon
  <2>6. SubSeq(file, o5 + 1, o5 + t) = c("res_b")
    <3>1. pos + 1 + Off(rec, "Plain")["res_b"] = o5 /\ Size(rec, "Plain", "res_b") = t
      BY <1>1, <1>3, <1>6 DEF SizesAre
    <3>2. SubSeq(file, pos + 1 + Off(rec, "Plain")["res_b"] + 1,
                 pos + 1 + Off(rec, "Plain")["res_b"] + Size(rec, "Plain", "res_b")) = c("res_b")
      BY <2>1, BlockNames
    <3> QED  BY ONLY <3>1, <3>2, Zenon
  <2> QED  BY <2>2, <2>3, <2>4, <2>5, <2>6
<1>8. /\ pos + HeadSize = o1 /\ o1 + h.meta = o2 /\ o2 + h.req_h = o3 /\ o3 + h.req_b = o4
      /\ o4 + h.res_h = o5 /\ h.len - (o5 - pos - HeadSize) = t
  BY <1>1, <1>5, <1>6 DEF HeadSize
<1> HIDE DEF c
<1> DEFINE p1 == read_headers(c("meta"), TRUE)
           p2 == read_headers(c("req_h"), TRUE)
           p3 == ReadBody(c("req_b"), TRUE)
           p4 == read_headers(c("res_h"), TRUE)
           p5 == ReadBody(c("res_b"), TRUE)
           ends == <<o2, o3, o4, o5, o5 + t>>
           ram == RamBodies(FitsRam(r), FitsRam(t))
<1>9. read_plain(h) = Outcome(<<p1, p2, p3, p4, p5>>, ends, ram, o5 + t)
  <2>1. ~ (t < 0)
    OBVIOUS
  <2>2. h.meta = m /\ h.req_h = q /\ h.req_b = r /\ h.res_h = s
    BY <1>5
  <2> QED  BY <1>7, <1>8, <2>1, <2>2 DEF read_plain
<1>10. /\ HeadersRead(rec, "meta", p1) /\ HeadersRead(rec, "req_h", p2) /\ p3 = Fine(rec.req_b)
       /\ HeadersRead(rec, "res_h", p4) /\ p5 = Fine(rec.res_b)
  <2>1. ("Plain" = "Plain") = TRUE
    OBVIOUS
  <2>2. \A b \in HeaderBlocks : HeadersRead(rec, b, read_headers(c(b), TRUE))
    BY <1>1, <2>1, BlockBack DEF c
  <2>3. \A b \in {"req_b", "res_b"} : ReadBody(c(b), TRUE) = Fine(rec[b])
    BY <1>1, <2>1, BlockBack DEF c
  <2> QED  BY <2>2, <2>3 DEF HeaderBlocks
<1> HIDE DEF p1, p2, p3, p4, p5, ram
<1>11. PICK g : g = read_plain(h)
  OBVIOUS
<1>12. \/ /\ g.kind = "record" /\ g.start = pos /\ g.next = o5 + t /\ g.ram = ram /\ g.rec = rec
       \/ /\ g.kind = "error" /\ g.start = pos /\ g.ram = {}
          /\ \E i \in 1 .. 5 : g.next = ends[i]
          /\ \/ g.error = "TooManyHeaders" /\ \E b \in HeaderBlocks : Len(rec[b]) > MaxHeaders
             \/ g.error = "BodyTooLong" /\ p5 = Fails("BodyTooLong")
  <2> HIDE DEF ends
  <2>1. g = Outcome(<<p1, p2, p3, p4, p5>>, ends, ram, o5 + t)
    BY <1>9, <1>11
  <2>2. p5 \in {Fine(rec.res_b), Fails("BodyTooLong")} /\ rec \in RecType
    BY <1>1, <1>10
  <2> QED  BY ONLY <1>10, <2>1, <2>2, FiveParts
<1>13. p5 # Fails("BodyTooLong")
  BY <1>10 DEF Fine, Fails
<1>14. o5 + t \in Places /\ o5 + t <= Len(file)
  <2>1. o5 + t = pos + 1 + HeadAtPos.len
    BY <1>1, <1>4, <1>5, <1>6
  <2> QED  BY <1>1, <2>1
<1>15. \A i \in 1 .. 5 : ends[i] \in 0 .. Len(file)
  <2>1. ends[1] = o2 /\ ends[2] = o3 /\ ends[3] = o4 /\ ends[4] = o5 /\ ends[5] = o5 + t
    OBVIOUS
  <2> HIDE DEF ends
  <2>2. \A o \in {o2, o3, o4, o5, o5 + t} : o \in 0 .. Len(file)
    BY ONLY <1>1, <1>6, <1>14, m \in Nat, q \in Nat, r \in Nat, s \in Nat, t \in Nat
  <2> QED  BY <2>1, <2>2
<1>16. BodiesFit(rec, ram)
  <2>1. PICK k \in Nat, l \in Nat : /\ k = Len(rec.req_b) /\ k <= r /\ r <= k + 2
                                    /\ l = Len(rec.res_b) /\ l <= t /\ t <= l + 2
    BY <1>1, <1>3, BlockSeq, BlockNames DEF SizesAre
  <2>2. ram \subseteq {"req_b", "res_b"}
    BY DEF ram, RamBodies
  <2>3. /\ "req_b" \in ram <=> r <= tune.max_body_ram
        /\ "res_b" \in ram <=> t <= tune.max_body_ram
    BY DEF ram, RamBodies, FitsRam
  <2>4. /\ "req_b" \in ram => Len(rec.req_b) <= tune.max_body_ram
        /\ "req_b" \notin ram => Len(rec.req_b) + 2 > tune.max_body_ram
        /\ "res_b" \in ram => Len(rec.res_b) <= tune.max_body_ram
        /\ "res_b" \notin ram => Len(rec.res_b) + 2 > tune.max_body_ram
    <3>1. PICK n \in Nat : n = tune.max_body_ram
      BY <1>1
    <3>2. /\ ~ (r <= n) => k + 2 > n
          /\ r <= n => k <= n
          /\ ~ (t <= n) => l + 2 > n
          /\ t <= n => l <= n
      BY ONLY <2>1, k \in Nat, r \in Nat, l \in Nat, t \in Nat, n \in Nat
    <3> QED  BY <2>1, <2>3, <3>1, <3>2
  <2> QED  BY <2>2, <2>4 DEF BodiesFit
<1>17. ReadOf(w, g)
  <2> HIDE DEF ends
  <2>1. g.start = pos /\ w.start = pos
    BY <1>12
  <2>2. CASE g.kind = "record"
    BY <1>12, <1>14, <1>16, <2>1, <2>2 DEF ReadOf
  <2>3. CASE g.kind = "error"
    <3>1. g.next \in 0 .. Len(file)
      BY <1>12, <1>15, <2>3
    <3> QED  BY <1>12, <1>13, <2>1, <2>3, <3>1 DEF ReadOf, Justified
  <2> QED  BY <1>12, <2>2, <2>3
<1> QED  BY <1>4, <1>11, <1>17

\* A compressed record: the blocks follow each other without padding in what the
\* decoder yields, and the response body is the rest of it.
LEMMA ReadCompressed ==
  ASSUME FInv, NEW w \in written, w.start = pos, w.comp # "Plain"
  PROVE  ReadOf(w, read_compressed(HeadAtPos))
<1> DEFINE c(b) == Cells(w.rec, w.comp, b)
<1>0. PICK rec : rec = w.rec
  OBVIOUS
<1>1. /\ rec \in RecType /\ pos \in Nat /\ IsSeq(file) /\ Len(file) \in Nat
      /\ w.comp \in {"Gzip", "Brotli"}
      /\ tune.max_body_ram \in Nat /\ tune.max_body \in Nat /\ tune.brotli \in BOOLEAN
      /\ pos + 1 + HeadAtPos.len \in Places /\ pos + 1 + HeadAtPos.len <= Len(file)
      /\ HeadAtPos.len \in Nat
  BY <1>0, RecordFacts DEF HeadAtPos
<1>2. PICK h : h = HeadAtPos
  OBVIOUS
<1>3. PICK z : z = file[pos + 2].data
  OBVIOUS
<1>4. /\ \A b \in Blocks : b # "res_b" => h[b] = Size(rec, w.comp, b)
      /\ h.comp = ModeFlag[w.comp]
      /\ IsSeq(z) /\ Len(z) = Off(rec, w.comp).finish
      /\ Payload(z, 0, rec, w.comp, Blocks)
  BY <1>0, <1>2, <1>3, RecordFacts DEF RecordAt, HeadAtPos
<1>5. PICK m \in Nat, q \in Nat, r \in Nat, s \in Nat, t \in Nat :
           SizesAre(rec, w.comp, m, q, r, s, t)
  BY <1>1, Sizes
<1>6. /\ h.meta = m /\ h.req_h = q /\ h.req_b = r /\ h.res_h = s
      /\ Len(z) = m + q + r + s + t
  BY <1>4, <1>5, BlockNames DEF SizesAre
<1>7. /\ SubSeq(z, 1, m) = c("meta")
      /\ SubSeq(SubSeq(z, m + 1, Len(z)), 1, q) = c("req_h")
      /\ SubSeq(SubSeq(z, m + q + 1, Len(z)), 1, r) = c("req_b")
      /\ r <= Len(SubSeq(z, m + q + 1, Len(z)))
      /\ Len(SubSeq(z, m + q + 1, Len(z))) \in Nat
      /\ SubSeq(SubSeq(z, m + q + r + 1, Len(z)), 1, s) = c("res_h")
      /\ SubSeq(z, m + q + r + s + 1, Len(z)) = c("res_b")
  <2>1. \A b \in Blocks :
          SubSeq(z, 0 + Off(rec, w.comp)[b] + 1, 0 + Off(rec, w.comp)[b] + Size(rec, w.comp, b))
            = Cells(rec, w.comp, b)
    BY <1>1, <1>4, BlockRead
  <2>2. \A b : Cells(rec, w.comp, b) = c(b)
    BY <1>0
  <2> HIDE DEF c
  <2>3. SubSeq(z, 1, m) = c("meta")
    <3>1. 0 + Off(rec, w.comp)["meta"] + 1 = 1 /\ 0 + Off(rec, w.comp)["meta"] + Size(rec, w.comp, "meta") = m
      BY <1>5 DEF SizesAre
    <3> QED  BY <2>1, <2>2, <3>1, BlockNames
  <2>4. PICK o2 \in Nat, o3 \in Nat, o4 \in Nat, o5 \in Nat :
             /\ o2 = m /\ o3 = m + q /\ o4 = m + q + r /\ o5 = m + q + r + s
             /\ o2 + q <= Len(z) /\ o3 + r <= Len(z) /\ o4 + s <= Len(z) /\ o5 + t = Len(z)
    BY <1>6
  <2>5. SubSeq(z, o2 + 1, o2 + q) = c("req_h")
    <3>1. 0 + Off(rec, w.comp)["req_h"] = o2 /\ Size(rec, w.comp, "req_h") = q
      BY <1>5, <2>4 DEF SizesAre
    <3> QED  BY <2>1, <2>2, <3>1, BlockNames
  <2>6. SubSeq(z, o3 + 1, o3 + r) = c("req_b")
    <3>1. 0 + Off(rec, w.comp)["req_b"] = o3 /\ Size(rec, w.comp, "req_b") = r
      BY <1>5, <2>4 DEF SizesAre
    <3> QED  BY <2>1, <2>2, <3>1, BlockNames
  <2>7. SubSeq(z, o4 + 1, o4 + s) = c("res_h")
    <3>1. 0 + Off(rec, w.comp)["res_h"] = o4 /\ Size(rec, w.comp, "res_h") = s
      BY <1>5, <2>4 DEF SizesAre
    <3> QED  BY <2>1, <2>2, <3>1, BlockNames
  <2>8. SubSeq(z, o5 + 1, o5 + t) = c("res_b")
    <3>1. 0 + Off(rec, w.comp)["res_b"] = o5 /\ Size(rec, w.comp, "res_b") = t
      BY <1>5, <2>4 DEF SizesAre
    <3> QED  BY <2>1, <2>2, <3>1, BlockNames
  <2>9. SubSeq(SubSeq(z, o2 + 1, Len(z)), 1, q) = SubSeq(z, o2 + 1, o2 + q)
    <3>1. IsSeq(z) /\ o2 + q <= Len(z)
      BY <1>4, <2>4
    <3> QED  BY ONLY <3>1, o2 \in Nat, q \in Nat, PartOfRest
  <2>10. /\ SubSeq(SubSeq(z, o3 + 1, Len(z)), 1, r) = SubSeq(z, o3 + 1, o3 + r)
         /\ Len(SubSeq(z, o3 + 1, Len(z))) = Len(z) - o3
    <3>1. IsSeq(z) /\ o3 + r <= Len(z)
      BY <1>4, <2>4
    <3> QED  BY ONLY <3>1, o3 \in Nat, r \in Nat, PartOfRest
  <2>11. SubSeq(SubSeq(z, o4 + 1, Len(z)), 1, s) = SubSeq(z, o4 + 1, o4 + s)
    <3>1. IsSeq(z) /\ o4 + s <= Len(z)
      BY <1>4, <2>4
    <3> QED  BY ONLY <3>1, o4 \in Nat, s \in Nat, PartOfRest
  <2>12. Len(z) - o3 \in Nat /\ r <= Len(z) - o3
    BY <1>6, <2>4
  <2>13. /\ SubSeq(SubSeq(z, m + 1, Len(z)), 1, q) = c("req_h")
         /\ SubSeq(SubSeq(z, m + q + r + 1, Len(z)), 1, s) = c("res_h")
    BY <2>4, <2>5, <2>7, <2>9, <2>11
  <2>14. /\ SubSeq(SubSeq(z, m + q + 1, Len(z)), 1, r) = c("req_b")
         /\ r <= Len(SubSeq(z, m + q + 1, Len(z)))
         /\ Len(SubSeq(z, m + q + 1, Len(z))) \in Nat
    BY <2>4, <2>6, <2>10, <2>12
  <2>15. SubSeq(z, m + q + r + s + 1, Len(z)) = c("res_b")
    BY <2>4, <2>8
  <2> QED  BY <2>3, <2>13, <2>14, <2>15
<1>8. ReadBodyFs(SubSeq(z, m + q + 1, Len(z)), r) = c("req_b")
  <2>1. PICK rest : rest = SubSeq(z, m + q + 1, Len(z))
    OBVIOUS
  <2>2. (IF Len(rest) < r THEN Len(rest) ELSE r) = r
    BY <1>7, <2>1
  <2>3. SubSeq(rest, 1, r) = c("req_b")
    BY <1>7, <2>1
  <2> HIDE DEF c
  <2>4. ReadBodyFs(rest, r) = c("req_b")
    BY <2>2, <2>3, Zenon DEF ReadBodyFs
  <2> QED  BY <2>1, <2>4
<1>9. c("req_b") = rec.req_b /\ c("res_b") = rec.res_b
  BY <1>0, <1>1, BlockBack
<1> HIDE DEF c
<1> DEFINE p1 == read_headers(c("meta"), FALSE)
           p2 == read_headers(c("req_h"), FALSE)
           p3 == ReadBody(c("req_b"), FALSE)
           p4 == read_headers(c("res_h"), FALSE)
           p5 == ReadFrom(c("res_b"))
           ends == [i \in 1 .. 5 |-> pos + HeadSize]
           ram == RamBodies(FitsRam(r), ReadFromRam(Len(c("res_b"))))
           end == pos + 1 + h.len
<1>10. read_compressed(h) =
         Outcome(IF DecoderSupported(h.comp) THEN <<p1, p2, p3, p4, p5>> ELSE <<Fails("DecoderUnsupported")>>,
                 ends, ram, end)
  <2>1. file[pos + HeadSize + 1].data = z
    BY <1>1, <1>3 DEF HeadSize
  <2>2. pos + HeadSize + h.len = pos + 1 + h.len
    BY DEF HeadSize
  <2>3. h.meta = m /\ h.req_h = q /\ h.req_b = r /\ h.res_h = s
    BY <1>6
  <2> QED  BY <1>7, <1>8, <2>1, <2>2, <2>3 DEF read_compressed
<1>11. /\ HeadersRead(rec, "meta", p1) /\ HeadersRead(rec, "req_h", p2) /\ p3 = Fine(rec.req_b)
       /\ HeadersRead(rec, "res_h", p4) /\ p5 \in {Fine(rec.res_b), Fails("BodyTooLong")}
       /\ p5 = Fails("BodyTooLong") => Len(rec.res_b) > tune.max_body
  <2>1. (w.comp = "Plain") = FALSE
    OBVIOUS
  <2>2. \A b \in HeaderBlocks : HeadersRead(rec, b, read_headers(c(b), FALSE))
    BY <1>0, <1>1, <2>1, BlockBack DEF c
  <2>3. \A b \in {"req_b", "res_b"} : ReadBody(c(b), FALSE) = Fine(rec[b])
    BY <1>0, <1>1, <2>1, BlockBack DEF c
  <2>4. /\ p5 \in {Fine(rec.res_b), Fails("BodyTooLong")}
        /\ p5 = Fails("BodyTooLong") => Len(rec.res_b) > tune.max_body
    BY <1>9 DEF ReadFrom, Fine, Fails
  <2> QED  BY <2>2, <2>3, <2>4 DEF HeaderBlocks
<1>12. \A i \in 1 .. 5 : ends[i] = pos + 1 /\ ends[i] \in 0 .. Len(file)
  BY <1>1 DEF HeadSize
<1>13. end \in Places
  BY <1>1, <1>2
<1>14. BodiesFit(rec, ram)
  <2>1. PICK k \in Nat, l \in Nat : k = Len(rec.req_b) /\ k = r /\ l = Len(rec.res_b) /\ l = t
    <3>1. \A b \in {"req_b", "res_b"} :
            Len(rec[b]) \in Nat /\ Size(rec, w.comp, b) = Len(rec[b])
      <4> SUFFICES ASSUME NEW b \in {"req_b", "res_b"}
                   PROVE  Len(rec[b]) \in Nat /\ Size(rec, w.comp, b) = Len(rec[b])
        OBVIOUS
      <4>1. b \in Blocks
        BY BlockNames
      <4>2. PICK comp : comp = w.comp /\ comp # "Plain"
        OBVIOUS
      <4>3. Len(rec[b]) \in Nat /\ Size(rec, comp, b) = Len(rec[b])
        BY <1>1, <4>1, <4>2, BlockSeq
      <4> QED  BY <4>2, <4>3
    <3>2. Size(rec, w.comp, "req_b") = r /\ Size(rec, w.comp, "res_b") = t
      BY <1>5 DEF SizesAre
    <3> QED  BY <3>1, <3>2
  <2>2. ram \subseteq {"req_b", "res_b"}
    BY DEF RamBodies
  <2>3. /\ "req_b" \in ram <=> r <= tune.max_body_ram
        /\ "res_b" \in ram <=> ResEstimate <= tune.max_body_ram /\ l <= tune.max_body_ram
    BY <1>9, <2>1 DEF RamBodies, FitsRam, ReadFromRam
  <2> HIDE DEF ram
  <2>4. ResEstimate \in Nat
    BY RecordAssumption
  <2>5. /\ "req_b" \in ram => Len(rec.req_b) <= tune.max_body_ram
        /\ "req_b" \notin ram => Len(rec.req_b) + 2 > tune.max_body_ram
        /\ "res_b" \in ram => Len(rec.res_b) <= tune.max_body_ram
        /\ "res_b" \notin ram => \/ Len(rec.res_b) + 2 > tune.max_body_ram
                                 \/ ResEstimate > tune.max_body_ram
    BY <1>1, <2>1, <2>3, <2>4
  <2> QED  BY <2>2, <2>5 DEF BodiesFit
<1> HIDE DEF p1, p2, p3, p4, p5, ram, ends, end
<1>15. PICK g : g = read_compressed(h)
  OBVIOUS
<1>16. CASE DecoderSupported(h.comp)
  <2>1. g = Outcome(<<p1, p2, p3, p4, p5>>, ends, ram, end)
    BY <1>10, <1>15, <1>16
  <2>2. \/ /\ g.kind = "record" /\ g.start = pos /\ g.next = end /\ g.ram = ram /\ g.rec = rec
        \/ /\ g.kind = "error" /\ g.start = pos /\ g.ram = {}
           /\ \E i \in 1 .. 5 : g.next = ends[i]
           /\ \/ g.error = "TooManyHeaders" /\ \E b \in HeaderBlocks : Len(rec[b]) > MaxHeaders
              \/ g.error = "BodyTooLong" /\ p5 = Fails("BodyTooLong")
    <3>1. rec \in RecType
      BY <1>1
    <3>2. /\ HeadersRead(rec, "meta", p1) /\ HeadersRead(rec, "req_h", p2) /\ p3 = Fine(rec.req_b)
          /\ HeadersRead(rec, "res_h", p4) /\ p5 \in {Fine(rec.res_b), Fails("BodyTooLong")}
      BY <1>11
    <3> QED  BY ONLY <2>1, <3>1, <3>2, FiveParts
  <2>3. CASE g.kind = "record"
    BY <1>0, <1>2, <1>13, <1>14, <1>15, <2>2, <2>3 DEF ReadOf
  <2>4. CASE g.kind = "error"
    <3>1. g.next \in 0 .. Len(file)
      BY <1>12, <2>2, <2>4
    <3> QED  BY <1>0, <1>2, <1>11, <1>15, <2>2, <2>4, <3>1 DEF ReadOf, Justified
  <2> QED  BY <1>2, <1>15, <2>2, <2>3, <2>4
<1>17. CASE ~ DecoderSupported(h.comp)
  <2>1. PICK parts : parts = <<Fails("DecoderUnsupported")>>
    OBVIOUS
  <2>2. DOMAIN parts = {1} /\ DOMAIN parts \subseteq 1 .. 5 /\ parts[1] = Fails("DecoderUnsupported")
    BY <2>1
  <2>3. parts[1].error = "DecoderUnsupported"
    BY <2>2 DEF Fails
  <2>4. g = Outcome(parts, ends, ram, end)
    BY <1>10, <1>15, <1>17, <2>1
  <2>5. g = NotRead("DecoderUnsupported", ends[1])
    <3>1. \/ \A i \in DOMAIN parts : parts[i].error = "-"
          \/ \E i \in DOMAIN parts : g = NotRead(parts[i].error, ends[i])
      BY <2>2, <2>4, OutcomeOf
    <3> QED  BY <2>2, <2>3, <3>1
  <2>6. g.kind = "error" /\ g.start = pos /\ g.ram = {} /\ g.next = ends[1] /\ g.error = "DecoderUnsupported"
    BY <2>5 DEF NotRead, NothingRead
  <2>7. w.comp = "Brotli" /\ ~ tune.brotli
    BY <1>1, <1>4, <1>17 DEF DecoderSupported, ModeFlag
  <2>8. g.next \in 0 .. Len(file)
    BY <1>12, <2>6
  <2> QED  BY <1>2, <1>15, <2>6, <2>7, <2>8 DEF ReadOf, Justified
<1> QED  BY <1>16, <1>17

-----------------------------------------------------------------------------
(* The reader's invariant *)

\* The offsets at which a read may begin: a head, or the end of the file.
LEMMA PlaceFacts ==
  ASSUME FInv, NEW p \in Places
  PROVE  /\ p \in Nat /\ p <= Len(file) /\ Len(file) \in Nat
         /\ p = Len(file) \/ (p < Len(file) /\ file[p + 1].b = "head")
         /\ p # Len(file) =>
              \/ file[p + 1].head.type = TypeFlag.Reserved
              \/ \E w \in written : w.start = p
<1>1. TypeInv /\ WorkInv
  BY DEF FInv
<1>2. /\ Len(file) \in Nat /\ End \in Nat /\ End <= Len(file) /\ cur.start \in Nat
  BY <1>1, Work, Ends
<1>3. CASE p = End
  <2>1. CASE wpc = "idle"
    <3>1. p = Len(file)
      BY <1>3, <2>1 DEF End
    <3> QED  BY <1>2, <3>1
  <2>2. CASE wpc # "idle"
    <3>1. p = cur.start /\ p + 1 <= Len(file) /\ file[p + 1] = HeadCell(V2_RESERVE_HEAD)
      BY <1>1, <1>3, <2>2 DEF End, WorkInv
    <3>2. p \in Nat /\ p < Len(file)
      BY <1>2, <3>1
    <3>3. file[p + 1].b = "head" /\ file[p + 1].head.type = TypeFlag.Reserved
      <4>1. V2_RESERVE_HEAD.type = TypeFlag.Reserved
        BY DEF V2_RESERVE_HEAD, NoHead
      <4>2. HeadCell(V2_RESERVE_HEAD).b = "head" /\ HeadCell(V2_RESERVE_HEAD).head = V2_RESERVE_HEAD
        BY DEF HeadCell
      <4> QED  BY <3>1, <4>1, <4>2
    <3> QED  BY <1>2, <3>2, <3>3
  <2> QED  BY <2>1, <2>2
<1>4. CASE p # End
  <2>1. PICK w \in written : w.start = p
    BY <1>4 DEF Places
  <2>2. /\ RecordAt(w) /\ p \in Nat
        /\ p + 1 + file[p + 1].head.len <= Len(file) /\ file[p + 1].head.len \in Nat
    BY <2>1, RecordFacts
  <2>3. file[p + 1].b = "head"
    BY <2>1, <2>2 DEF RecordAt
  <2>4. p < Len(file)
    BY <1>2, <2>2
  <2> QED  BY <1>2, <2>1, <2>2, <2>3, <2>4
<1> QED  BY <1>3, <1>4

\* The reader stands at such an offset until an error, and what it got last is what
\* the record there gives.
GotInv ==
  /\ pos \in 0 .. Len(file)
  /\ got.kind # "error" => pos \in Places
  /\ got.kind \in {"none", "record", "error"} /\ got.ram \subseteq {"req_b", "res_b"}
  /\ got.kind = "record" =>
       /\ \E w \in written : w.start = got.start /\ w.rec = got.rec
       /\ BodiesFit(got.rec, got.ram)
  /\ got.kind = "error" => \E w \in written : w.start = got.start /\ Justified(w, got.error)

LEMMA GotInit ==
  ASSUME Init
  PROVE  GotInv
<1>1. file = << >> /\ Len(file) = 0 /\ wpc = "idle" /\ pos = 0 /\ got = NothingRead
  BY DEF Init
<1>2. End = 0
  BY <1>1 DEF End
<1>3. 0 \in Places
  BY <1>2 DEF Places
<1>4. pos \in 0 .. Len(file)
  BY <1>1
<1> QED  BY <1>1, <1>3, <1>4 DEF GotInv, NothingRead

\* The file only grows.
LEMMA FileGrows ==
  ASSUME FInv, Writing
  PROVE  Len(file) \in Nat /\ Len(file') \in Nat /\ Len(file) <= Len(file')
<1>1. TypeInv /\ IsSeq(file) /\ Len(file) \in Nat
  BY Work DEF FInv, TypeInv
<1>2. ASSUME NEW s, IsSeq(s)
      PROVE  Len(file) <= Len(file \o s) /\ Len(file \o s) \in Nat
  <2>1. Len(s) \in Nat /\ Len(file \o s) = Len(file) + Len(s)
    BY <1>1, <1>2, Extended
  <2> QED  BY <1>1, <2>1
<1>3. ASSUME NEW rec \in Records, NEW strategy \in Strategies, StartWrite(rec, strategy)
      PROVE  Len(file') \in Nat /\ Len(file) <= Len(file')
  <2>1. PICK c : file' = Append(file, c)
    BY <1>3 DEF StartWrite
  <2>2. Len(Append(file, c)) = Len(file) + 1
    BY <1>1, Appended
  <2> QED  BY <1>1, <2>1, <2>2
<1>4. ASSUME NEW b \in Blocks, WriteBlock(b)
      PROVE  Len(file') \in Nat /\ Len(file) <= Len(file')
  <2>1. file' = file \/ file' = file \o Cells(cur.rec, cur.comp, b)
    BY <1>4 DEF WriteBlock, Cells
  <2>2. IsSeq(Cells(cur.rec, cur.comp, b))
    BY <1>1, Work, BlockSeq
  <2>3. PICK s : s = Cells(cur.rec, cur.comp, b)
    OBVIOUS
  <2>4. Len(file) <= Len(file \o s) /\ Len(file \o s) \in Nat
    BY <1>2, <2>2, <2>3
  <2> QED  BY <1>1, <2>1, <2>3, <2>4
<1>5. ASSUME Finish
      PROVE  Len(file') \in Nat /\ Len(file) <= Len(file')
  <2>1. CASE file' = file
    BY <1>1, <2>1
  <2>2. CASE file' # file
    <3>1. PICK n \in 1 .. MaxZ :
            file' = file \o [i \in 1 .. n |-> ZCell(IF i = 1 THEN cur.out ELSE << >>)]
      BY <1>5, <2>2 DEF Finish
    <3>2. PICK s : s = [i \in 1 .. n |-> ZCell(IF i = 1 THEN cur.out ELSE << >>)]
      OBVIOUS
    <3>3. n \in Nat /\ s = [i \in 1 .. n |-> s[i]]
      BY <3>2, RecordAssumption
    <3>4. IsSeq(s)
      BY <3>3, Listed
    <3>5. Len(file) <= Len(file \o s) /\ Len(file \o s) \in Nat
      BY <1>2, <3>4
    <3> QED  BY <3>1, <3>2, <3>5
  <2> QED  BY <2>1, <2>2
<1>6. CASE CommitHead
  BY <1>1, <1>6, CommitHeadStep
<1>7. CASE RefuseHead
  BY <1>1, <1>7 DEF RefuseHead
<1> QED  BY <1>1, <1>3, <1>4, <1>5, <1>6, <1>7 DEF Writing

LEMMA GotWriting ==
  ASSUME FInv, GotInv, Writing
  PROVE  GotInv'
<1>1. /\ Places \subseteq Places' /\ written \subseteq written'
      /\ tune' = tune /\ pos' = pos /\ got' = got
  BY WritingStep
<1>2. pos' \in 0 .. Len(file')
  BY <1>1, FileGrows DEF GotInv
<1> QED  BY <1>1, <1>2 DEF GotInv, BodiesFit, Justified

LEMMA GotReading ==
  ASSUME FInv, GotInv, Reading \/ UNCHANGED vars
  PROVE  GotInv'
<1>1. /\ FInv' /\ Places' = Places /\ written' = written /\ tune' = tune /\ file' = file
  BY ReadingStep
<1>2. CASE ReadRecord
  <2>1. /\ pos < Len(file) /\ pos \in Places /\ HeadAtPos.type # TypeFlag.Reserved
        /\ pos' = got'.next
    BY <1>2 DEF ReadRecord, GotInv
  <2>2. PICK w \in written : w.start = pos
    <3>1. pos # Len(file)
      BY <2>1, PlaceFacts
    <3> QED  BY <2>1, <3>1, PlaceFacts DEF HeadAtPos
  <2>3. /\ HeadAtPos.type = TypeFlag.Dialog /\ HeadAtPos.comp = ModeFlag[w.comp]
        /\ w.comp \in {"Plain", "Gzip", "Brotli"}
    BY <2>2, RecordFacts DEF RecordAt, HeadAtPos
  <2>4. ReadOf(w, got')
    <3>1. CASE w.comp = "Plain"
      <4>1. got' = read_plain(HeadAtPos)
        BY <1>2, <2>3, <3>1 DEF ReadRecord, ModeFlag
      <4> QED  BY <2>2, <3>1, <4>1, ReadPlain
    <3>2. CASE w.comp # "Plain"
      <4>1. got' = read_compressed(HeadAtPos)
        BY <1>2, <2>3, <3>2 DEF ReadRecord, ModeFlag
      <4> QED  BY <2>2, <3>2, <4>1, ReadCompressed
    <3> QED  BY <3>1, <3>2
  <2>5. CASE got'.kind = "record"
    <3>1. /\ got'.start = pos /\ w.start = pos
          /\ got'.rec = w.rec /\ got'.next \in Places /\ BodiesFit(w.rec, got'.ram)
      BY <2>4, <2>5 DEF ReadOf
    <3>2. pos' \in Places' /\ pos' \in 0 .. Len(file')
      BY <1>1, <2>1, <3>1, PlaceFacts
    <3>3. w \in written' /\ w.start = got'.start /\ w.rec = got'.rec
      BY <1>1, <3>1
    <3>4. BodiesFit(got.rec, got.ram)'
      BY <1>1, <3>1 DEF BodiesFit
    <3>5. got'.ram \subseteq {"req_b", "res_b"}
      BY <3>1 DEF BodiesFit
    <3> QED  BY <2>5, <3>2, <3>3, <3>4, <3>5 DEF GotInv
  <2>6. CASE got'.kind = "error"
    <3>1. /\ got'.start = pos /\ w.start = pos
          /\ got'.next \in 0 .. Len(file) /\ got'.ram = {} /\ Justified(w, got'.error)
      BY <2>4, <2>6 DEF ReadOf
    <3>2. pos' \in 0 .. Len(file')
      BY <1>1, <2>1, <3>1
    <3>3. w \in written' /\ w.start = got'.start /\ Justified(w, got.error)'
      BY <1>1, <3>1 DEF Justified
    <3> QED  BY <2>6, <3>1, <3>2, <3>3 DEF GotInv
  <2> QED  BY <2>4, <2>5, <2>6 DEF ReadOf
<1>3. CASE ReadNone
  <2>1. got'.kind = "none" /\ got'.ram = {} /\ pos' = pos /\ pos \in Places
    BY <1>3 DEF ReadNone, NothingRead, GotInv
  <2> QED  BY <1>1, <2>1 DEF GotInv
<1>4. ASSUME NEW w \in written, Seek(w.start)
      PROVE  GotInv'
  <2>1. got'.kind = "none" /\ got'.ram = {} /\ pos' = w.start
    BY <1>4 DEF Seek, NothingRead
  <2>2. w.start \in Places
    BY DEF Places
  <2>3. pos' \in 0 .. Len(file)
    BY <2>1, <2>2, PlaceFacts
  <2> QED  BY <1>1, <2>1, <2>2, <2>3 DEF GotInv
<1>5. CASE UNCHANGED vars
  <2>1. pos' = pos /\ got' = got
    BY <1>5 DEF vars
  <2> QED  BY <1>1, <2>1 DEF GotInv, BodiesFit, Justified
<1> QED  BY <1>2, <1>3, <1>4, <1>5 DEF Reading

\* FInv and GotInv together are inductive.
LEMMA Inductive == Spec => [](FInv /\ GotInv)
<1>1. Init => FInv /\ GotInv
  BY FInvInit, GotInit
<1>2. FInv /\ GotInv /\ [Next]_vars => (FInv /\ GotInv)'
  BY NextSteps, WritingStep, ReadingStep, GotWriting, GotReading
<1> QED  BY <1>1, <1>2, PTL DEF Spec

\* For any records, strategies and limits, and any reader: what read() returns at an
\* offset is what the write that returned that offset was given, and the reader then
\* stands at the next head or at the end of the file.
THEOREM ReadsBackWhatWasWritten == Spec => []RoundTrip
<1>1. FInv /\ GotInv => RoundTrip
  <2> SUFFICES ASSUME FInv, GotInv, got.kind = "record" PROVE RoundTrip
    BY DEF RoundTrip
  <2>1. pos \in Places
    BY DEF GotInv
  <2>2. pos = Len(file) \/ (pos < Len(file) /\ file[pos + 1].b = "head")
    BY <2>1, PlaceFacts
  <2> QED  BY <2>2 DEF RoundTrip, GotInv
<1> QED  BY <1>1, Inductive, PTL

\* read() fails only at a record that was written, and only for a limit of the reader
\* that the record exceeds; no assertion of the reader fails.
THEOREM ReadErrorsJustified == Spec => []ErrorsJustified
<1>1. FInv /\ GotInv => ErrorsJustified
  BY DEF GotInv, Justified, ErrorsJustified
<1> QED  BY <1>1, Inductive, PTL

\* max_body_ram bounds what read() takes into RAM, whichever of the three rules
\* decides it.
THEOREM RamBounded == Spec => []RamBodiesFit
<1>1. FInv /\ GotInv => RamBodiesFit
  BY DEF GotInv, BodiesFit, RamBodiesFit
<1> QED  BY <1>1, Inductive, PTL

\* A write panics only for a record that is over a limit: in particular the length
\* that was counted block by block is the length by the file's end.
THEOREM PanicsJustified == Spec => []PanicsOnlyOverLimit
<1>1. FInv /\ GotInv => PanicsOnlyOverLimit
  BY DEF FInv
<1> QED  BY <1>1, Inductive, PTL

-----------------------------------------------------------------------------
(* What the choice of the compression comes to *)

ChosenInv == wpc \in Blocks => cur.comp = wrap_encoder(cur.rec, cur.strategy)

\* The count may stop at any of its stages without changing the answer, because every
\* stage only adds to it.
LEMMA StagesAgree ==
  ASSUME NEW rec \in RecType, NEW strategy \in StrategyType
  PROVE  LET text(b) == Len(Lines(rec[b]))
             bytes == BodiesLen(rec, strategy) + text("meta") + text("req_h") + text("res_h")
         IN is_compressible(rec, strategy) <=> bytes >= MinLen(rec, strategy)
<1>1. \A b \in {"meta", "req_h", "res_h"} :
        /\ len_of_headers(rec[b]) \in Nat
        /\ Len(Lines(rec[b])) = len_of_headers(rec[b])
  <2> SUFFICES ASSUME NEW b \in {"meta", "req_h", "res_h"}
               PROVE  /\ len_of_headers(rec[b]) \in Nat
                      /\ Len(Lines(rec[b])) = len_of_headers(rec[b])
    OBVIOUS
  <2>1. rec[b] \in HeaderMap
    BY DEF RecType
  <2>2. Len(rec[b]) \in Nat /\ Len(Lines(rec[b])) = LineLen * Len(rec[b])
    BY <2>1, LinesOf
  <2>3. LineLen * Len(rec[b]) \in Nat
    BY <2>2, LineArithmetic
  <2> QED  BY <2>2, <2>3 DEF len_of_headers, LineLen
<1>2. Len(rec.req_b) \in Nat /\ Len(rec.res_b) \in Nat /\ strategy.min_len \in Nat /\ strategy.coef2 \in Nat
  BY DEF RecType, StrategyType, Body
<1>3. BodiesLen(rec, strategy) \in Nat
  <2>1. PICK x \in Nat : x = IF ResCompressible(rec, strategy) THEN Len(rec.res_b) ELSE 0
    BY <1>2
  <2>2. PICK y \in Nat : y = IF ReqCompressible(rec) THEN Len(rec.req_b) ELSE 0
    BY <1>2
  <2>3. BodiesLen(rec, strategy) = x + y
    BY <2>1, <2>2, Zenon DEF BodiesLen
  <2> QED  BY <2>3
<1>4. MinLen(rec, strategy) \in Int
  <2>1. \A n \in Nat : Discount(n, strategy) \in Int
    BY <1>2 DEF Discount
  <2>2. Discount(Len(rec.res_b), strategy) \in Int /\ Discount(Len(rec.req_b), strategy) \in Int
    BY <1>2, <2>1
  <2>3. PICK x \in Int : x = IF ResCompressible(rec, strategy) THEN 0
                             ELSE Discount(Len(rec.res_b), strategy)
    BY <2>2
  <2>4. PICK y \in Int : y = IF ReqCompressible(rec) THEN 0
                             ELSE Discount(Len(rec.req_b), strategy)
    BY <2>2
  <2>5. MinLen(rec, strategy) = strategy.min_len + x + y
    BY <2>3, <2>4, Zenon DEF MinLen
  <2> QED  BY <1>2, <2>5
<1>5. PICK a \in Nat, q \in Nat, r \in Nat, m \in Nat, min \in Int :
           /\ a = BodiesLen(rec, strategy) /\ min = MinLen(rec, strategy)
           /\ q = len_of_headers(rec.req_h) /\ r = len_of_headers(rec.res_h)
           /\ m = len_of_headers(rec.meta)
  BY <1>1, <1>3, <1>4
<1>6. is_compressible(rec, strategy) <=>
        a >= min \/ a + r >= min \/ a + r + q >= min \/ a + r + q + m >= min
  BY <1>5 DEF is_compressible
<1>7. a >= min \/ a + r >= min \/ a + r + q >= min \/ a + r + q + m >= min
        <=> a + m + q + r >= min
  OBVIOUS
<1> QED  BY <1>1, <1>5, <1>6, <1>7

\* A record is compressed if and only if it has at least min_len compressible bytes,
\* as the doc of is_compressible says, whichever stage of the count decided it.
THEOREM CompressionAsDocumented == Spec => []CompressedIfWorth
<1>1. Init => ChosenInv
  BY BlockNames DEF Init, ChosenInv
<1>2. FInv /\ ChosenInv /\ [Next]_vars => ChosenInv'
  <2> SUFFICES ASSUME FInv, ChosenInv, [Next]_vars PROVE ChosenInv'
    OBVIOUS
  <2>1. ASSUME NEW rec \in Records, NEW strategy \in Strategies, StartWrite(rec, strategy)
        PROVE  ChosenInv'
    <3>1. cur' = [NoWork EXCEPT !.rec = rec, !.strategy = strategy, !.start = Len(file),
                    !.comp = wrap_encoder(rec, strategy),
                    !.head = [NoHead EXCEPT !.type = TypeFlag.Dialog]]
      BY <2>1 DEF StartWrite
    <3>2. cur'.rec = rec /\ cur'.strategy = strategy /\ cur'.comp = wrap_encoder(rec, strategy)
      BY <3>1 DEF NoWork
    <3> QED  BY <3>2 DEF ChosenInv, wrap_encoder, is_compressible
  <2>2. ASSUME NEW b \in Blocks, WriteBlock(b)
        PROVE  ChosenInv'
    <3>1. wpc = b
      BY <2>2 DEF WriteBlock
    <3>2. CASE RecordTooLong(b)
      BY <2>2, <3>2, BlockNames DEF WriteBlock, ChosenInv
    <3>3. CASE ~ RecordTooLong(b)
      <4>1. cur'.rec = cur.rec /\ cur'.strategy = cur.strategy /\ cur'.comp = cur.comp
        BY <2>2, <3>3, WorkOn DEF FInv
      <4> QED  BY <3>1, <4>1 DEF ChosenInv, wrap_encoder, is_compressible
    <3> QED  BY <3>2, <3>3
  <2>3. CASE Finish \/ CommitHead \/ RefuseHead
    BY <2>3, BlockNames DEF Finish, CommitHead, RefuseHead, ChosenInv
  <2>4. CASE Reading \/ UNCHANGED vars
    BY <2>4 DEF Reading, ReadRecord, ReadNone, Seek, vars, ChosenInv
  <2> QED  BY <2>1, <2>2, <2>3, <2>4, NextSteps DEF Writing
<1>3. FInv /\ ChosenInv => CompressedIfWorth
  <2> SUFFICES ASSUME FInv, ChosenInv, wpc \in Blocks
               PROVE  CompressedIfWorth
    BY DEF CompressedIfWorth
  <2> DEFINE text(b) == Len(Lines(cur.rec[b]))
             bytes == BodiesLen(cur.rec, cur.strategy) + text("meta") + text("req_h") + text("res_h")
  <2>1. cur.rec \in RecType /\ cur.strategy \in StrategyType
    <3>1. TypeInv /\ wpc # "idle"
      BY BlockNames DEF FInv
    <3> QED  BY <3>1, Work DEF TypeInv
  <2>2. is_compressible(cur.rec, cur.strategy) <=> bytes >= MinLen(cur.rec, cur.strategy)
    BY <2>1, StagesAgree
  <2>3. cur.comp = wrap_encoder(cur.rec, cur.strategy)
    BY DEF ChosenInv
  <2>4. cur.comp = (IF bytes >= MinLen(cur.rec, cur.strategy) THEN cur.strategy.mode ELSE "Plain")
    <3> HIDE DEF bytes
    <3> QED  BY <2>2, <2>3 DEF wrap_encoder
  <2> QED  BY <2>4 DEF CompressedIfWorth
<1> QED  BY <1>1, <1>2, <1>3, Inductive, PTL DEF Spec

-----------------------------------------------------------------------------
(* Type correctness *)

\* Only a record head carries the fields of a head.
CellOK(c) == c.b \in {"head", "text", "cr", "lf", "z"} \/ c.head = NoHead

CellsInv == \A i \in 1 .. Len(file) : CellOK(file[i])

LEMMA PaddedCells ==
  ASSUME NEW block, IsSeq(block), NEW with_crlf \in BOOLEAN,
         \A i \in 1 .. Len(block) : CellOK(block[i])
  PROVE  \A i \in 1 .. Len(Padded(block, with_crlf)) : CellOK(Padded(block, with_crlf)[i])
<1>1. CASE Padded(block, with_crlf) = block
  BY <1>1
<1>2. CASE Padded(block, with_crlf) = block \o CRLF
  <2>1. PICK s : s = CRLF
    OBVIOUS
  <2>2. IsSeq(s) /\ Len(s) = 2 /\ CellOK(s[1]) /\ CellOK(s[2])
    BY <2>1, TwoCells DEF CRLF, Byte, CellOK
  <2>3. /\ Len(block) \in Nat /\ Len(block \o s) = Len(block) + Len(s)
        /\ \A i \in 1 .. Len(block) : (block \o s)[i] = block[i]
        /\ \A i \in 1 .. Len(s) : (block \o s)[Len(block) + i] = s[i]
    <3>1. IsSeq(s)
      BY <2>2
    <3> QED  BY ONLY IsSeq(block), <3>1, Extended
  <2>4. PICK t : t = block \o s
    OBVIOUS
  <2>5. /\ Len(t) = Len(block) + 2
        /\ \A i \in 1 .. Len(block) : t[i] = block[i]
        /\ t[Len(block) + 1] = s[1] /\ t[Len(block) + 2] = s[2]
    <3>1. 1 \in 1 .. Len(s) /\ 2 \in 1 .. Len(s)
      BY <2>2
    <3>2. /\ (block \o s)[Len(block) + 1] = s[1]
          /\ (block \o s)[Len(block) + 2] = s[2]
      BY <2>3, <3>1, Zenon
    <3>3. Len(block \o s) = Len(block) + 2
      BY <2>2, <2>3, Zenon
    <3> QED  BY <2>3, <2>4, <3>2, <3>3, Zenon
  <2>6. ASSUME NEW i \in 1 .. Len(t)
        PROVE  CellOK(t[i])
    <3>1. i \in 1 .. Len(block) \/ i = Len(block) + 1 \/ i = Len(block) + 2
      BY <2>3, <2>5
    <3>2. CASE i \in 1 .. Len(block)
      BY <2>5, <3>2
    <3>3. CASE i = Len(block) + 1
      BY <2>2, <2>5, <3>3
    <3>4. CASE i = Len(block) + 2
      BY <2>2, <2>5, <3>4
    <3> QED  BY <3>1, <3>2, <3>3, <3>4
  <2>7. Padded(block, with_crlf) = t
    BY <1>2, <2>1, <2>4
  <2> QED  BY <2>6, <2>7
<1> QED  BY <1>1, <1>2 DEF Padded

LEMMA BlockCells ==
  ASSUME NEW rec \in RecType, NEW comp, NEW b \in Blocks
  PROVE  \A i \in 1 .. Len(Cells(rec, comp, b)) : CellOK(Cells(rec, comp, b)[i])
<1> DEFINE with_crlf == comp = "Plain"
<1>1. with_crlf \in BOOLEAN
  OBVIOUS
<1> HIDE DEF with_crlf
<1>2. CASE b \in {"meta", "req_h", "res_h"}
  <2>1. rec[b] \in HeaderMap
    BY <1>2 DEF RecType
  <2>2. Cells(rec, comp, b) = Padded(Lines(rec[b]), with_crlf)
    BY <1>2 DEF Cells, BlockOf, HeaderBlocks, write_headers, with_crlf
  <2>3. IsSeq(Lines(rec[b])) /\ Len(Lines(rec[b])) = LineLen * Len(rec[b]) /\ Len(rec[b]) \in Nat
    BY <2>1, LinesOf
  <2>4. PICK n \in Nat, L \in Nat : n = LineLen * Len(rec[b]) /\ L = LineLen /\ L = TextLen + 2
    BY <2>3, LineArithmetic DEF LineLen
  <2>5. ASSUME NEW i \in 1 .. n
        PROVE  CellOK(Lines(rec[b])[i])
    <3>1. PICK j \in Nat : j = ((i - 1) % LineLen) + 1 /\ j >= 1 /\ j <= TextLen + 2
      BY <2>4, CompressAssumption
    <3>2. Lines(rec[b])[i] =
            IF j <= TextLen THEN TextCell(rec[b][((i - 1) \div LineLen) + 1], j) ELSE CRLF[j - TextLen]
      BY <2>4, <3>1 DEF Lines
    <3>3. CASE j <= TextLen
      <4>1. PICK h : Lines(rec[b])[i] = TextCell(h, j)
        BY <3>2, <3>3
      <4> QED  BY <4>1 DEF TextCell, CellOK
    <3>4. CASE ~ (j <= TextLen)
      <4>1. Lines(rec[b])[i] = CRLF[j - TextLen] /\ j - TextLen \in {1, 2}
        BY <3>1, <3>2, <3>4, CompressAssumption
      <4> QED  BY <4>1 DEF CRLF, Byte, CellOK
    <3> QED  BY <3>3, <3>4
  <2>6. \A i \in 1 .. Len(Lines(rec[b])) : CellOK(Lines(rec[b])[i])
    BY <2>3, <2>4, <2>5
  <2> QED  BY <1>1, <2>2, <2>3, <2>6, PaddedCells
<1>3. CASE b \in {"req_b", "res_b"}
  <2>1. rec[b] \in Body
    BY <1>3 DEF RecType
  <2>2. IsSeq(rec[b])
    BY <2>1 DEF Body, IsSeq
  <2>3. Cells(rec, comp, b) = Padded(rec[b], with_crlf)
    BY <1>3 DEF Cells, BlockOf, HeaderBlocks, write_body, with_crlf
  <2>4. \A i \in 1 .. Len(rec[b]) : CellOK(rec[b][i])
    <3>1. \A i \in 1 .. Len(rec[b]) : rec[b][i] \in {Byte(c) : c \in Bytes}
      BY <2>1 DEF Body
    <3> QED  BY <3>1 DEF Byte, CellOK
  <2> QED  BY <1>1, <2>2, <2>3, <2>4, PaddedCells
<1> QED  BY <1>2, <1>3, BlockNames

LEMMA CellsAppended ==
  ASSUME IsSeq(file), CellsInv, NEW s, IsSeq(s), file' = file \o s,
         \A i \in 1 .. Len(s) : CellOK(s[i])
  PROVE  CellsInv'
<1>1. /\ Len(file) \in Nat /\ Len(s) \in Nat /\ Len(file \o s) = Len(file) + Len(s)
      /\ \A i \in 1 .. Len(file) : (file \o s)[i] = file[i]
      /\ \A i \in 1 .. Len(s) : (file \o s)[Len(file) + i] = s[i]
  BY Extended
<1>2. PICK t : t = file \o s
  OBVIOUS
<1>3. /\ Len(t) = Len(file) + Len(s)
      /\ \A i \in 1 .. Len(file) : t[i] = file[i]
      /\ \A i \in 1 .. Len(s) : t[Len(file) + i] = s[i]
  BY <1>1, <1>2, Zenon
<1>4. ASSUME NEW i \in 1 .. Len(t)
      PROVE  CellOK(t[i])
  <2>1. CASE i \in 1 .. Len(file)
    BY <1>3, <2>1 DEF CellsInv
  <2>2. CASE i \notin 1 .. Len(file)
    <3>1. PICK j \in 1 .. Len(s) : i = Len(file) + j
      <4>1. i - Len(file) \in 1 .. Len(s) /\ i = Len(file) + (i - Len(file))
        BY <1>1, <1>3, <2>2
      <4> QED  BY <4>1
    <3> QED  BY <1>3, <3>1
  <2> QED  BY <2>1, <2>2
<1>5. file' = t
  BY <1>2
<1> QED  BY <1>4, <1>5 DEF CellsInv, CellOK

LEMMA CellsKept ==
  ASSUME FInv, CellsInv, [Next]_vars
  PROVE  CellsInv'
<1>1. TypeInv /\ IsSeq(file) /\ Len(file) \in Nat
  BY Work DEF FInv, TypeInv
<1>2. ASSUME NEW rec \in Records, NEW strategy \in Strategies, StartWrite(rec, strategy)
      PROVE  CellsInv'
  <2>1. PICK c : c = HeadCell(V2_RESERVE_HEAD)
    OBVIOUS
  <2>4. CellOK(c)
    BY <2>1 DEF HeadCell, CellOK
  <2>2. file' = Append(file, c)
    BY <1>2, <2>1 DEF StartWrite
  <2>3. /\ Len(Append(file, c)) = Len(file) + 1
        /\ \A i \in 1 .. Len(file) : Append(file, c)[i] = file[i]
        /\ Append(file, c)[Len(file) + 1] = c
    BY <1>1, Appended
  <2> QED  BY <1>1, <2>2, <2>3, <2>4 DEF CellsInv, CellOK
<1>3. ASSUME NEW b \in Blocks, WriteBlock(b)
      PROVE  CellsInv'
  <2>1. PICK s : s = Cells(cur.rec, cur.comp, b)
    OBVIOUS
  <2>2. file' = file \/ file' = file \o s
    BY <1>3, <2>1 DEF WriteBlock, Cells
  <2>3. IsSeq(s) /\ \A i \in 1 .. Len(s) : CellOK(s[i])
    BY <1>1, <2>1, Work, BlockSeq, BlockCells
  <2>4. CASE file' = file
    BY <2>4 DEF CellsInv, CellOK
  <2>5. CASE file' = file \o s
    BY <1>1, <2>3, <2>5, CellsAppended
  <2> QED  BY <2>2, <2>4, <2>5
<1>4. CASE Finish
  <2>1. CASE file' = file
    BY <2>1 DEF CellsInv, CellOK
  <2>2. CASE file' # file
    <3>1. PICK n \in 1 .. MaxZ :
            file' = file \o [i \in 1 .. n |-> ZCell(IF i = 1 THEN cur.out ELSE << >>)]
      BY <1>4, <2>2 DEF Finish
    <3>2. PICK s : s = [i \in 1 .. n |-> ZCell(IF i = 1 THEN cur.out ELSE << >>)]
      OBVIOUS
    <3>3. /\ n \in Nat /\ s = [i \in 1 .. n |-> s[i]]
          /\ \A i \in 1 .. n : CellOK(s[i])
      BY <3>2, RecordAssumption DEF ZCell, CellOK
    <3>4. IsSeq(s) /\ Len(s) = n
      BY <3>3, Listed
    <3>5. file' = file \o s
      BY <3>1, <3>2
    <3> QED  BY <1>1, <3>3, <3>4, <3>5, CellsAppended
  <2> QED  BY <2>1, <2>2
<1>5. CASE CommitHead
  <2>1. PICK k, h : file' = [file EXCEPT ![k] = HeadCell(h)]
    BY <1>5 DEF CommitHead
  <2>2. Len(file') = Len(file)
    BY <1>5, CommitHeadStep
  <2>3. \A i \in 1 .. Len(file) : file'[i] = file[i] \/ file'[i] = HeadCell(h)
    <3>1. PICK S : file \in Seq(S)
      BY <1>1 DEF IsSeq
    <3> QED  BY <2>1, <3>1
  <2>4. CellOK(HeadCell(h))
    BY DEF HeadCell, CellOK
  <2>5. \A i \in 1 .. Len(file) : CellOK(file'[i])
    BY <2>3, <2>4 DEF CellsInv
  <2> QED  BY <2>2, <2>5 DEF CellsInv, CellOK
<1>6. CASE RefuseHead \/ Reading \/ UNCHANGED vars
  <2>1. file' = file
    BY <1>6 DEF RefuseHead, Reading, ReadRecord, ReadNone, Seek, vars
  <2> QED  BY <2>1 DEF CellsInv, CellOK
<1> QED  BY <1>2, <1>3, <1>4, <1>5, <1>6, NextSteps DEF Writing

\* Every reachable state is well typed; in particular the reader never leaves the
\* file, whatever errors it meets.
THEOREM TypeCorrect == Spec => []TypeOK
<1>1. Init => CellsInv
  <2>1. Len(<< >>) = 0
    OBVIOUS
  <2> QED  BY <2>1 DEF Init, CellsInv
<1>2. FInv /\ CellsInv /\ [Next]_vars => CellsInv'
  BY CellsKept
<1>3. FInv /\ GotInv /\ CellsInv => TypeOK
  <2> SUFFICES ASSUME FInv, GotInv, CellsInv PROVE TypeOK
    OBVIOUS
  <2>1. TypeInv /\ IsSeq(file)
    BY DEF FInv, TypeInv
  <2>2. DOMAIN file = 1 .. Len(file)
    BY <2>1 DEF IsSeq
  <2>3. \A i \in DOMAIN file : file[i].b \in {"head", "text", "cr", "lf", "z"} \/ file[i].head = NoHead
    BY <2>2 DEF CellsInv, CellOK
  <2>4. cur.rec \in Records \cup {NoRecord} /\ cur.comp \in DOMAIN ModeFlag
    <3>1. NoWork.rec = NoRecord
      BY DEF NoWork
    <3> QED  BY <2>1, <3>1, Work DEF TypeInv
  <2>5. \A w \in written : w.rec \in Records /\ w.strategy \in Strategies
    BY <2>1 DEF TypeInv
  <2>6. wpc \in Blocks \cup {"idle", "finish", "head", "panic"} /\ tune \in Tunes
    BY <2>1 DEF TypeInv
  <2>7. /\ pos \in 0 .. Len(file)
        /\ got.kind \in {"none", "record", "error"} /\ got.ram \subseteq {"req_b", "res_b"}
    BY DEF GotInv
  <2> QED  BY <2>3, <2>4, <2>5, <2>6, <2>7 DEF TypeOK
<1> QED  BY <1>1, <1>2, <1>3, Inductive, PTL DEF Spec

=============================================================================
