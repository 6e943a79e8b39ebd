--------------------------- MODULE BodyImageProofs --------------------------
(* Theorems about BodyImage, for any number of clones and readers, any        *)
(* buffers and any length.                                                   *)
EXTENDS BodyImage, SequenceTheorems, FiniteSetTheorems, TLAPS

-----------------------------------------------------------------------------
(* The invariant under all faults: what the sink and each image keep.          *)

\* The types that the invariant needs.
Typed ==
  /\ skind \in {"Ram", "FsWrite", "gone"}
  /\ slen \in Nat
  /\ ram \in Seq(Nat)
  /\ disk \in Seq(Nat)
  /\ offered \in Nat
  /\ image \in [Images -> Image]
  /\ cuts \in SUBSET Nat

\* The image holds what its kind says.  Only a file can hold more than len.
Keeps(m) ==
  /\ m.kind = "Ram" => Len(m.mem) = m.len
  /\ m.kind = "FsRead" => m.len > 0 /\ m.len <= Len(disk)
  /\ m.kind = "MemMap" => m.len <= Len(m.mem)

KeepInv ==
  /\ Typed
  /\ skind = "Ram" => slen = Len(ram)
  /\ skind = "FsWrite" => slen <= Len(disk)
  /\ skind # "gone" => \A i \in Images : image[i].kind = "none"
  /\ \A i \in Images : Keeps(image[i])

LEMMA FreshSeq ==
  ASSUME offered \in Nat, NEW n \in Nat
  PROVE  Fresh(n) \in Seq(Nat) /\ Len(Fresh(n)) = n
<1>1. Fresh(n) \in [1 .. n -> Nat]
  BY DEF Fresh
<1>2. Fresh(n) \in Seq(Nat)
  BY <1>1, SeqDef
<1> QED  BY <1>1, <1>2

LEMMA KeepInit == Init => KeepInv
<1>1. NoImage \in Image /\ NoImage.kind = "none" /\ NoImage.len = 0
  BY DEF NoImage, Image
<1> QED
  BY <1>1 DEF Init, KeepInv, Typed, Keeps

LEMMA SubSeqOfSeq ==
  ASSUME NEW s \in Seq(Nat), NEW a \in Nat, NEW b \in Nat, 1 <= a, b <= Len(s)
  PROVE  /\ SubSeq(s, a, b) \in Seq(Nat)
         /\ Len(SubSeq(s, a, b)) = IF a <= b THEN b - a + 1 ELSE 0
         /\ \A j \in 1 .. b - a + 1 : SubSeq(s, a, b)[j] = s[a + j - 1]
<1>1. \A j \in a .. b : s[j] \in Nat
  OBVIOUS
<1> QED  BY <1>1, SubSeqProperties

LEMMA KeepNext ==
  ASSUME KeepInv, [Next]_vars
  PROVE  KeepInv'
<1>a. /\ Typed
      /\ Len(ram) \in Nat /\ Len(disk) \in Nat
      /\ \A i \in Images : image[i] \in Image /\ Keeps(image[i])
      /\ \A i \in Images : image[i].len \in Nat /\ image[i].mem \in Seq(Nat)
                           /\ Len(image[i].mem) \in Nat
      /\ \A i \in Images : image[i].kind \in {"none", "Ram", "FsRead", "MemMap"}
  BY DEF KeepInv, Typed, Image
<1>1. CASE Push
  <2>1. PICK n \in 1 .. MaxLen :
        /\ offered' = offered + n
        /\ slen' = slen + n
        /\ IF skind = "Ram"
           THEN ram' = ram \o Fresh(n) /\ cuts' = cuts \cup {Len(ram) + n} /\ disk' = disk
           ELSE disk' = disk \o Fresh(n) /\ ram' = ram /\ cuts' = cuts
    BY <1>1 DEF Push
  <2>2. /\ n \in Nat /\ Fresh(n) \in Seq(Nat) /\ Len(Fresh(n)) = n
    BY <1>a, <2>1, BodyAssumption, FreshSeq DEF Typed
  <2>3. skind # "gone" /\ skind' = skind /\ image' = image
    BY <1>1 DEF Push
  <2>4. slen' \in Nat /\ offered' \in Nat
    BY <1>a, <2>1, <2>2 DEF Typed
  <2>5. CASE skind = "Ram"
    <3>1. ram' \in Seq(Nat) /\ Len(ram') = Len(ram) + n
      <4>1. ram' = ram \o Fresh(n) /\ ram \in Seq(Nat)
        BY <2>1, <2>5, <1>a DEF Typed
      <4>2. ram \o Fresh(n) \in Seq(Nat) /\ Len(ram \o Fresh(n)) = Len(ram) + Len(Fresh(n))
        BY <4>1, <2>2, ConcatProperties
      <4> QED  BY <4>1, <4>2, <2>2
    <3>2. cuts' \in SUBSET Nat
      <4>1. cuts' = cuts \cup {Len(ram) + n} /\ Len(ram) + n \in Nat
        BY <2>1, <2>2, <2>5, <1>a
      <4> QED  BY <4>1, <1>a DEF Typed
    <3>3. disk' = disk /\ slen' = Len(ram')
      BY <2>1, <2>5, <3>1 DEF KeepInv
    <3>4. Typed'
      BY <1>a, <2>3, <2>4, <3>1, <3>2, <3>3 DEF Typed
    <3> QED  BY <2>3, <2>5, <3>3, <3>4 DEF KeepInv, Keeps
  <2>6. CASE skind = "FsWrite"
    <3>1. disk' \in Seq(Nat) /\ Len(disk') = Len(disk) + n
      <4>1. disk' = disk \o Fresh(n) /\ disk \in Seq(Nat)
        BY <2>1, <2>6, <1>a DEF Typed
      <4>2. disk \o Fresh(n) \in Seq(Nat) /\ Len(disk \o Fresh(n)) = Len(disk) + Len(Fresh(n))
        BY <4>1, <2>2, ConcatProperties
      <4> QED  BY <4>1, <4>2, <2>2
    <3>2. Typed'
      BY <1>a, <2>1, <2>3, <2>4, <2>6, <3>1 DEF Typed
    <3>3. slen' <= Len(disk')
      BY <1>a, <2>1, <2>2, <2>6, <3>1 DEF KeepInv, Typed
    <3>4. \A i \in Images : Keeps(image[i])'
      BY <2>3, <1>a, <2>2, <3>1 DEF Keeps
    <3> QED  BY <2>3, <2>6, <3>2, <3>3, <3>4 DEF KeepInv
  <2> QED  BY <2>3, <2>5, <2>6, <1>a DEF Typed
<1>2. CASE PushFails
  <2>1. PICK n \in 1 .. MaxLen : \E k \in 0 .. n - 1 :
        /\ offered' = offered + n
        /\ disk' = disk \o SubSeq(Fresh(n), 1, k)
    BY <1>2 DEF PushFails
  <2>2. PICK k \in 0 .. n - 1 :
        /\ offered' = offered + n
        /\ disk' = disk \o SubSeq(Fresh(n), 1, k)
    BY <2>1
  <2>3. /\ n \in Nat /\ Fresh(n) \in Seq(Nat) /\ Len(Fresh(n)) = n
        /\ k \in Nat /\ k <= n
    BY <1>a, <2>1, BodyAssumption, FreshSeq DEF Typed
  <2>4. SubSeq(Fresh(n), 1, k) \in Seq(Nat)
    BY <2>3, SubSeqOfSeq
  <2> HIDE DEF Fresh
  <2>5. disk' \in Seq(Nat) /\ Len(disk') >= Len(disk) /\ Len(disk') \in Nat
    BY <2>2, <2>4, <1>a DEF Typed
  <2>6. skind = "FsWrite" /\ UNCHANGED <<skind, slen, ram, cuts, image>>
    BY <1>2 DEF PushFails
  <2>7. Typed'
    BY <1>a, <2>2, <2>3, <2>5, <2>6 DEF Typed
  <2> QED  BY <1>a, <2>5, <2>6, <2>7 DEF KeepInv, Typed, Keeps
<1>3. CASE WriteBack
  <2>1. /\ skind = "Ram" /\ skind' = "FsWrite" /\ disk' = ram /\ ram' = << >>
        /\ cuts' = {} /\ UNCHANGED <<slen, offered, image>>
    BY <1>3 DEF WriteBack
  <2>2. Typed'
    BY <1>a, <2>1 DEF Typed
  <2> QED  BY <1>a, <2>1, <2>2 DEF KeepInv, Typed, Keeps
<1>4. CASE WriteBackFails
  <2>1. /\ skind = "Ram" /\ ram' = << >> /\ slen' = 0 /\ cuts' = {}
        /\ UNCHANGED <<skind, disk, offered, image>>
    BY <1>4 DEF WriteBackFails, LenAfterCut
  <2>2. Typed'
    BY <1>a, <2>1 DEF Typed
  <2> QED  BY <1>a, <2>1, <2>2 DEF KeepInv, Typed, Keeps
<1>5. CASE Prepare
  <2> DEFINE new == IF skind = "Ram"
                    THEN [kind |-> "Ram", len |-> slen, mem |-> ram, cuts |-> cuts]
                    ELSE FileImage
  <2>1. PICK i \in Images : image' = [image EXCEPT ![i] = new]
    BY <1>5 DEF Prepare
  <2>2. skind' = "gone" /\ skind # "gone" /\ UNCHANGED <<slen, ram, cuts, disk, offered>>
    BY <1>5 DEF Prepare
  <2>3. CASE skind = "Ram"
    <3>1. new = [kind |-> "Ram", len |-> slen, mem |-> ram, cuts |-> cuts]
      BY <2>3
    <3> QED  BY <1>a, <2>1, <2>2, <2>3, <3>1 DEF Image, Keeps, KeepInv, Typed
  <2>4. CASE skind = "FsWrite"
    <3>1. FileImage \in Image /\ Keeps(FileImage) /\ new = FileImage
      BY <1>a, <2>4 DEF FileImage, EmptyImage, Image, Keeps, KeepInv, Typed
    <3>2. UNCHANGED disk
      BY <2>2
    <3> HIDE DEF new
    <3> QED  BY <1>a, <2>1, <2>2, <2>4, <3>1, <3>2 DEF Keeps, KeepInv, Typed
  <2> QED  BY <2>2, <2>3, <2>4, <1>a DEF Typed
<1>6. CASE PrepareFails
  <2>1. skind = "FsWrite" /\ skind' = "gone"
        /\ UNCHANGED <<slen, ram, cuts, disk, offered, image>>
    BY <1>6 DEF PrepareFails
  <2> QED  BY <1>a, <2>1 DEF KeepInv, Typed, Keeps
<1>7. ASSUME NEW i \in Images, NEW new \in Image, Keeps(new), skind = "gone",
             image' = [image EXCEPT ![i] = new], UNCHANGED sinkVars
      PROVE  KeepInv'
  BY <1>a, <1>7 DEF sinkVars, KeepInv, Typed, Keeps
<1>8. ASSUME NEW i \in Images, image[i].kind # "none"
      PROVE  skind = "gone"
  BY <1>8 DEF KeepInv
<1>9. ASSUME NEW i \in Images, Clone(i)
      PROVE  KeepInv'
  <2>1. PICK j \in Images : image' = [image EXCEPT ![j] = image[i]]
    BY <1>9 DEF Clone
  <2> QED  BY <1>a, <1>7, <1>8, <1>9, <2>1 DEF Clone, Live
<1>10. ASSUME NEW i \in Images, Gather(i)
       PROVE  KeepInv'
  <2> DEFINE new == [image[i] EXCEPT !.mem = image[i].mem, !.cuts = {image[i].len}]
  <2>1. image' = [image EXCEPT ![i] = new]
    BY <1>a, <1>10 DEF Gather, Gathered, Typed
  <2>2. new \in Image /\ Keeps(new)
    BY <1>a, <1>10 DEF Gather, Image, Keeps
  <2> HIDE DEF new
  <2>3. skind = "gone" /\ UNCHANGED sinkVars
    BY <1>8, <1>10 DEF Gather
  <2> QED  BY <1>7, <2>1, <2>2, <2>3
<1>11. ASSUME NEW i \in Images, MemMap(i)
       PROVE  KeepInv'
  <2> DEFINE new == [image[i] EXCEPT !.kind = "MemMap", !.mem = disk]
  <2>1. image' = [image EXCEPT ![i] = new]
    BY <1>a, <1>11 DEF MemMap, Typed
  <2>2. new \in Image /\ Keeps(new)
    BY <1>a, <1>11 DEF MemMap, Image, Keeps, Typed
  <2> HIDE DEF new
  <2>3. skind = "gone" /\ UNCHANGED sinkVars
    BY <1>8, <1>11 DEF MemMap
  <2> QED  BY <1>7, <2>1, <2>2, <2>3
<1>12. ASSUME UNCHANGED <<sinkVars, image>>
       PROVE  KeepInv'
  BY <1>12, <1>a DEF sinkVars, KeepInv, Typed, Keeps
<1>13. ASSUME NEW r \in Readers, OpenReader(r) \/ Read(r) \/ ReadEof(r) \/ CloseReader(r)
       PROVE  KeepInv'
  BY <1>12, <1>13 DEF OpenReader, Read, ReadEof, CloseReader
<1>14. CASE UNCHANGED vars
  BY <1>12, <1>14 DEF vars, sinkVars
<1> QED
  BY <1>1, <1>2, <1>3, <1>4, <1>5, <1>6, <1>9, <1>10, <1>11, <1>13, <1>14 DEF Next

LEMMA KeepAlways == Spec => []KeepInv
  BY KeepInit, KeepNext, PTL DEF Spec

\* Whatever push, write_back or prepare fail on, and however far a failed write
\* got, no sink or image reports more than it stores.
THEOREM NeverLongerThanStored == Spec => []LenCovered
<1>1. KeepInv => LenCovered
  <2> SUFFICES ASSUME KeepInv PROVE LenCovered
    OBVIOUS
  <2>1. skind # "gone" => slen <= Len(Stored)
    BY DEF KeepInv, Typed, Stored
  <2>2. ASSUME NEW i \in Live PROVE image[i].len <= Len(Bytes(image[i]))
    <3>1. image[i] \in Image /\ Keeps(image[i]) /\ disk \in Seq(Nat)
          /\ image[i].kind \in {"Ram", "FsRead", "MemMap"} /\ image[i].len \in Nat
      BY <2>2 DEF Live, KeepInv, Typed, Image
    <3>2. CASE image[i].kind = "FsRead"
      <4>1. Bytes(image[i]) = SubSeq(disk, 1, image[i].len)
        BY <3>1, <3>2 DEF Bytes, Keeps
      <4>2. Len(SubSeq(disk, 1, image[i].len)) = image[i].len
        BY <3>1, <3>2, SubSeqOfSeq DEF Keeps
      <4> QED  BY <4>1, <4>2, <3>1
    <3>3. CASE image[i].kind # "FsRead"
      <4>1. image[i].kind = "Ram" => image[i].len <= Len(image[i].mem)
        BY <3>1 DEF Keeps
      <4> QED  BY <3>1, <3>3, <4>1 DEF Bytes, Keeps
    <3> QED  BY <3>2, <3>3
  <2> QED  BY <2>1, <2>2 DEF LenCovered
<1> QED  BY <1>1, KeepAlways, PTL

\* mem_map is never called on an empty file, and gather never finds other than
\* len bytes: the assertions of both cannot fail.
THEOREM AssertionsHold == Spec => []AssertsHold
<1>1. KeepInv => AssertsHold
  BY DEF KeepInv, Typed, Keeps, AssertsHold, Live
<1> QED  BY <1>1, KeepAlways, PTL

-----------------------------------------------------------------------------
(* Types: buffers end within the bytes they hold, readers are of some image.    *)

ReaderState ==
  [kind : {"closed", "Contiguous", "Scattered", "FileSlice"},
   of : Images \cup {None}, pos : Nat, seen : Seq(Nat), eof : BOOLEAN]

WellCut(m) ==
  /\ m.cuts \subseteq 1 .. Len(m.mem)
  /\ m.kind = "FsRead" => m.cuts = {}

OpenOrClosed(rd) ==
  /\ rd \in ReaderState
  /\ rd.kind # "closed" => rd.of \in Images

TypeInv ==
  /\ KeepInv
  /\ cuts \subseteq 1 .. Len(ram)
  /\ \A i \in Images : WellCut(image[i])
  /\ reader \in [Readers -> ReaderState]
  /\ \A r \in Readers : OpenOrClosed(reader[r])

LEMMA ClosedType == Closed \in ReaderState /\ OpenOrClosed(Closed)
  BY DEF Closed, ReaderState, OpenOrClosed

LEMMA TypeInit == Init => TypeInv
  BY KeepInit, ClosedType DEF Init, TypeInv, NoImage, WellCut

LEMMA TypeNext ==
  ASSUME TypeInv, [Next]_vars
  PROVE  TypeInv'
<1>a. /\ KeepInv' /\ KeepInv
      /\ ram \in Seq(Nat) /\ disk \in Seq(Nat) /\ cuts \subseteq 1 .. Len(ram)
      /\ image \in [Images -> Image] /\ offered \in Nat
      /\ \A i \in Images : WellCut(image[i])
      /\ reader \in [Readers -> ReaderState]
      /\ \A r \in Readers : OpenOrClosed(reader[r])
  BY KeepNext DEF TypeInv, KeepInv, Typed
<1>1. ASSUME UNCHANGED <<image, reader>>, cuts' \subseteq 1 .. Len(ram')
      PROVE  TypeInv'
  BY <1>a, <1>1 DEF TypeInv
<1>2. CASE Push
  <2>1. PICK n \in 1 .. MaxLen :
        IF skind = "Ram"
        THEN ram' = ram \o Fresh(n) /\ cuts' = cuts \cup {Len(ram) + n}
        ELSE ram' = ram /\ cuts' = cuts
    BY <1>2 DEF Push
  <2>2. n \in Nat /\ n >= 1 /\ Fresh(n) \in Seq(Nat) /\ Len(Fresh(n)) = n
    BY <1>a, <2>1, BodyAssumption, FreshSeq
  <2>3. Len(ram \o Fresh(n)) = Len(ram) + n /\ Len(ram) \in Nat
    <3>1. Len(ram \o Fresh(n)) = Len(ram) + Len(Fresh(n))
      BY <1>a, <2>2, ConcatProperties
    <3> QED  BY <1>a, <2>2, <3>1
  <2>4. cuts' \subseteq 1 .. Len(ram')
    <3>1. CASE skind = "Ram"
      <4>1. Len(ram') = Len(ram) + n /\ cuts' = cuts \cup {Len(ram) + n}
        BY <2>1, <2>3, <3>1
      <4>2. \A c \in 1 .. Len(ram) : c \in 1 .. Len(ram')
        BY <2>2, <2>3, <4>1
      <4>3. Len(ram) + n \in 1 .. Len(ram')
        BY <2>2, <2>3, <4>1
      <4> QED  BY <1>a, <4>1, <4>2, <4>3
    <3>2. CASE skind # "Ram"
      BY <1>a, <2>1, <3>2
    <3> QED  BY <3>1, <3>2
  <2> QED  BY <1>1, <1>2, <2>4 DEF Push
<1>3. CASE PushFails
  BY <1>a, <1>1, <1>3 DEF PushFails
<1>4. CASE WriteBack \/ WriteBackFails
  BY <1>1, <1>4 DEF WriteBack, WriteBackFails
<1>5. CASE PrepareFails
  BY <1>a, <1>1, <1>5 DEF PrepareFails
<1>6. ASSUME NEW i \in Images, NEW new \in Image, image' = [image EXCEPT ![i] = new],
             WellCut(new), UNCHANGED <<ram, cuts, reader>>
      PROVE  TypeInv'
  BY <1>a, <1>6 DEF TypeInv
<1>7. CASE Prepare
  <2> DEFINE new == IF skind = "Ram"
                    THEN [kind |-> "Ram", len |-> slen, mem |-> ram, cuts |-> cuts]
                    ELSE FileImage
  <2>1. PICK i \in Images : image' = [image EXCEPT ![i] = new]
    BY <1>7 DEF Prepare
  <2>2. UNCHANGED <<ram, cuts, reader>>
    BY <1>7 DEF Prepare
  <2>3. new \in Image /\ WellCut(new)
    <3>1. CASE skind = "Ram"
      BY <1>a, <3>1 DEF Image, WellCut, KeepInv, Typed
    <3>2. CASE skind # "Ram"
      BY <1>a, <3>2 DEF FileImage, EmptyImage, Image, WellCut, KeepInv, Typed
    <3> QED  BY <3>1, <3>2
  <2> HIDE DEF new
  <2> QED  BY <1>6, <2>1, <2>2, <2>3
<1>8. ASSUME NEW i \in Images, Clone(i)
      PROVE  TypeInv'
  <2>1. PICK j \in Images : image' = [image EXCEPT ![j] = image[i]]
    BY <1>8 DEF Clone
  <2> QED  BY <1>a, <1>6, <1>8, <2>1 DEF Clone, sinkVars
<1>9. ASSUME NEW i \in Images, Gather(i)
      PROVE  TypeInv'
  <2> DEFINE new == [image[i] EXCEPT !.mem = image[i].mem, !.cuts = {image[i].len}]
  <2>1. /\ image' = [image EXCEPT ![i] = new] /\ UNCHANGED <<ram, cuts, reader>>
        /\ image[i].kind = "Ram" /\ Cardinality(image[i].cuts) > 1
    BY <1>a, <1>9 DEF Gather, Gathered, sinkVars
  <2>2. image[i] \in Image /\ Len(image[i].mem) = image[i].len /\ WellCut(image[i])
    BY <1>a, <2>1 DEF KeepInv, Keeps
  <2>3. image[i].cuts # {}
    BY <2>1, FS_EmptySet
  <2>4. image[i].len \in Nat /\ image[i].len >= 1
    BY <2>2, <2>3 DEF WellCut, Image
  <2>5. new \in Image /\ WellCut(new)
    <3>1. new \in Image
      BY <2>2, <2>4 DEF Image
    <3>2. new.mem = image[i].mem /\ new.cuts = {image[i].len} /\ new.kind = "Ram"
      BY <2>1, <2>2 DEF Image
    <3>3. image[i].len \in 1 .. Len(image[i].mem)
      BY <2>2, <2>4
    <3> QED  BY <3>1, <3>2, <3>3 DEF WellCut
  <2> HIDE DEF new
  <2> QED  BY <1>6, <2>1, <2>5
<1>10. ASSUME NEW i \in Images, MemMap(i)
       PROVE  TypeInv'
  <2> DEFINE new == [image[i] EXCEPT !.kind = "MemMap", !.mem = disk]
  <2>1. /\ image' = [image EXCEPT ![i] = new] /\ UNCHANGED <<ram, cuts, reader>>
        /\ image[i].kind = "FsRead" /\ image[i] \in Image /\ WellCut(image[i])
    BY <1>a, <1>10 DEF MemMap, sinkVars
  <2>2. new \in Image /\ WellCut(new)
    BY <1>a, <2>1 DEF WellCut, Image
  <2> HIDE DEF new
  <2> QED  BY <1>6, <2>1, <2>2
<1>11. ASSUME NEW r \in Readers, NEW new \in ReaderState, OpenOrClosed(new),
              reader' = [reader EXCEPT ![r] = new], UNCHANGED <<ram, cuts, image>>
       PROVE  TypeInv'
  BY <1>a, <1>11 DEF TypeInv
<1>12. ASSUME NEW r \in Readers, OpenReader(r)
       PROVE  TypeInv'
  <2>1. PICK i \in Images : \E knd \in {"Contiguous", "Scattered", "FileSlice"} :
          reader' = [reader EXCEPT ![r] = [Closed EXCEPT !.kind = knd, !.of = i]]
    BY <1>12, Zenon DEF OpenReader, Live
  <2>2. PICK knd \in {"Contiguous", "Scattered", "FileSlice"} :
          reader' = [reader EXCEPT ![r] = [Closed EXCEPT !.kind = knd, !.of = i]]
    BY <2>1
  <2> DEFINE new == [Closed EXCEPT !.kind = knd, !.of = i]
  <2>3. new \in ReaderState /\ OpenOrClosed(new)
    BY <2>2, ClosedType DEF ReaderState, OpenOrClosed
  <2>4. reader' = [reader EXCEPT ![r] = new] /\ UNCHANGED <<ram, cuts, image>>
    BY <1>12, <2>2 DEF OpenReader, sinkVars
  <2> HIDE DEF new
  <2> QED  BY <1>11, <2>3, <2>4
<1>13. ASSUME NEW r \in Readers, Read(r)
       PROVE  TypeInv'
  <2> DEFINE src == Bytes(image[reader[r].of])
  <2>1. reader[r].of \in Images /\ reader[r] \in ReaderState /\ reader[r].kind # "closed"
    BY <1>a, <1>13 DEF Read, OpenOrClosed
  <2>2. src \in Seq(Nat)
    <3>1. /\ image[reader[r].of].mem \in Seq(Nat) /\ image[reader[r].of].len \in Nat
          /\ disk \in Seq(Nat) /\ Len(disk) \in Nat
          /\ image[reader[r].of].kind = "FsRead" => image[reader[r].of].len <= Len(disk)
      BY <1>a, <2>1 DEF Image, KeepInv, Keeps
    <3>2. CASE image[reader[r].of].kind = "FsRead"
      <4>1. src = SubSeq(disk, 1, image[reader[r].of].len)
        BY <3>1, <3>2 DEF Bytes
      <4> QED  BY <3>1, <3>2, <4>1, SubSeqOfSeq
    <3>3. CASE image[reader[r].of].kind # "FsRead"
      BY <3>1, <3>3 DEF Bytes
    <3> QED  BY <3>2, <3>3
  <2>3. PICK k \in reader[r].pos + 1 .. Len(src) :
          reader' = [reader EXCEPT ![r].seen = @ \o SubSeq(src, reader[r].pos + 1, k),
                                   ![r].pos = k]
    BY <1>13 DEF Read, Pos, Source
  <2> HIDE DEF src
  <2> DEFINE part == SubSeq(src, reader[r].pos + 1, k)
             new == [reader[r] EXCEPT !.seen = reader[r].seen \o part, !.pos = k]
  <2>4. /\ reader[r].pos \in Nat /\ reader[r].seen \in Seq(Nat) /\ k \in Nat
        /\ k <= Len(src) /\ reader[r].pos + 1 \in Nat /\ 1 <= reader[r].pos + 1
    <3>1. /\ reader[r].pos \in Nat /\ reader[r].seen \in Seq(Nat)
          /\ k \in reader[r].pos + 1 .. Len(src) /\ Len(src) \in Nat
      BY <2>1, <2>2, <2>3 DEF ReaderState
    <3> QED  BY ONLY <3>1
  <2>5. part \in Seq(Nat)
    BY <2>2, <2>4, SubSeqOfSeq
  <2>6. reader' = [reader EXCEPT ![r] = new] /\ UNCHANGED <<ram, cuts, image>>
    BY <1>a, <1>13, <2>3 DEF Read, sinkVars
  <2> HIDE DEF part
  <2>7. reader[r].seen \o part \in Seq(Nat)
    BY <2>4, <2>5, ConcatProperties
  <2>8. new \in ReaderState /\ OpenOrClosed(new)
    BY <2>1, <2>4, <2>7 DEF ReaderState, OpenOrClosed
  <2> HIDE DEF new
  <2> QED  BY <1>11, <2>6, <2>8
<1>14. ASSUME NEW r \in Readers, ReadEof(r)
       PROVE  TypeInv'
  <2> DEFINE new == [reader[r] EXCEPT !.eof = TRUE]
  <2>1. reader' = [reader EXCEPT ![r] = new] /\ UNCHANGED <<ram, cuts, image>>
    BY <1>a, <1>14 DEF ReadEof, sinkVars
  <2>2. new \in ReaderState /\ OpenOrClosed(new)
    BY <1>a DEF ReaderState, OpenOrClosed
  <2> HIDE DEF new
  <2> QED  BY <1>11, <2>1, <2>2
<1>15. ASSUME NEW r \in Readers, CloseReader(r)
       PROVE  TypeInv'
  BY <1>11, <1>15, ClosedType DEF CloseReader, sinkVars
<1>16. CASE UNCHANGED vars
  BY <1>a, <1>1, <1>16 DEF vars
<1> QED
  BY <1>2, <1>3, <1>4, <1>5, <1>7, <1>8, <1>9, <1>10, <1>12, <1>13, <1>14, <1>15, <1>16
  DEF Next

\* Every variable has its type, and no buffer ends outside the bytes it is part of.
THEOREM TypeCorrect == Spec => []TypeOK
<1>1. TypeInv => TypeOK
  BY DEF TypeInv, TypeOK, KeepInv, Typed, WellCut, ReaderState
<1>2. TypeInv /\ [Next]_vars => TypeInv'
  BY TypeNext
<1> QED  BY <1>1, <1>2, TypeInit, PTL DEF Spec

-----------------------------------------------------------------------------
(* The invariant when a failed write leaves nothing behind: every image holds  *)
(* exactly what the sink took, and every reader has read a prefix of it.       *)

GoodReader(rd) ==
  /\ rd.kind = "closed" => rd.of = None /\ rd.seen = << >> /\ ~ rd.eof
  /\ rd.kind # "closed" =>
       /\ rd.of \in Live
       /\ rd.pos <= Len(Bytes(image[rd.of]))
       /\ rd.seen = SubSeq(Bytes(image[rd.of]), 1, rd.pos)
       /\ rd.eof => rd.pos = Len(Bytes(image[rd.of]))

Exact(m) ==
  /\ m.kind = "FsRead" => m.len = Len(disk)
  /\ m.kind = "MemMap" => m.len = Len(m.mem)

WholeInv ==
  /\ KeepInv
  /\ skind = "FsWrite" => slen = Len(disk)
  /\ \A i \in Images : Exact(image[i])
  /\ ClonesAgree
  /\ reader \in [Readers -> ReaderState]
  /\ \A r \in Readers : GoodReader(reader[r])

\* What the contents of the abstract buffer are, in every phase.
ContentsAre ==
  /\ skind # "gone" => Contents = Stored
  /\ \A i \in Live : Contents = Bytes(image[i]) /\ Len(Contents) = image[i].len
  /\ Contents \in Seq(Nat)

LEMMA WholeContents == WholeInv => ContentsAre
<1> SUFFICES ASSUME WholeInv PROVE ContentsAre
  OBVIOUS
<1>a. /\ skind \in {"Ram", "FsWrite", "gone"} /\ slen \in Nat
      /\ ram \in Seq(Nat) /\ disk \in Seq(Nat)
      /\ \A i \in Images : image[i] \in Image /\ Keeps(image[i]) /\ Exact(image[i])
  BY DEF WholeInv, KeepInv, Typed
<1>1. skind # "gone" => Contents = Stored /\ Stored \in Seq(Nat) /\ Live = {}
  <2> HAVE skind # "gone"
  <2>1. Stored \in Seq(Nat) /\ slen = Len(Stored)
    BY <1>a DEF Stored, WholeInv, KeepInv
  <2>2. Contents = SubSeq(Stored, 1, Len(Stored))
    BY <2>1 DEF Contents
  <2> QED  BY <2>1, <2>2, SubSeqFull DEF WholeInv, KeepInv, Live
<1>2. ASSUME NEW i \in Live
      PROVE  Bytes(image[i]) \in Seq(Nat) /\ Len(Bytes(image[i])) = image[i].len
  <2>1. /\ image[i].kind \in {"Ram", "FsRead", "MemMap"} /\ image[i].mem \in Seq(Nat)
        /\ image[i].len \in Nat /\ Keeps(image[i]) /\ Exact(image[i])
    BY <1>a, <1>2 DEF Live, Image
  <2>2. CASE image[i].kind = "FsRead"
    <3>1. Bytes(image[i]) = SubSeq(disk, 1, Len(disk))
      BY <1>a, <2>1, <2>2 DEF Bytes, Exact
    <3> QED  BY <1>a, <2>1, <2>2, <3>1, SubSeqFull DEF Exact
  <2>3. CASE image[i].kind # "FsRead"
    BY <2>1, <2>3 DEF Bytes, Keeps, Exact
  <2> QED  BY <2>2, <2>3
<1>3. ASSUME NEW i \in Live
      PROVE  Contents = Bytes(image[i])
  <2>1. skind = "gone" /\ Live # {}
    BY <1>1, <1>3
  <2>2. Contents = Bytes(image[CHOOSE j \in Live : TRUE])
    BY <2>1 DEF Contents
  <2> QED  BY <1>3, <2>2 DEF WholeInv, ClonesAgree
<1>4. Contents \in Seq(Nat)
  <2>1. CASE skind = "gone" /\ Live = {}
    BY <2>1 DEF Contents
  <2>2. CASE Live # {}
    BY <1>2, <1>3, <2>2
  <2> QED  BY <1>1, <2>1, <2>2
<1> QED  BY <1>1, <1>2, <1>3, <1>4 DEF ContentsAre

LEMMA WholeInit == Init => WholeInv /\ Buffer!Init
<1> SUFFICES ASSUME Init PROVE WholeInv /\ Buffer!Init
  OBVIOUS
<1>1. KeepInv /\ Live = {}
  BY KeepInit DEF Init, Live, NoImage
<1>2. Closed \in ReaderState /\ GoodReader(Closed)
  BY DEF Closed, ReaderState, GoodReader
<1>3. WholeInv
  BY <1>1, <1>2 DEF Init, WholeInv, Exact, NoImage, ClonesAgree
<1>4. Contents = << >>
  BY <1>3, WholeContents DEF ContentsAre, Init, Stored
<1> QED
  BY <1>3, <1>4 DEF Init, Buffer!Init, Phase, Closed

LEMMA WholeNext ==
  ASSUME "torn" \notin Faults, WholeInv, [Next]_vars
  PROVE  WholeInv' /\ [Buffer!Next]_(Buffer!bufferVars)
<1>a. /\ KeepInv' /\ ContentsAre
      /\ skind \in {"Ram", "FsWrite", "gone"} /\ slen \in Nat /\ offered \in Nat
      /\ ram \in Seq(Nat) /\ disk \in Seq(Nat) /\ image \in [Images -> Image]
      /\ reader \in [Readers -> ReaderState]
      /\ \A i \in Images : Keeps(image[i]) /\ Exact(image[i])
      /\ \A r \in Readers : GoodReader(reader[r])
  BY KeepNext, WholeContents DEF WholeInv, KeepInv, Typed
<1>b. WholeInv' => ContentsAre'
  BY WholeContents, PTL
<1>c. skind # "gone" => /\ Live = {}
                        /\ \A r \in Readers : reader[r].kind = "closed"
  BY <1>a DEF WholeInv, KeepInv, Live, GoodReader
<1>1. ASSUME skind' # "gone", skind # "gone", UNCHANGED <<image, reader>>,
             skind' = "FsWrite" => slen' = Len(disk')
      PROVE  WholeInv' /\ Contents' = Stored' /\ Phase = "open" /\ Phase' = "open"
  <2>1. \A i \in Images : image[i].kind = "none"
    BY <1>1 DEF WholeInv, KeepInv
  <2>2. \A i \in Images : Exact(image[i])'
    BY <1>1, <2>1 DEF Exact
  <2>3. \A r \in Readers : GoodReader(reader[r])'
    BY <1>a, <1>c, <1>1 DEF GoodReader
  <2>4. ClonesAgree'
    BY <1>1, <2>1 DEF ClonesAgree, Live
  <2>5. WholeInv'
    BY <1>a, <1>1, <2>2, <2>3, <2>4 DEF WholeInv
  <2> QED  BY <1>b, <1>1, <2>5 DEF ContentsAre, Phase
<1>2. CASE Push
  <2>1. PICK n \in 1 .. MaxLen :
        /\ offered' = offered + n
        /\ slen' = slen + n
        /\ IF skind = "Ram"
           THEN ram' = ram \o Fresh(n) /\ disk' = disk
           ELSE disk' = disk \o Fresh(n) /\ ram' = ram
    BY <1>2 DEF Push
  <2>2. n \in Nat /\ Fresh(n) \in Seq(Nat) /\ Len(Fresh(n)) = n
    BY <1>a, <2>1, BodyAssumption, FreshSeq
  <2>3. skind # "gone" /\ UNCHANGED <<skind, image, reader>>
    BY <1>2 DEF Push
  <2>4. skind = "FsWrite" => slen' = Len(disk')
    <3> HAVE skind = "FsWrite"
    <3>1. disk' = disk \o Fresh(n) /\ slen = Len(disk)
      BY <2>1 DEF WholeInv
    <3>2. Len(disk \o Fresh(n)) = Len(disk) + Len(Fresh(n))
      BY <1>a, <2>2, ConcatProperties
    <3> QED  BY <2>1, <2>2, <3>1, <3>2
  <2>5. Stored' = Stored \o Fresh(n)
    BY <2>1, <2>3 DEF Stored
  <2>6. Contents = Stored
    BY <1>a, <2>3 DEF ContentsAre
  <2>7. Fresh(n) = Buffer!Fresh
    BY <1>a, <2>1, <2>2 DEF Fresh, Buffer!Fresh
  <2>8. WholeInv' /\ Contents' = Contents \o Buffer!Fresh /\ Phase = "open" /\ Phase' = "open"
    BY <1>1, <2>3, <2>4, <2>5, <2>6, <2>7
  <2>9. Buffer!Accept
    BY <1>a, <2>1, <2>2, <2>3, <2>8 DEF Buffer!Accept
  <2> QED  BY <2>8, <2>9 DEF Buffer!Next
<1>3. CASE PushFails
  <2>1. PICK n \in 1 .. MaxLen : \E k \in 0 .. n - 1 :
        /\ IF k = 0 THEN "io" \in Faults ELSE "torn" \in Faults
        /\ offered' = offered + n
        /\ disk' = disk \o SubSeq(Fresh(n), 1, k)
    BY <1>3 DEF PushFails
  <2>2. disk' = disk \o SubSeq(Fresh(n), 1, 0)
    BY <2>1
  <2>3. disk' = disk
    BY <1>a, <2>2, SubSeqEmpty, ConcatEmptySeq
  <2>4. skind = "FsWrite" /\ UNCHANGED <<skind, slen, ram, image, reader>>
    BY <1>3 DEF PushFails
  <2>5. Stored' = Stored /\ Contents = Stored
    BY <1>a, <2>3, <2>4 DEF Stored, ContentsAre
  <2>6. WholeInv' /\ Contents' = Contents /\ Phase = "open" /\ Phase' = "open"
    BY <1>1, <2>3, <2>4, <2>5 DEF WholeInv
  <2>7. offered' \in Nat /\ offered' >= offered
    BY <1>a, <2>1, BodyAssumption
  <2>8. Buffer!Reject
    BY <2>4, <2>6, <2>7 DEF Buffer!Reject
  <2> QED  BY <2>6, <2>8 DEF Buffer!Next
<1>4. CASE WriteBack
  <2>1. /\ skind = "Ram" /\ skind' = "FsWrite" /\ disk' = ram
        /\ UNCHANGED <<slen, offered, image, reader>>
    BY <1>4 DEF WriteBack
  <2>2. Stored' = Stored /\ Contents = Stored
    BY <1>a, <2>1 DEF Stored, ContentsAre
  <2>3. WholeInv' /\ Contents' = Contents /\ Phase = "open" /\ Phase' = "open"
    BY <1>1, <2>1, <2>2 DEF WholeInv, KeepInv
  <2> QED  BY <2>1, <2>3 DEF Buffer!bufferVars
<1>5. CASE WriteBackFails
  <2>1. /\ skind = "Ram" /\ ram' = << >>
        /\ UNCHANGED <<skind, disk, offered, image, reader>>
    BY <1>5 DEF WriteBackFails
  <2>2. WholeInv' /\ Contents' = << >> /\ Phase = "open" /\ Phase' = "open"
    BY <1>1, <2>1 DEF Stored
  <2> QED  BY <2>1, <2>2 DEF Buffer!Forget, Buffer!Next
<1>6. CASE Prepare
  <2> DEFINE new == IF skind = "Ram"
                    THEN [kind |-> "Ram", len |-> slen, mem |-> ram, cuts |-> cuts]
                    ELSE FileImage
  <2>1. PICK i \in Images : image' = [image EXCEPT ![i] = new]
    BY <1>6 DEF Prepare
  <2>2. /\ skind' = "gone" /\ skind # "gone"
        /\ UNCHANGED <<slen, ram, disk, offered, reader>>
    BY <1>6 DEF Prepare
  <2>3. Bytes(new) = Stored /\ new.kind # "none" /\ Exact(new)
    <3>1. CASE skind = "Ram"
      BY <3>1 DEF Bytes, Stored, Exact
    <3>2. CASE skind = "FsWrite" /\ slen = 0
      <4>1. disk = << >> /\ new = EmptyImage
        BY <1>a, <3>2 DEF WholeInv, FileImage
      <4> QED  BY <3>2, <4>1 DEF Bytes, Stored, Exact, EmptyImage
    <3>3. CASE skind = "FsWrite" /\ slen # 0
      <4>1. slen = Len(disk) /\ SubSeq(disk, 1, Len(disk)) = disk
        BY <1>a, <3>3, SubSeqFull DEF WholeInv
      <4>2. new = [kind |-> "FsRead", len |-> slen, mem |-> << >>, cuts |-> {}]
        BY <3>3 DEF FileImage
      <4> QED  BY <3>3, <4>1, <4>2 DEF Bytes, Stored, Exact
    <3> QED  BY <1>a, <2>2, <3>1, <3>2, <3>3
  <2> HIDE DEF new
  <2>4. Live' = {i} /\ image'[i] = new
    BY <1>a, <1>c, <2>1, <2>2, <2>3 DEF Live
  <2>5. Bytes(image[i])' = Stored
    BY <2>2, <2>3, <2>4 DEF Bytes
  <2>6. \A j \in Images : Exact(image[j])'
    BY <1>a, <2>1, <2>2, <2>3 DEF Exact
  <2>7. ClonesAgree'
    BY <2>4 DEF ClonesAgree
  <2>8. \A r \in Readers : GoodReader(reader[r])'
    BY <1>a, <1>c, <2>2 DEF GoodReader
  <2>9. WholeInv'
    BY <1>a, <2>2, <2>6, <2>7, <2>8 DEF WholeInv
  <2>10. Contents' = Stored /\ Contents = Stored
    BY <1>a, <1>b, <2>2, <2>4, <2>5, <2>9 DEF ContentsAre
  <2>11. Phase = "open" /\ Phase' = "sealed"
    BY <2>2, <2>4 DEF Phase
  <2>12. Buffer!Seal
    BY <2>2, <2>10, <2>11 DEF Buffer!Seal
  <2> QED  BY <2>9, <2>12 DEF Buffer!Next
<1>7. CASE PrepareFails
  <2>1. /\ skind = "FsWrite" /\ skind' = "gone"
        /\ UNCHANGED <<slen, ram, disk, offered, image, reader>>
    BY <1>7 DEF PrepareFails
  <2>2. Live' = {}
    BY <1>c, <2>1 DEF Live
  <2>3. ClonesAgree' /\ \A i \in Images : Exact(image[i])'
    BY <1>a, <2>1, <2>2 DEF ClonesAgree, Exact
  <2>4. \A r \in Readers : GoodReader(reader[r])'
    BY <1>a, <1>c, <2>1 DEF GoodReader
  <2>5. WholeInv'
    BY <1>a, <2>1, <2>3, <2>4 DEF WholeInv
  <2>6. Phase = "open" /\ Phase' = "lost" /\ Contents' = << >>
    BY <2>1, <2>2 DEF Phase, Contents
  <2>7. Buffer!Lose
    BY <2>1, <2>6 DEF Buffer!Lose
  <2> QED  BY <2>5, <2>7 DEF Buffer!Next
<1>8. ASSUME NEW i \in Images, NEW new \in Image, skind = "gone", Live # {},
             new.kind # "none", Bytes(new) = Contents, Exact(new),
             \A r \in Readers : reader[r].of # i,
             image' = [image EXCEPT ![i] = new], UNCHANGED <<sinkVars, reader>>
      PROVE  WholeInv' /\ [Buffer!Next]_(Buffer!bufferVars)
  <2>1. /\ UNCHANGED <<skind, slen, ram, disk, offered, reader>> /\ skind' = "gone"
        /\ image'[i] = new /\ Live' = Live \cup {i}
        /\ \A j \in Images \ {i} : image'[j] = image[j]
    BY <1>a, <1>8 DEF sinkVars, Live
  <2>2. \A j \in Live' : Bytes(image[j])' = Contents
    <3> SUFFICES ASSUME NEW j \in Live' PROVE Bytes(image[j])' = Contents
      OBVIOUS
    <3>1. CASE j = i
      BY <1>8, <2>1, <3>1 DEF Bytes
    <3>2. CASE j # i
      <4>1. j \in Live /\ image'[j] = image[j]
        BY <2>1, <3>2 DEF Live
      <4>2. Bytes(image[j])' = Bytes(image[j])
        BY <2>1, <4>1 DEF Bytes
      <4> QED  BY <1>a, <4>1, <4>2 DEF ContentsAre
    <3> QED  BY <3>1, <3>2
  <2>3. \A j \in Images : Exact(image[j])'
    BY <1>a, <1>8, <2>1 DEF Exact
  <2>4. ClonesAgree'
    BY <2>2 DEF ClonesAgree
  <2>5. ASSUME NEW r \in Readers
        PROVE  GoodReader(reader[r])'
    <3>1. reader'[r] = reader[r] /\ GoodReader(reader[r])
      BY <1>a, <2>1
    <3>2. CASE reader[r].kind = "closed"
      BY <3>1, <3>2 DEF GoodReader
    <3>3. CASE reader[r].kind # "closed"
      <4>1. reader[r].of \in Live /\ reader[r].of \in Live'
        BY <2>1, <3>1, <3>3 DEF GoodReader
      <4>2. Bytes(image[reader[r].of])' = Bytes(image[reader[r].of])
        BY <1>a, <2>1, <2>2, <4>1 DEF ContentsAre
      <4> QED  BY <3>1, <3>3, <4>1, <4>2 DEF GoodReader
    <3> QED  BY <3>2, <3>3
  <2>6. WholeInv'
    BY <1>a, <2>1, <2>3, <2>4, <2>5 DEF WholeInv
  <2>7. Contents' = Contents
    BY <1>b, <2>1, <2>2, <2>6 DEF ContentsAre
  <2>8. Phase' = Phase
    BY <1>8, <2>1 DEF Phase
  <2> QED  BY <2>1, <2>6, <2>7, <2>8 DEF Buffer!bufferVars
<1>9. ASSUME NEW i \in Images, Clone(i)
      PROVE  WholeInv' /\ [Buffer!Next]_(Buffer!bufferVars)
  <2>1. PICK j \in Images \ Live : image' = [image EXCEPT ![j] = image[i]]
    BY <1>9 DEF Clone
  <2>2. i \in Live /\ UNCHANGED <<sinkVars, reader>>
    BY <1>9 DEF Clone
  <2>3. \A r \in Readers : reader[r].of # j
    BY <1>a, <2>1, BodyAssumption DEF GoodReader
  <2>4. image[i] \in Image /\ image[i].kind # "none" /\ Exact(image[i])
    BY <1>a, <2>2 DEF Live
  <2>5. Bytes(image[i]) = Contents /\ skind = "gone"
    BY <1>a, <1>c, <2>2 DEF ContentsAre
  <2> QED  BY <1>8, <2>1, <2>2, <2>3, <2>4, <2>5
<1>10. ASSUME NEW i \in Images, Gather(i)
      PROVE  WholeInv' /\ [Buffer!Next]_(Buffer!bufferVars)
  <2> DEFINE new == [image[i] EXCEPT !.mem = image[i].mem, !.cuts = {image[i].len}]
  <2>1. /\ image' = [image EXCEPT ![i] = new] /\ UNCHANGED <<sinkVars, reader>>
        /\ image[i].kind = "Ram" /\ \A r \in Readers : reader[r].of # i
    BY <1>a, <1>10 DEF Gather, Gathered, Borrowed
  <2>2. i \in Live /\ skind = "gone" /\ image[i] \in Image
    BY <1>a, <1>c, <2>1 DEF Live
  <2>3. new \in Image /\ new.kind = "Ram" /\ new.mem = image[i].mem
    BY <2>1, <2>2 DEF Image
  <2> HIDE DEF new
  <2>4. Bytes(new) = Contents /\ Exact(new)
    BY <1>a, <2>1, <2>2, <2>3 DEF ContentsAre, Bytes, Exact
  <2> QED  BY <1>8, <2>1, <2>2, <2>3, <2>4
<1>11. ASSUME NEW i \in Images, MemMap(i)
      PROVE  WholeInv' /\ [Buffer!Next]_(Buffer!bufferVars)
  <2> DEFINE new == [image[i] EXCEPT !.kind = "MemMap", !.mem = disk]
  <2>1. /\ image' = [image EXCEPT ![i] = new] /\ UNCHANGED <<sinkVars, reader>>
        /\ image[i].kind = "FsRead" /\ \A r \in Readers : reader[r].of # i
    BY <1>a, <1>11 DEF MemMap, Borrowed
  <2>2. i \in Live /\ skind = "gone" /\ image[i] \in Image /\ image[i].len = Len(disk)
    BY <1>a, <1>c, <2>1 DEF Live, Exact
  <2>3. new \in Image /\ new.kind = "MemMap" /\ new.mem = disk /\ new.len = image[i].len
    BY <1>a, <2>1, <2>2 DEF Image
  <2> HIDE DEF new
  <2>4. Bytes(new) = disk /\ Exact(new)
    BY <2>2, <2>3 DEF Bytes, Exact
  <2>5. Bytes(image[i]) = disk
    <3>1. Bytes(image[i]) = SubSeq(disk, 1, Len(disk))
      BY <1>a, <2>1, <2>2 DEF Bytes
    <3> QED  BY <1>a, <3>1, SubSeqFull
  <2> QED  BY <1>8, <1>a, <2>1, <2>2, <2>3, <2>4, <2>5 DEF ContentsAre
<1>12. ASSUME NEW r \in Readers, NEW new \in ReaderState, skind = "gone", Live # {},
              GoodReader(new),
              reader' = [reader EXCEPT ![r] = new], UNCHANGED <<sinkVars, image>>
       PROVE  /\ WholeInv'
              /\ UNCHANGED <<Contents, offered, Phase>>
              /\ [q \in Readers |-> reader[q].seen]'
                 = [[q \in Readers |-> reader[q].seen] EXCEPT ![r] = new.seen]
  <2>1. UNCHANGED <<skind, slen, ram, disk, offered, image>>
    BY <1>12 DEF sinkVars
  <2>2. Live' = Live
    BY <2>1 DEF Live
  <2>3. \A i \in Images : /\ Bytes(image[i])' = Bytes(image[i])
                          /\ Exact(image[i])'
    BY <1>a, <2>1 DEF Bytes, Exact
  <2>4. ClonesAgree'
    BY <2>2, <2>3 DEF ClonesAgree, Live, WholeInv
  <2>5. ASSUME NEW q \in Readers
        PROVE  GoodReader(reader[q])'
    <3>1. reader'[q] \in ReaderState /\ GoodReader(reader'[q])
      BY <1>a, <1>12
    <3>2. reader'[q].kind # "closed" =>
            Bytes(image[reader[q].of])' = Bytes(image[reader'[q].of])
      BY <2>1 DEF Bytes
    <3> QED  BY <2>2, <3>1, <3>2 DEF GoodReader
  <2>6. reader' \in [Readers -> ReaderState]
    BY <1>a, <1>12
  <2>7. WholeInv'
    BY <1>a, <2>1, <2>3, <2>4, <2>5, <2>6 DEF WholeInv
  <2>8. Contents' = Contents
    <3>1. PICK i \in Live : TRUE
      BY <1>12
    <3>2. Contents = Bytes(image[i])
      BY <1>a, <3>1 DEF ContentsAre
    <3>3. Contents' = Bytes(image[i])'
      BY <1>b, <2>2, <2>7, <3>1 DEF ContentsAre
    <3> QED  BY <2>3, <3>1, <3>2, <3>3 DEF Live
  <2>9. Phase' = Phase
    BY <2>1, <2>2 DEF Phase
  <2>10. [q \in Readers |-> reader[q].seen]'
         = [[q \in Readers |-> reader[q].seen] EXCEPT ![r] = new.seen]
    BY <1>a, <1>12
  <2> QED  BY <2>1, <2>7, <2>8, <2>9, <2>10
<1>13. ASSUME NEW r \in Readers, OpenReader(r)
       PROVE  WholeInv' /\ [Buffer!Next]_(Buffer!bufferVars)
  <2>1. reader[r].kind = "closed" /\ reader[r].seen = << >> /\ UNCHANGED <<sinkVars, image>>
    BY <1>a, <1>13 DEF OpenReader, GoodReader
  <2>2. PICK i \in Live : \E knd \in {"Contiguous", "Scattered", "FileSlice"} :
          reader' = [reader EXCEPT ![r] = [Closed EXCEPT !.kind = knd, !.of = i]]
    BY <1>13, Zenon DEF OpenReader
  <2>3. PICK knd \in {"Contiguous", "Scattered", "FileSlice"} :
          reader' = [reader EXCEPT ![r] = [Closed EXCEPT !.kind = knd, !.of = i]]
    BY <2>2
  <2> DEFINE new == [Closed EXCEPT !.kind = knd, !.of = i]
  <2>4. /\ new \in ReaderState /\ new.kind # "closed" /\ new.of = i /\ new.pos = 0
        /\ new.seen = << >> /\ ~ new.eof
    <3>1. knd \in {"Contiguous", "Scattered", "FileSlice"} /\ i \in Images
      BY <2>2, <2>3 DEF Live
    <3>2. Closed \in ReaderState /\ Closed.pos = 0 /\ Closed.seen = << >> /\ ~ Closed.eof
      BY DEF Closed, ReaderState
    <3> QED  BY <3>1, <3>2 DEF ReaderState
  <2>5. reader' = [reader EXCEPT ![r] = new]
    BY <2>3
  <2> HIDE DEF new
  <2>6. Bytes(image[i]) \in Seq(Nat)
    BY <1>a, <2>2 DEF ContentsAre
  <2>7. GoodReader(new)
    BY <2>2, <2>4, <2>6, SubSeqEmpty DEF GoodReader
  <2>8. skind = "gone" /\ Live # {}
    BY <1>a, <1>c, <2>2
  <2>9. WholeInv' /\ UNCHANGED <<Contents, offered, Phase>>
        /\ [q \in Readers |-> reader[q].seen]'
           = [[q \in Readers |-> reader[q].seen] EXCEPT ![r] = new.seen]
    BY <1>12, <2>1, <2>4, <2>5, <2>7, <2>8
  <2> QED  BY <2>1, <2>4, <2>9 DEF Buffer!bufferVars
<1>14. ASSUME NEW r \in Readers, Read(r)
       PROVE  WholeInv' /\ [Buffer!Next]_(Buffer!bufferVars)
  <2> DEFINE i == reader[r].of
             src == Bytes(image[i])
  <2>1. /\ i \in Live /\ reader[r].pos <= Len(src) /\ reader[r] \in ReaderState
        /\ reader[r].seen = SubSeq(src, 1, reader[r].pos) /\ reader[r].kind # "closed"
        /\ reader[r].eof => reader[r].pos = Len(src)
    BY <1>a, <1>14 DEF Read, GoodReader
  <2>2. PICK k \in reader[r].pos + 1 .. Len(src) :
          reader' = [reader EXCEPT ![r].seen = @ \o SubSeq(src, reader[r].pos + 1, k),
                                   ![r].pos = k]
    BY <1>14 DEF Read, Pos, Source
  <2>3. src \in Seq(Nat) /\ src = Contents /\ reader[r].pos \in Nat
        /\ reader[r].seen \in Seq(Nat)
    BY <1>a, <2>1 DEF ContentsAre, ReaderState
  <2>4. UNCHANGED <<sinkVars, image>>
    BY <1>14 DEF Read
  <2> DEFINE new == [reader[r] EXCEPT !.seen = SubSeq(src, 1, k), !.pos = k]
  <2> HIDE DEF src, i
  <2>5. k \in Nat /\ k <= Len(src) /\ reader[r].pos < k /\ Len(src) \in Nat
    <3>1. reader[r].pos \in Nat /\ k \in reader[r].pos + 1 .. Len(src) /\ Len(src) \in Nat
      BY <2>2, <2>3
    <3> QED  BY ONLY <3>1
  <2>6. SubSeq(src, 1, reader[r].pos) \o SubSeq(src, reader[r].pos + 1, k) = SubSeq(src, 1, k)
    <3>1. reader[r].pos \in 1 - 1 .. Len(src) /\ k \in reader[r].pos .. Len(src)
          /\ 1 \in 1 .. Len(src) + 1
      BY <2>3, <2>5
    <3> QED  BY <2>3, <3>1, ConcatAdjacentSubSeq
  <2>7. reader' = [reader EXCEPT ![r] = new]
    BY <1>a, <2>1, <2>2, <2>6
  <2>8. SubSeq(src, 1, k) \in Seq(Nat)
    BY <2>3, <2>5, SubSeqOfSeq
  <2>9. /\ new \in ReaderState /\ new.of = i /\ new.pos = k /\ new.seen = SubSeq(src, 1, k)
        /\ new.kind # "closed" /\ ~ new.eof
    <3>1. ~ reader[r].eof
      BY <2>1, <2>3, <2>5
    <3> QED  BY <2>1, <2>5, <2>8, <3>1 DEF ReaderState, i
  <2> HIDE DEF new
  <2>10. GoodReader(new)
    BY <2>1, <2>5, <2>9 DEF GoodReader, src
  <2>11. WholeInv' /\ UNCHANGED <<Contents, offered, Phase>>
         /\ [q \in Readers |-> reader[q].seen]'
            = [[q \in Readers |-> reader[q].seen] EXCEPT ![r] = new.seen]
    BY <1>12, <1>c, <1>a, <2>1, <2>4, <2>7, <2>9, <2>10
  <2>12. Phase = "sealed"
    BY <1>c, <2>1 DEF Phase
  <2>13. Len(reader[r].seen) = reader[r].pos
    BY <2>1, <2>3, SubSeqOfSeq
  <2>14. Buffer!Observe(r)
    <3>1. k \in Len([q \in Readers |-> reader[q].seen][r]) .. Len(Contents)
      BY <2>3, <2>5, <2>13
    <3>2. [q \in Readers |-> reader[q].seen]'
          = [[q \in Readers |-> reader[q].seen] EXCEPT ![r] = SubSeq(Contents, 1, k)]
      BY <2>3, <2>9, <2>11
    <3> QED  BY <2>11, <2>12, <3>1, <3>2 DEF Buffer!Observe
  <2> QED  BY <2>11, <2>14 DEF Buffer!Next
<1>15. ASSUME NEW r \in Readers, ReadEof(r)
       PROVE  WholeInv' /\ [Buffer!Next]_(Buffer!bufferVars)
  <2> DEFINE new == [reader[r] EXCEPT !.eof = TRUE]
  <2>1. /\ reader[r].kind # "closed" /\ UNCHANGED <<sinkVars, image>>
        /\ reader[r].pos >= Len(Bytes(image[reader[r].of]))
        /\ reader' = [reader EXCEPT ![r] = new]
    BY <1>a, <1>15 DEF ReadEof, Pos, Source
  <2>2. new \in ReaderState /\ new.kind = reader[r].kind /\ new.of = reader[r].of
        /\ new.pos = reader[r].pos /\ new.seen = reader[r].seen /\ reader[r].pos \in Nat
    BY <1>a DEF ReaderState
  <2> HIDE DEF new
  <2>3. reader[r].of \in Live /\ Bytes(image[reader[r].of]) \in Seq(Nat) /\ skind = "gone"
    BY <1>a, <1>c, <2>1 DEF ContentsAre, GoodReader
  <2>4. GoodReader(new)
    <3>1. GoodReader(reader[r])
      BY <1>a
    <3>2. reader[r].pos = Len(Bytes(image[reader[r].of]))
      BY <2>1, <2>2, <2>3, <3>1 DEF GoodReader
    <3> QED  BY <2>1, <2>2, <2>3, <3>1, <3>2 DEF GoodReader
  <2>5. WholeInv' /\ UNCHANGED <<Contents, offered, Phase>>
        /\ [q \in Readers |-> reader[q].seen]'
           = [[q \in Readers |-> reader[q].seen] EXCEPT ![r] = new.seen]
    BY <1>12, <2>1, <2>2, <2>3, <2>4
  <2> QED  BY <2>2, <2>5 DEF Buffer!bufferVars
<1>16. ASSUME NEW r \in Readers, CloseReader(r)
       PROVE  WholeInv' /\ [Buffer!Next]_(Buffer!bufferVars)
  <2>1. /\ reader[r].kind # "closed" /\ UNCHANGED <<sinkVars, image>>
        /\ reader' = [reader EXCEPT ![r] = Closed]
    BY <1>16 DEF CloseReader
  <2>2. Closed \in ReaderState /\ GoodReader(Closed) /\ Closed.seen = << >>
    BY DEF Closed, ReaderState, GoodReader
  <2>3. skind = "gone" /\ Live # {}
    BY <1>a, <1>c, <2>1 DEF GoodReader
  <2>4. WholeInv' /\ UNCHANGED <<Contents, offered, Phase>>
        /\ [q \in Readers |-> reader[q].seen]'
           = [[q \in Readers |-> reader[q].seen] EXCEPT ![r] = << >>]
    BY <1>12, <2>1, <2>2, <2>3
  <2>5. Buffer!Reopen(r)
    BY <2>3, <2>4 DEF Buffer!Reopen, Phase
  <2> QED  BY <2>4, <2>5 DEF Buffer!Next
<1>17. CASE UNCHANGED vars
  <2>1. UNCHANGED <<skind, slen, ram, disk, offered, image, reader>>
    BY <1>17 DEF vars
  <2>2. Live' = Live /\ Stored' = Stored
    BY <2>1 DEF Live, Stored
  <2>3. \A j \in Images : Bytes(image[j])' = Bytes(image[j]) /\ Exact(image[j])'
    BY <1>a, <2>1 DEF Bytes, Exact
  <2>4. ClonesAgree' /\ \A r \in Readers : GoodReader(reader[r])'
    BY <1>a, <2>1, <2>2, <2>3 DEF ClonesAgree, Live, WholeInv, GoodReader
  <2>5. WholeInv'
    BY <1>a, <2>1, <2>3, <2>4 DEF WholeInv
  <2>6. UNCHANGED <<Contents, Phase>>
    BY <2>1, <2>2 DEF Contents, Phase, Stored, Bytes
  <2> QED  BY <2>1, <2>5, <2>6 DEF Buffer!bufferVars
<1> QED
  BY <1>2, <1>3, <1>4, <1>5, <1>6, <1>7, <1>9, <1>10, <1>11, <1>13, <1>14, <1>15,
     <1>16, <1>17 DEF Next

\* A sink and the images prepared from it are one buffer: what was taken with Ok
\* is, once and in order, what every reader of every clone reads, through
\* write_back, prepare, gather and mem_map, as long as a failed write leaves
\* nothing behind.
THEOREM ImplementsBuffer ==
  ASSUME "torn" \notin Faults
  PROVE  Spec => BufferSpec
<1>1. Init => WholeInv /\ Buffer!Init
  BY WholeInit
<1>2. WholeInv /\ [Next]_vars => WholeInv' /\ [Buffer!Next]_(Buffer!bufferVars)
  BY WholeNext
<1> QED  BY <1>1, <1>2, PTL DEF Spec, BufferSpec, Buffer!Spec

\* A reader that met the end has read exactly len() bytes.
THEOREM ReadersGetLenBytes ==
  ASSUME "torn" \notin Faults
  PROVE  Spec => []ReadAllOfLen
<1>1. WholeInv => ReadAllOfLen
  <2> SUFFICES ASSUME WholeInv, NEW r \in Readers, reader[r].eof
               PROVE  Len(reader[r].seen) = image[reader[r].of].len
    BY DEF ReadAllOfLen
  <2>1. /\ reader[r].of \in Live /\ reader[r].pos = Len(Bytes(image[reader[r].of]))
        /\ reader[r].seen = SubSeq(Bytes(image[reader[r].of]), 1, reader[r].pos)
    BY DEF WholeInv, GoodReader
  <2>2. /\ Bytes(image[reader[r].of]) \in Seq(Nat)
        /\ Len(Bytes(image[reader[r].of])) = image[reader[r].of].len
    BY <2>1, WholeContents DEF ContentsAre
  <2> QED  BY <2>1, <2>2, SubSeqFull
<1>2. WholeInv /\ [Next]_vars => WholeInv'
  BY WholeNext
<1>3. Init => WholeInv
  BY WholeInit
<1> QED  BY <1>1, <1>2, <1>3, PTL DEF Spec

=============================================================================
