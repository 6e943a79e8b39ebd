----------------------------- MODULE MCBarcFile -----------------------------
(* Model values and initial files for the runs of BarcFile. *)
EXTENDS BarcFile

CONSTANTS t1, t2, r1, r2

OneThread  == {t1}
TwoThreads == {t1, t2}
OneReader  == {r1}
TwoReaders == {r1, r2}

\* A session on a new file, or on one that already holds a record.
NewFile == {<< >>}
GoodFiles == {<< >>, <<DialogHead(0, 1, FALSE), Data(0, 1)>>}

\* sample/truncated.barc: a committed plain (or compressed) record whose file
\* ends before its payload does.
TruncatedFiles ==
  {<<DialogHead(0, 2, z), Data(0, 1)>> : z \in BOOLEAN}

\* A new file, or one that an earlier session left damaged.
AnyFiles == NewFile \cup TruncatedFiles

NoFaults    == {}
IoFaults    == {"io"}
AllButShort == {"io", "panic", "crash"}
ShortFaults == {"short", "io", "readerr"}
=============================================================================
