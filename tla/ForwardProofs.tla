--------------------------- MODULE ForwardProofs ----------------------------
(* Theorems about Forward, for any number of tasks, any setups, limits,       *)
(* permits and pool threads.                                                *)
EXTENDS Forward, FiniteSetTheorems, SequenceTheorems, TLAPS

-----------------------------------------------------------------------------
(* The inductive invariant. *)

Body == Seq(Nat \ {0})

Live(t) == task[t].pc \notin Ended

\* A side that asked for a permit, and one that sent its operation to the pool.
Asking == {"new", "queued", "granted", "running"}
Pooled == {"sent", "working", "result"}

\* What a side waits for fits to its policy, to its task and to its operation, which is
\* not run, and still has to block, until the permit or the pool thread is there.
SideInv(c) ==
  /\ wait[c] \in Asking => Mode(c) = "permit" /\ Live(c[1])
  /\ wait[c] \in Pooled => Mode(c) = "dispatch"
  /\ wait[c] \in {"new", "running"} => Polls(c)
  /\ wait[c] \in Asking \cup {"sent", "working"} => ~Unblocked(c)
  /\ wait[c] \in {"no", "result"} /\ Live(c[1]) => arbiter[c] = "Void"
  /\ wait[c] # "result" => out[c] = Nothing
  /\ wait[c] = "result" =>
       /\ out[c].poll \in (IF c[2] = "stream" THEN {"item", "end", "err"} ELSE {"ok", "err"})
       /\ out[c].poll = "item" <=> out[c].cells # << >>
       /\ out[c].poll = "end" => consumed[c[1]] = setup[c[1]].stored
       /\ c[2] = "sink" => sink[c[1]].buf = << >>

\* Where Forward is, what it holds and what its sides do.
TaskInv(t) ==
  /\ task[t].pc \in {"ready", "send"} => task[t].item # << >>
  /\ task[t].pc \in {"stream", "flush"} => task[t].item = << >>
  /\ task[t].pc \in {"close", "done"} => task[t].ended
  /\ task[t].ended => task[t].item = << >> /\ consumed[t] = setup[t].stored
  /\ task[t].ended \/ task[t].item # << >> => wait[<<t, "stream">>] = "no"
  /\ task[t].pc \in {"send", "done"} => sink[t].buf = << >> /\ wait[<<t, "sink">>] = "no"
  /\ consumed[t] <= setup[t].stored

\* Where the cells are that were read, and how many a sink holds.
BodyInv(t) ==
  /\ Healthy(t) =>
       sink[t].cells \o sink[t].buf \o task[t].item \o Underway(t) = Cells(0, consumed[t])
  /\ Len(sink[t].cells) <= MaxBody
  /\ sink[t].ram => Len(sink[t].cells) <= MaxBodyRam

\* Side c has left the task's waker with the Semaphore or the pool.
Awaits(c) == c \in heard /\ wait[c] \in {"queued", "sent", "working"}

WakeInv(t) ==
  t \notin woken =>
    /\ task[t].pc = "idle" => Awaits(<<t, "stream">>) \/ Awaits(<<t, "sink">>)
    /\ task[t].pc = "flush" => Awaits(<<t, "stream">>)

\* q lists the sides that are waiting in state w, each once.
Lists(q, w) ==
  IsInjective(q) /\ Range(q) = {c \in Sides : wait[c] = w}

QueueInv == Lists(waiters, "queued")

JobsInv == Lists(jobs, "sent")

\* Those who have a permit. (A side of a task that has ended has none.)
Holders == {c \in Sides : wait[c] \in {"granted", "running"}}

PermitInv == IsFiniteSet(Holders) /\ free + Cardinality(Holders) = Permits

Local(t) == /\ SideInv(<<t, "stream">>) /\ SideInv(<<t, "sink">>)
            /\ TaskInv(t) /\ BodyInv(t)

IInv == /\ TypeOK
        /\ \A t \in Tasks : Local(t) /\ WakeInv(t)
        /\ QueueInv /\ JobsInv /\ PermitInv

-----------------------------------------------------------------------------
(* Lemmas about the operators. *)

LEMMA SidesShape ==
  /\ \A t \in Tasks : <<t, "stream">> \in Sides /\ <<t, "sink">> \in Sides
  /\ \A c \in Sides : /\ c[1] \in Tasks
                      /\ c = <<c[1], "stream">> \/ c = <<c[1], "sink">>
BY DEF Sides

\* The cells from i to j.
LEMMA CellsProps ==
  ASSUME NEW i \in Nat, NEW j \in Nat, i <= j
  PROVE  /\ Cells(i, j) \in Body
         /\ Len(Cells(i, j)) = j - i
         /\ \A k \in 1 .. j - i : Cells(i, j)[k] = i + k
<1>1. j - i \in Nat /\ \A k \in 1 .. j - i : i + k \in Nat \ {0}
  OBVIOUS
<1>2. Cells(i, j) \in [1 .. j - i -> Nat \ {0}]
  BY <1>1 DEF Cells
<1>3. Cells(i, j) \in Body /\ Len(Cells(i, j)) = j - i
  BY <1>1, <1>2, SeqDef DEF Body
<1> QED  BY <1>3 DEF Cells

LEMMA CellsConcat ==
  ASSUME NEW i \in Nat, NEW j \in Nat, i <= j
  PROVE  Cells(0, i) \o Cells(i, j) = Cells(0, j)
<1> DEFINE a == Cells(0, i)  b == Cells(i, j)  c == Cells(0, j)
<1>1. /\ a \in Body /\ Len(a) = i /\ \A k \in 1 .. i : a[k] = k
      /\ b \in Body /\ Len(b) = j - i /\ \A k \in 1 .. j - i : b[k] = i + k
      /\ c \in Body /\ Len(c) = j /\ \A k \in 1 .. j : c[k] = k
  <2>1. 0 \in Nat /\ 0 <= i /\ 0 <= j /\ i - 0 = i /\ j - 0 = j
    OBVIOUS
  <2>2. a \in Body /\ Len(a) = i - 0 /\ \A k \in 1 .. i - 0 : a[k] = 0 + k
    BY <2>1, CellsProps
  <2>3. c \in Body /\ Len(c) = j - 0 /\ \A k \in 1 .. j - 0 : c[k] = 0 + k
    BY <2>1, CellsProps
  <2>4. b \in Body /\ Len(b) = j - i /\ \A k \in 1 .. j - i : b[k] = i + k
    BY CellsProps
  <2> QED  BY <2>1, <2>2, <2>3, <2>4
<1> HIDE DEF a, b, c
<1>2. /\ a \o b \in Body /\ Len(a \o b) = Len(a) + Len(b)
      /\ \A k \in 1 .. Len(a) + Len(b) :
           (a \o b)[k] = IF k <= Len(a) THEN a[k] ELSE b[k - Len(a)]
  <2>1. a \in Seq(Nat \ {0}) /\ b \in Seq(Nat \ {0})
    BY <1>1 DEF Body
  <2>2. /\ a \o b \in Seq(Nat \ {0}) /\ Len(a \o b) = Len(a) + Len(b)
        /\ \A k \in 1 .. Len(a) + Len(b) :
             (a \o b)[k] = IF k <= Len(a) THEN a[k] ELSE b[k - Len(a)]
    BY <2>1, ConcatProperties, Zenon
  <2> QED  BY <2>2 DEF Body
<1>3. Len(a \o b) = Len(c)
  BY <1>1, <1>2
<1>4. \A k \in 1 .. Len(c) : (a \o b)[k] = c[k]
  BY <1>1, <1>2
<1>5. a \o b = c
  BY <1>1, <1>2, <1>3, <1>4, SeqEqual DEF Body
<1> QED  BY <1>5 DEF a, b, c

\* A queue that one element leaves, pointwise.
LEMMA RemoveFirstElements ==
  ASSUME NEW S, NEW q \in Seq(S), NEW e,
         \A i, j \in 1 .. Len(q) : i # j => q[i] # q[j]
  PROVE  /\ RemoveFirst(q, e) \in Seq(S)
         /\ \A i, j \in 1 .. Len(RemoveFirst(q, e)) :
              i # j => RemoveFirst(q, e)[i] # RemoveFirst(q, e)[j]
         /\ \A x : (\E i \in 1 .. Len(RemoveFirst(q, e)) : RemoveFirst(q, e)[i] = x)
                     <=> x # e /\ \E i \in 1 .. Len(q) : q[i] = x
<1>1. CASE ~\E i \in 1 .. Len(q) : q[i] = e
  BY <1>1 DEF RemoveFirst
<1>2. ASSUME NEW n \in 1 .. Len(q), q[n] = e
      PROVE  /\ RemoveFirst(q, e) \in Seq(S)
             /\ \A i, j \in 1 .. Len(RemoveFirst(q, e)) :
                  i # j => RemoveFirst(q, e)[i] # RemoveFirst(q, e)[j]
             /\ \A x : (\E i \in 1 .. Len(RemoveFirst(q, e)) : RemoveFirst(q, e)[i] = x)
                         <=> x # e /\ \E i \in 1 .. Len(q) : q[i] = x
  <2> DEFINE a == SubSeq(q, 1, n - 1)  b == SubSeq(q, n + 1, Len(q))  p == a \o b
  <2>1. {i \in 1 .. Len(q) : q[i] = e} = {n}
    BY <1>2
  <2>2. Min({n}) = n
    BY DEF Min
  <2>3. SelectInSeq(q, LAMBDA v : v = e) = n
    BY <2>1, <2>2 DEF SelectInSeq
  <2>4. RemoveFirst(q, e) = p
    BY <1>2, <2>3 DEF RemoveFirst, RemoveAt
  <2>5. /\ a \in Seq(S) /\ Len(a) = n - 1 /\ \A i \in 1 .. n - 1 : a[i] = q[i]
        /\ b \in Seq(S) /\ Len(b) = Len(q) - n
        /\ \A i \in 1 .. Len(q) - n : b[i] = q[i + n]
    OBVIOUS
  <2> HIDE DEF a, b
  <2>6. /\ p \in Seq(S) /\ Len(p) = Len(a) + Len(b)
        /\ \A i \in 1 .. Len(a) + Len(b) :
             p[i] = IF i <= Len(a) THEN a[i] ELSE b[i - Len(a)]
    BY <2>5, ConcatProperties, ZenonT(60)
  <2> HIDE DEF p
  <2>7. /\ Len(q) \in Nat /\ n \in 1 .. Len(q) /\ Len(p) = Len(q) - 1
        /\ \A i \in 1 .. Len(p) : p[i] = q[IF i < n THEN i ELSE i + 1]
    <3>1. Len(q) \in Nat /\ n \in 1 .. Len(q) /\ Len(p) = Len(q) - 1
      BY <2>5, <2>6
    <3>2. ASSUME NEW i \in 1 .. Len(p), i < n  PROVE p[i] = q[i]
      <4>1. i \in 1 .. n - 1 /\ i <= Len(a) /\ i \in 1 .. Len(a) + Len(b)
        BY <3>1, <3>2, <2>5, <2>6
      <4>2. p[i] = a[i]
        BY <4>1, <2>6
      <4> QED  BY <4>1, <4>2, <2>5
    <3>3. ASSUME NEW i \in 1 .. Len(p), ~(i < n)  PROVE p[i] = q[i + 1]
      <4>1. i - Len(a) \in 1 .. Len(q) - n /\ i - Len(a) + n = i + 1 /\ ~(i <= Len(a))
        BY <3>1, <3>3, <2>5
      <4>2. p[i] = b[i - Len(a)]
        BY <4>1, <2>6
      <4> QED  BY <4>1, <4>2, <2>5
    <3> QED  BY <3>1, <3>2, <3>3
  <2>8. \A i, j \in 1 .. Len(p) : i # j => p[i] # p[j]
    BY <2>7
  <2>9. ASSUME NEW x  PROVE (\E i \in 1 .. Len(p) : p[i] = x)
                             <=> x # e /\ \E i \in 1 .. Len(q) : q[i] = x
    <3>1. ASSUME NEW i \in 1 .. Len(p), p[i] = x
          PROVE  x # e /\ \E k \in 1 .. Len(q) : q[k] = x
      <4> DEFINE k == IF i < n THEN i ELSE i + 1
      <4>1. k \in 1 .. Len(q) /\ k # n /\ q[k] = x
        BY <2>7, <3>1
      <4> QED  BY <4>1, <1>2
    <3>2. ASSUME NEW k \in 1 .. Len(q), q[k] = x, x # e
          PROVE  \E i \in 1 .. Len(p) : p[i] = x
      <4> DEFINE i == IF k < n THEN k ELSE k - 1
      <4>1. k # n
        BY <3>2, <1>2
      <4>2. i \in 1 .. Len(p) /\ (IF i < n THEN i ELSE i + 1) = k
        BY <4>1, <2>7
      <4>3. p[i] = x
        BY <4>2, <2>7, <3>2
      <4> QED  BY <4>2, <4>3
    <3> QED  BY <3>1, <3>2
  <2> QED  BY <2>4, <2>6, <2>8, <2>9
<1> QED  BY <1>1, <1>2

\* The same with the elements of the queue as a set.
LEMMA RemoveFirstProps ==
  ASSUME NEW S, NEW q \in Seq(S), NEW e, IsInjective(q)
  PROVE  /\ RemoveFirst(q, e) \in Seq(S)
         /\ IsInjective(RemoveFirst(q, e))
         /\ Range(RemoveFirst(q, e)) = Range(q) \ {e}
<1> DEFINE p == RemoveFirst(q, e)
<1>1. \A i, j \in 1 .. Len(q) : i # j => q[i] # q[j]
  BY DEF IsInjective
<1>2. /\ p \in Seq(S)
      /\ \A i, j \in 1 .. Len(p) : i # j => p[i] # p[j]
      /\ \A x : (\E i \in 1 .. Len(p) : p[i] = x) <=> x # e /\ \E i \in 1 .. Len(q) : q[i] = x
  BY <1>1, RemoveFirstElements
<1> HIDE DEF p
<1>3. DOMAIN p = 1 .. Len(p) /\ DOMAIN q = 1 .. Len(q)
  BY <1>2
<1>4. IsInjective(p)
  BY <1>2, <1>3 DEF IsInjective
<1>5. /\ \A x : x \in Range(p) <=> \E i \in 1 .. Len(p) : p[i] = x
      /\ \A x : x \in Range(q) <=> \E i \in 1 .. Len(q) : q[i] = x
  BY <1>3 DEF Range
<1>6. Range(p) = Range(q) \ {e}
  BY <1>2, <1>5
<1> QED  BY <1>2, <1>4, <1>6 DEF p

-----------------------------------------------------------------------------
(* Lemmas about the operations. *)

\* What TypeOK says of one task.
LEMMA TaskTypes ==
  ASSUME TypeOK, NEW t \in Tasks
  PROVE  /\ setup[t].len \in Nat /\ setup[t].stored \in Nat
         /\ setup[t].stored <= setup[t].len
         /\ setup[t].kind \in {"Ram", "File", "MemMap"}
         /\ setup[t].kind # "File" => setup[t].stored = setup[t].len
         /\ setup[t].reads \in Modes /\ setup[t].writes \in Modes
         /\ consumed[t] \in Nat
         /\ task[t].item \in Body
         /\ sink[t].cells \in Body /\ sink[t].buf \in Body
         /\ Len(sink[t].cells) \in Nat /\ Len(sink[t].buf) \in Nat
<1>1. setup[t] \in Setups
  BY DEF TypeOK
<1>2. setup[t] \in SetupType /\ setup[t].stored <= setup[t].len
      /\ (setup[t].kind # "File" => setup[t].stored = setup[t].len)
  BY <1>1, ForwardAssumption
<1>3. task[t].item \in Body /\ sink[t].cells \in Body /\ sink[t].buf \in Body /\ consumed[t] \in Nat
  BY DEF TypeOK, Body
<1>4. Len(sink[t].cells) \in Nat /\ Len(sink[t].buf) \in Nat
  BY <1>3 DEF Body
<1> QED  BY <1>2, <1>3, <1>4 DEF SetupType

\* What a read may return.
LEMMA StreamResultIs ==
  ASSUME TypeOK, NEW t \in Tasks, consumed[t] <= setup[t].stored,
         NEW r \in StreamResults(t)
  PROVE  \/ r = Failure /\ setup[t].kind # "Ram" /\ Avail(t) # 0
         \/ r = End /\ consumed[t] = setup[t].stored
         \/ /\ Avail(t) # 0
            /\ \E n \in Nat \ {0} : consumed[t] + n <= setup[t].stored /\ r = Item(t, n)
<1>1. CASE Avail(t) = 0
  BY <1>1, TaskTypes DEF StreamResults, Avail
<1>2. CASE Avail(t) # 0 /\ setup[t].kind = "Ram"
  <2>1. PICK n \in 1 .. Avail(t) : r = Item(t, n)
    BY <1>2 DEF StreamResults
  <2> QED  BY <1>2, <2>1, TaskTypes DEF Avail
<1>3. CASE Avail(t) # 0 /\ setup[t].kind = "MemMap"
  <2>1. r = Item(t, Avail(t)) \/ r = Failure
    BY <1>3 DEF StreamResults, Failures
  <2>2. Avail(t) \in Nat \ {0} /\ consumed[t] + Avail(t) <= setup[t].stored
    BY <1>3, TaskTypes DEF Avail
  <2> QED  BY <1>3, <2>1, <2>2
<1>4. CASE Avail(t) # 0 /\ setup[t].kind = "File"
  <2>1. CASE consumed[t] = setup[t].stored
    BY <1>4, <2>1 DEF StreamResults, Failures
  <2>2. CASE consumed[t] # setup[t].stored
    <3>1. r = Failure \/ \E n \in 1 .. ReadLen(t) : r = Item(t, n)
      BY <1>4, <2>2 DEF StreamResults, Failures
    <3>2. \A n \in 1 .. ReadLen(t) : n \in Nat \ {0} /\ consumed[t] + n <= setup[t].stored
      BY TaskTypes, ForwardAssumption DEF ReadLen
    <3> QED  BY <1>4, <3>1, <3>2
  <2> QED  BY <2>1, <2>2
<1> QED  BY <1>1, <1>2, <1>3, <1>4, TaskTypes

LEMMA ItemIs ==
  ASSUME TypeOK, NEW t \in Tasks, NEW n \in Nat \ {0}
  PROVE  /\ Item(t, n).poll = "item"
         /\ Item(t, n).cells = Cells(consumed[t], consumed[t] + n)
         /\ Item(t, n).cells \in Body
         /\ Len(Item(t, n).cells) = n
         /\ Item(t, n).cells # << >>
<1>1. /\ consumed[t] \in Nat /\ consumed[t] + n \in Nat /\ consumed[t] <= consumed[t] + n
      /\ consumed[t] + n - consumed[t] = n
  BY TaskTypes
<1> DEFINE i == consumed[t]  j == consumed[t] + n
<1> HIDE DEF i, j
<1>a. i \in Nat /\ j \in Nat /\ i <= j /\ j - i = n
  BY <1>1 DEF i, j
<1>b. Cells(i, j) \in Body /\ Len(Cells(i, j)) = j - i
  BY <1>a, CellsProps
<1>2. /\ Cells(consumed[t], consumed[t] + n) \in Body
      /\ Len(Cells(consumed[t], consumed[t] + n)) = n
  BY <1>a, <1>b DEF i, j
<1>3. Cells(consumed[t], consumed[t] + n) # << >>
  BY <1>1, <1>2
<1> QED  BY <1>1, <1>2, <1>3 DEF Item

\* What a write may return.
LEMMA SinkResultIs ==
  ASSUME NEW t \in Tasks, NEW r \in SinkResults(t)
  PROVE  \/ r = Failure /\ sink[t].buf # << >> /\ (Unblocked(<<t, "sink">>) => TooLong(t))
         \/ r = Ok /\ (sink[t].buf = << >> \/ ~TooLong(t))
<1>1. CASE sink[t].buf # << >> /\ TooLong(t)
  BY <1>1 DEF SinkResults
<1>2. CASE ~(sink[t].buf # << >> /\ TooLong(t))
  <2>1. r = Ok \/ (r = Failure /\ ~Unblocked(<<t, "sink">>))
    <3>1. r \in {Ok} \cup (IF Unblocked(<<t, "sink">>) THEN {} ELSE Failures)
      BY <1>2, Zenon DEF SinkResults
    <3>2. CASE Unblocked(<<t, "sink">>)
      <4>1. r \in {Ok} \cup {}
        BY <3>1, <3>2, Zenon
      <4> QED  BY <4>1
    <3>3. CASE ~Unblocked(<<t, "sink">>)
      <4>1. r = Ok \/ r \in Failures
        BY <3>1, <3>3, Zenon
      <4> QED  BY <4>1, <3>3 DEF Failures
    <3> QED  BY <3>2, <3>3
  <2>2. ~Unblocked(<<t, "sink">>) => sink[t].buf # << >>
    BY DEF Unblocked
  <2> QED  BY <1>2, <2>1, <2>2
<1> QED  BY <1>1, <1>2

-----------------------------------------------------------------------------
(* Types of what a step leaves. *)

TaskRec == [pc : {"idle", "stream", "ready", "send", "flush", "close", "failing"} \cup Ended,
            item : Body, ended : BOOLEAN]

SinkRec == [ram : BOOLEAN, cells : Body, buf : Body]

OutRec == [poll : {"none", "item", "end", "ok", "err"}, cells : Body]

\* The results of the polls of side c.
LEMMA ResultTypes ==
  ASSUME TypeOK, NEW c \in Sides, TaskInv(c[1]), NEW r \in Results(c)
  PROVE  /\ r \in OutRec
         /\ r.poll \in (IF c[2] = "stream" THEN {"item", "end", "err"} ELSE {"ok", "err"})
         /\ r.poll = "item" <=> r.cells # << >>
         /\ r.poll = "end" => consumed[c[1]] = setup[c[1]].stored
<1> DEFINE t == c[1]
<1>0. t \in Tasks /\ c[2] \in {"stream", "sink"} /\ << >> \in Body
  BY SidesShape DEF Sides, Body
<1>1. CASE c[2] = "stream"
  <2>1. consumed[t] <= setup[t].stored /\ r \in StreamResults(t)
    BY <1>1 DEF TaskInv, Results
  <2>2. CASE r = Failure
    BY <1>0, <1>1, <2>2 DEF Failure, OutRec
  <2>3. CASE r = End /\ consumed[t] = setup[t].stored
    BY <1>0, <1>1, <2>3 DEF End, OutRec
  <2>4. ASSUME NEW n \in Nat \ {0}, r = Item(t, n)
        PROVE  r \in OutRec /\ r.poll = "item" /\ r.cells # << >>
    <3>1. r.poll = "item" /\ r.cells \in Body /\ r.cells # << >>
      BY <1>0, <2>4, ItemIs
    <3>2. r \in OutRec
      BY <2>4, <3>1 DEF Item, OutRec
    <3> QED  BY <3>1, <3>2
  <2> QED  BY <1>0, <1>1, <2>1, <2>2, <2>3, <2>4, StreamResultIs
<1>2. CASE c[2] = "sink"
  <2>1. r = Failure \/ r = Ok
    BY <1>0, <1>2, SinkResultIs DEF Results
  <2> QED  BY <1>0, <1>2, <2>1 DEF Failure, Ok, OutRec
<1> QED  BY <1>0, <1>1, <1>2

LEMMA DeliverTypes ==
  ASSUME TypeOK, NEW c \in Sides, Polls(c), NEW r, r.cells \in Body, Deliver(c, r),
         r.poll \in (IF c[2] = "stream" THEN {"item", "end", "err", "pending"}
                                        ELSE {"ok", "err", "pending"})
  PROVE  task' \in [Tasks -> TaskRec]
<1> DEFINE t == c[1]
<1>0. t \in Tasks /\ c[2] \in {"stream", "sink"} /\ task \in [Tasks -> TaskRec]
  BY SidesShape DEF Sides, TypeOK, TaskRec, Body
<1>1. CASE c[2] = "stream"
  <2>1. AfterStream(task[t], r) \in TaskRec
    BY <1>0, <1>1 DEF AfterStream, TaskRec
  <2> QED  BY <1>0, <1>1, <2>1 DEF Deliver
<1>2. CASE c[2] = "sink"
  <2>0. task[t].pc \in {"ready", "flush", "close"}
    BY <1>2 DEF Polls
  <2>1. AfterSink(task[t], r) \in TaskRec
    <3>0. task[t] \in TaskRec
      BY <1>0
    <3>1. CASE r.poll = "err"
      BY <3>0, <3>1 DEF AfterSink, TaskRec
    <3>2. CASE r.poll = "pending"
      BY <3>0, <3>2 DEF AfterSink, TaskRec
    <3>3. CASE r.poll = "ok" /\ task[t].pc = "flush"
      BY <3>0, <3>3 DEF AfterSink, TaskRec
    <3>4. CASE r.poll = "ok" /\ task[t].pc = "ready"
      BY <3>0, <3>4 DEF AfterSink, TaskRec
    <3>5. CASE r.poll = "ok" /\ task[t].pc = "close"
      BY <3>0, <3>5 DEF AfterSink, TaskRec, Ended
    <3> QED  BY <1>2, <2>0, <3>1, <3>2, <3>3, <3>4, <3>5
  <2> QED  BY <1>0, <1>2, <2>1 DEF Deliver
<1> QED  BY <1>0, <1>1, <1>2

LEMMA ApplyTypes ==
  ASSUME TypeOK, NEW c \in Sides, NEW r, r.cells \in Body, Apply(c, r)
  PROVE  consumed' \in [Tasks -> Nat] /\ sink' \in [Tasks -> SinkRec]
<1> DEFINE t == c[1]
<1>0. /\ t \in Tasks /\ c[2] \in {"stream", "sink"}
      /\ consumed \in [Tasks -> Nat] /\ sink \in [Tasks -> SinkRec]
  BY SidesShape DEF Sides, TypeOK, SinkRec, Body
<1>1. CASE c[2] = "stream"
  <2>1. consumed[t] + Len(r.cells) \in Nat
    BY <1>0 DEF Body
  <2> QED  BY <1>0, <1>1, <2>1 DEF Apply
<1>2. CASE c[2] = "sink"
  <2>1. sink[t].cells \in Body /\ sink[t].buf \in Body /\ << >> \in Body
    BY <1>0 DEF SinkRec, Body
  <2>2. Written(sink[t]) \in Body
    BY <2>1 DEF Written, Body
  <2>3. (IF r.poll = "ok" THEN Written(sink[t]) ELSE sink[t].cells) \in Body
    BY <2>1, <2>2
  <2>4. (sink[t].ram /\ (sink[t].buf = << >> \/ TooLong(t) \/ FitsRam(t))) \in BOOLEAN
    BY Zenon
  <2>5. AfterSend(t, r) \in SinkRec
    BY <2>1, <2>3, <2>4, Zenon DEF AfterSend, SinkRec
  <2> QED  BY <1>0, <1>2, <2>5 DEF Apply
<1> QED  BY <1>0, <1>1, <1>2

-----------------------------------------------------------------------------
(* What a step does to one task. *)

\* Side c is not the one that moves: its state stays, but it may be granted the permit
\* or be taken by the pool thread that it waits for.
WaitMoves(c) ==
  \/ wait'[c] = wait[c]
  \/ wait[c] = "queued" /\ wait'[c] = "granted"
  \/ wait[c] = "sent" /\ wait'[c] = "working"

SideStays(c) ==
  /\ setup' = setup
  /\ IF c[2] = "stream" THEN consumed'[c[1]] = consumed[c[1]] ELSE sink'[c[1]] = sink[c[1]]
  /\ arbiter'[c] = arbiter[c] /\ out'[c] = out[c] /\ WaitMoves(c)

TaskStays(t) ==
  /\ task'[t] = task[t] /\ consumed'[t] = consumed[t] /\ sink'[t] = sink[t]
  /\ SideStays(<<t, "stream">>) /\ SideStays(<<t, "sink">>)

LEMMA SideStaysInv ==
  ASSUME NEW c \in Sides, SideInv(c), SideStays(c), Live(c[1]) <=> Live(c[1])',
         wait[c] \in {"new", "running"} => Polls(c)'
  PROVE  SideInv(c)'
<1> DEFINE t == c[1]
<1>1. /\ Mode(c)' = Mode(c)
      /\ Unblocked(c)' <=> Unblocked(c)
  <2>1. CASE c[2] = "stream"
    BY <2>1 DEF SideStays, Mode, Unblocked, Avail
  <2>2. CASE c[2] = "sink"
    BY <2>2 DEF SideStays, Mode, Unblocked, TooLong, FitsRam, NewLen
  <2> QED  BY <2>1, <2>2 DEF Sides
<1>2. /\ wait'[c] \in Asking <=> wait[c] \in Asking
      /\ wait'[c] \in Pooled <=> wait[c] \in Pooled
      /\ wait'[c] \in Asking \cup {"sent", "working"} <=> wait[c] \in Asking \cup {"sent", "working"}
      /\ wait'[c] = "result" <=> wait[c] = "result"
      /\ wait'[c] \in {"no", "result"} <=> wait[c] \in {"no", "result"}
      /\ wait'[c] \in {"new", "running"} <=> wait[c] \in {"new", "running"}
  BY DEF SideStays, WaitMoves, Asking, Pooled
<1>3. out'[c] = out[c] /\ arbiter'[c] = arbiter[c] /\ setup' = setup
  BY DEF SideStays
<1>4. /\ c[2] = "stream" => consumed'[t] = consumed[t]
      /\ c[2] = "sink" => sink'[t] = sink[t]
  BY DEF SideStays
<1>5. /\ wait'[c] \in Asking => Mode(c)' = "permit" /\ Live(c[1])'
      /\ wait'[c] \in Pooled => Mode(c)' = "dispatch"
      /\ wait'[c] \in {"new", "running"} => Polls(c)'
      /\ wait'[c] \in Asking \cup {"sent", "working"} => ~Unblocked(c)'
      /\ wait'[c] \in {"no", "result"} /\ Live(c[1])' => arbiter'[c] = "Void"
      /\ wait'[c] # "result" => out'[c] = Nothing
  BY <1>1, <1>2, <1>3 DEF SideInv
<1>6. ASSUME wait'[c] = "result"
      PROVE /\ out'[c].poll \in (IF c[2] = "stream" THEN {"item", "end", "err"} ELSE {"ok", "err"})
            /\ out'[c].poll = "item" <=> out'[c].cells # << >>
            /\ out'[c].poll = "end" => consumed'[c[1]] = setup'[c[1]].stored
            /\ c[2] = "sink" => sink'[c[1]].buf = << >>
  <2>1. /\ out[c].poll \in (IF c[2] = "stream" THEN {"item", "end", "err"} ELSE {"ok", "err"})
        /\ out[c].poll = "item" <=> out[c].cells # << >>
        /\ out[c].poll = "end" => consumed[c[1]] = setup[c[1]].stored
        /\ c[2] = "sink" => sink[c[1]].buf = << >>
    BY <1>2, <1>6 DEF SideInv
  <2> QED  BY <2>1, <1>3, <1>4 DEF Sides
<1> QED  BY <1>5, <1>6 DEF SideInv, Nothing

\* A task that a step leaves alone keeps what the invariant says of it.
LEMMA TaskStaysInv ==
  ASSUME NEW t \in Tasks, Local(t), TaskStays(t)
  PROVE  Local(t)'
<1> DEFINE s == <<t, "stream">>  k == <<t, "sink">>
<1>0. s \in Sides /\ k \in Sides /\ s[1] = t /\ k[1] = t /\ s[2] = "stream" /\ k[2] = "sink"
  BY DEF Sides
<1>1. task'[t] = task[t] /\ consumed'[t] = consumed[t] /\ sink'[t] = sink[t] /\ setup' = setup
  BY DEF TaskStays, SideStays
<1>2. SideStays(s) /\ SideStays(k) /\ SideInv(s) /\ SideInv(k)
  BY DEF TaskStays, Local
<1>3. Live(t)' <=> Live(t)
  BY <1>1 DEF Live
<1>4. (Polls(s)' <=> Polls(s)) /\ (Polls(k)' <=> Polls(k))
  BY <1>1 DEF Polls
<1>5. SideInv(s)' /\ SideInv(k)'
  <2>1. SideInv(s)'
    <3>1. wait[s] \in {"new", "running"} => Polls(s)'
      BY <1>2, <1>4 DEF SideInv
    <3> QED  BY <1>0, <1>2, <1>3, <3>1, SideStaysInv
  <2>2. SideInv(k)'
    <3>1. wait[k] \in {"new", "running"} => Polls(k)'
      BY <1>2, <1>4 DEF SideInv
    <3> QED  BY <1>0, <1>2, <1>3, <3>1, SideStaysInv
  <2> QED  BY <2>1, <2>2
<1>6. /\ wait'[s] = "no" <=> wait[s] = "no"
      /\ wait'[k] = "no" <=> wait[k] = "no"
      /\ wait'[s] = "result" <=> wait[s] = "result"
      /\ wait'[k] = "result" <=> wait[k] = "result"
      /\ out'[s] = out[s] /\ out'[k] = out[k]
  BY <1>2 DEF SideStays, WaitMoves
<1>7. TaskInv(t)'
  <2>1. TaskInv(t)
    BY DEF Local
  <2> HIDE DEF s, k
  <2> QED  BY <1>1, <1>6, <2>1 DEF TaskInv, s, k
<1>8. BodyInv(t)'
  <2>1. Healthy(t)' => Healthy(t)
    BY <1>0, <1>1, <1>6, SidesShape DEF Healthy
  <2>2. Underway(t)' = Underway(t)
    BY <1>6 DEF Underway
  <2> QED  BY <1>1, <2>1, <2>2 DEF Local, BodyInv
<1> QED  BY <1>5, <1>7, <1>8 DEF Local

\* A read adds the next cells at the end of what was read before.
LEMMA ReadOn ==
  ASSUME NEW a \in Body, NEW b \in Body, NEW i \in Nat, NEW n \in Nat,
         a \o b \o << >> \o << >> = Cells(0, i)
  PROVE  /\ a \o b \o Cells(i, i + n) \o << >> = Cells(0, i + n)
         /\ a \o b \o << >> \o Cells(i, i + n) = Cells(0, i + n)
<1> DEFINE x == a \o b  y == Cells(i, i + n)
<1>1. x \in Body
  BY DEF Body
<1>2. i + n \in Nat /\ i <= i + n
  OBVIOUS
<1>3. y \in Body
  <2> HIDE DEF y
  <2>1. Cells(i, i + n) \in Body
    BY <1>2, CellsProps
  <2> QED  BY <2>1 DEF y
<1>4. Cells(0, i) \o y = Cells(0, i + n)
  BY <1>2, CellsConcat
<1>5. /\ x \o << >> = x
      /\ x \o y \in Body
  <2> HIDE DEF x, y
  <2> QED  BY <1>1, <1>3 DEF Body
<1>6. (x \o y) \o << >> = x \o y
  <2> HIDE DEF x, y
  <2>1. x \o y \in Seq(Nat \ {0})
    BY <1>5 DEF Body
  <2> QED  BY <2>1, ConcatEmptySeq, Zenon
<1>7. x = Cells(0, i)
  BY <1>5
<1> HIDE DEF x, y
<1>8. (x \o y) \o << >> = Cells(0, i + n) /\ (x \o << >>) \o y = Cells(0, i + n)
  BY <1>4, <1>5, <1>6, <1>7, Zenon
<1> QED  BY <1>8 DEF x, y

\* The stream side answers a poll with a result.
LEMMA StreamCompletesInv ==
  ASSUME TypeOK, NEW t \in Tasks, Local(t), NEW r \in StreamResults(t),
         Polls(<<t, "stream">>), wait[<<t, "stream">>] \in {"no", "running"},
         Apply(<<t, "stream">>, r), Deliver(<<t, "stream">>, r),
         wait'[<<t, "stream">>] = "no", arbiter'[<<t, "stream">>] = "Void",
         out'[<<t, "stream">>] = out[<<t, "stream">>],
         SideStays(<<t, "sink">>)
  PROVE  Local(t)'
<1> DEFINE s == <<t, "stream">>  k == <<t, "sink">>
<1>0. s \in Sides /\ k \in Sides /\ s[1] = t /\ k[1] = t /\ s[2] = "stream" /\ k[2] = "sink"
  BY DEF Sides
<1>1. SideInv(s) /\ SideInv(k) /\ TaskInv(t) /\ BodyInv(t)
  BY DEF Local
<1>2. task[t].pc = "stream" /\ ~task[t].ended /\ task[t].item = << >>
  BY <1>1 DEF Polls, TaskInv
<1>3. /\ setup' = setup
      /\ sink' = sink
      /\ consumed'[t] = consumed[t] + Len(r.cells)
      /\ task'[t] = AfterStream(task[t], r)
      /\ out'[s] = Nothing /\ out'[k] = out[k]
  <2>1. t \in DOMAIN consumed /\ t \in DOMAIN task
    BY DEF TypeOK
  <2> QED  BY <2>1, <1>1 DEF SideStays, Apply, Deliver, SideInv
<1>4. task[t] \in TaskRec /\ consumed[t] \in Nat
  BY DEF TypeOK, TaskRec, Body
<1>5. \/ /\ r = Failure /\ task'[t].pc = "failing"
         /\ task'[t].item = << >> /\ ~task'[t].ended /\ consumed'[t] = consumed[t]
      \/ /\ r = End /\ task'[t].pc = "close" /\ consumed[t] = setup[t].stored
         /\ task'[t].item = << >> /\ task'[t].ended /\ consumed'[t] = consumed[t]
      \/ \E n \in Nat \ {0} :
           /\ r = Item(t, n) /\ consumed[t] + n <= setup[t].stored
           /\ task'[t].pc = "ready" /\ ~task'[t].ended
           /\ task'[t].item = Cells(consumed[t], consumed[t] + n)
           /\ task'[t].item # << >> /\ consumed'[t] = consumed[t] + n
  <2>0. consumed[t] <= setup[t].stored
    BY <1>1 DEF TaskInv
  <2>1. CASE r = Failure
    BY <2>1, <1>2, <1>3, <1>4 DEF Failure, AfterStream, TaskRec
  <2>2. CASE r = End /\ consumed[t] = setup[t].stored
    <3>1. task'[t] = [task[t] EXCEPT !.pc = "close", !.ended = TRUE]
      BY <2>2, <1>3 DEF End, AfterStream
    <3>2. /\ task'[t].pc = "close" /\ task'[t].item = << >>
          /\ task'[t].ended = TRUE
      BY <3>1, <1>2, <1>4 DEF TaskRec
    <3>3. consumed'[t] = consumed[t]
      BY <2>2, <1>3, <1>4 DEF End
    <3> QED  BY <2>2, <3>2, <3>3
  <2>3. ASSUME NEW n \in Nat \ {0}, r = Item(t, n), consumed[t] + n <= setup[t].stored
        PROVE  /\ task'[t].pc = "ready" /\ ~task'[t].ended
               /\ task'[t].item = Cells(consumed[t], consumed[t] + n)
               /\ task'[t].item # << >> /\ consumed'[t] = consumed[t] + n
    <3>1. /\ r.poll = "item" /\ r.cells = Cells(consumed[t], consumed[t] + n)
          /\ Len(r.cells) = n /\ r.cells # << >>
      BY <2>3, ItemIs
    <3> QED  BY <3>1, <1>2, <1>3, <1>4 DEF AfterStream, TaskRec
  <2> QED  BY <2>0, <2>1, <2>2, <2>3, StreamResultIs
<1>6. Live(t) /\ Live(t)'
  BY <1>2, <1>5 DEF Live, Ended
<1>7. SideInv(s)'
  BY <1>0, <1>3 DEF SideInv, Asking, Pooled
<1>8. SideInv(k)'
  <2>1. wait[k] \notin {"new", "running"}
    BY <1>0, <1>1, <1>2 DEF SideInv, Polls
  <2> QED  BY <1>0, <1>1, <1>6, <2>1, SideStaysInv
<1>9. wait'[s] = "no" /\ (wait'[k] = "result" <=> wait[k] = "result")
  BY DEF SideStays, WaitMoves
<1>10. TaskInv(t)'
  BY <1>1, <1>3, <1>4, <1>5, <1>9 DEF TaskInv
<1>11. BodyInv(t)'
  <2>1. SUFFICES ASSUME Healthy(t)'
                 PROVE  sink[t].cells \o sink[t].buf \o task'[t].item \o << >>
                          = Cells(0, consumed'[t])
    BY <1>1, <1>3, <1>9 DEF BodyInv, Underway
  <2>2. Healthy(t) /\ task'[t].pc # "failing"
    BY <1>0, <1>2, <1>3, <1>9, <2>1, <1>1, SidesShape DEF Healthy, SideInv
  <2>3. wait[s] # "result"
    OBVIOUS
  <2>4. sink[t].cells \o sink[t].buf \o << >> \o << >> = Cells(0, consumed[t])
    BY <1>1, <1>2, <2>2, <2>3 DEF BodyInv, Underway
  <2>5. sink[t].cells \in Body /\ sink[t].buf \in Body
    BY TaskTypes
  <2>6. CASE task'[t].item = << >> /\ consumed'[t] = consumed[t]
    BY <2>4, <2>6
  <2>7. ASSUME NEW n \in Nat \ {0}, task'[t].item = Cells(consumed[t], consumed[t] + n),
               consumed'[t] = consumed[t] + n
        PROVE  sink[t].cells \o sink[t].buf \o task'[t].item \o << >> = Cells(0, consumed'[t])
    <3>1. sink[t].cells \o sink[t].buf \o Cells(consumed[t], consumed[t] + n) \o << >>
            = Cells(0, consumed[t] + n)
      BY <1>4, <2>4, <2>5, ReadOn, ZenonT(60)
    <3> QED  BY <3>1, <2>7
  <2> QED  BY <1>5, <2>2, <2>6, <2>7
<1> QED  BY <1>7, <1>8, <1>10, <1>11 DEF Local

\* A write that succeeds moves buf to the end of cells; the limits hold whatever it does.
LEMMA SinkApplied ==
  ASSUME TypeOK, NEW t \in Tasks, BodyInv(t), NEW r \in SinkResults(t),
         sink'[t] = AfterSend(t, r)
  PROVE  /\ sink'[t].buf = << >>
         /\ Len(sink'[t].cells) <= MaxBody
         /\ sink'[t].ram => Len(sink'[t].cells) <= MaxBodyRam
         /\ r.poll = "ok" => sink'[t].cells \o sink'[t].buf = sink[t].cells \o sink[t].buf
<1> DEFINE a == sink[t].cells  b == sink[t].buf
<1>1. /\ a \in Body /\ b \in Body /\ Len(a) \in Nat /\ Len(b) \in Nat
      /\ MaxBody \in Nat /\ MaxBodyRam \in Nat /\ MaxBodyRam <= MaxBody
  BY TaskTypes, ForwardAssumption
<1>2. /\ sink'[t].buf = << >>
      /\ sink'[t].cells = IF r.poll = "ok" THEN a \o b ELSE a
  BY DEF AfterSend, Written
<1>3. sink'[t].ram => sink[t].ram /\ (b = << >> \/ TooLong(t) \/ FitsRam(t))
  <2>1. sink'[t].ram = (sink[t].ram /\ (b = << >> \/ TooLong(t) \/ FitsRam(t)))
    BY DEF AfterSend
  <2> QED  BY <2>1
<1>4. Len(a) <= MaxBody /\ (sink[t].ram => Len(a) <= MaxBodyRam)
  BY DEF BodyInv
<1>5. a \o b \in Body /\ Len(a \o b) = Len(a) + Len(b)
  <2> HIDE DEF a, b
  <2> QED  BY <1>1 DEF Body
<1>6. b = << >> => Len(a \o b) = Len(a)
  BY <1>1, <1>5
<1>7. CASE r = Failure
  BY <1>2, <1>3, <1>4, <1>7 DEF Failure
<1>8. CASE r = Ok /\ (b = << >> \/ ~TooLong(t))
  <2>1. sink'[t].cells = a \o b
    BY <1>2, <1>8 DEF Ok
  <2>2. Len(a \o b) <= MaxBody
    <3>1. CASE b = << >>
      BY <1>4, <1>6, <3>1
    <3>2. CASE ~TooLong(t)
      <4>1. ~(Len(a) + Len(b) > MaxBody)
        BY <3>2 DEF TooLong, NewLen
      <4> HIDE DEF a, b
      <4> QED  BY <4>1, <1>1, <1>5
    <3> QED  BY <1>8, <3>1, <3>2
  <2>3. ASSUME sink'[t].ram  PROVE Len(a \o b) <= MaxBodyRam
    <3>1. sink[t].ram /\ (b = << >> \/ FitsRam(t))
      BY <1>3, <1>8, <2>3
    <3> QED  BY <3>1, <1>1, <1>4, <1>5, <1>6 DEF FitsRam, NewLen
  <2>4. (a \o b) \o << >> = a \o b
    <3>1. a \o b \in Seq(Nat \ {0})
      BY <1>5 DEF Body
    <3> QED  BY <3>1, ConcatEmptySeq, Zenon
  <2> QED  BY <2>1, <2>2, <2>3, <2>4, <1>2
<1> QED  BY <1>7, <1>8, SinkResultIs

\* The sink side answers a poll with a result.
LEMMA SinkCompletesInv ==
  ASSUME TypeOK, NEW t \in Tasks, Local(t), NEW r \in SinkResults(t),
         Polls(<<t, "sink">>), wait[<<t, "sink">>] \in {"no", "running"},
         Apply(<<t, "sink">>, r), Deliver(<<t, "sink">>, r),
         wait'[<<t, "sink">>] = "no", arbiter'[<<t, "sink">>] = "Void",
         out'[<<t, "sink">>] = out[<<t, "sink">>],
         SideStays(<<t, "stream">>)
  PROVE  Local(t)'
<1> DEFINE s == <<t, "stream">>  k == <<t, "sink">>
<1>0. s \in Sides /\ k \in Sides /\ s[1] = t /\ k[1] = t /\ s[2] = "stream" /\ k[2] = "sink"
  BY DEF Sides
<1>1. SideInv(s) /\ SideInv(k) /\ TaskInv(t) /\ BodyInv(t)
  BY DEF Local
<1>2. task[t].pc \in {"ready", "flush", "close"}
  BY DEF Polls
<1>3. /\ setup' = setup
      /\ consumed' = consumed
      /\ sink'[t] = AfterSend(t, r)
      /\ task'[t] = AfterSink(task[t], r)
      /\ out'[k] = Nothing /\ out'[s] = out[s]
  <2>1. t \in DOMAIN sink /\ t \in DOMAIN task
    BY DEF TypeOK
  <2> QED  BY <2>1, <1>1 DEF SideStays, Apply, Deliver, SideInv
<1>4. task[t] \in TaskRec /\ consumed[t] \in Nat
  BY DEF TypeOK, TaskRec, Body
<1>5. /\ task'[t].item = task[t].item
      /\ task'[t].ended = task[t].ended
      /\ \/ r = Failure /\ task'[t].pc = "failing"
         \/ /\ r = Ok
            /\ \/ task[t].pc = "flush" /\ task'[t].pc = "idle"
               \/ task[t].pc = "ready" /\ task'[t].pc = "send"
               \/ task[t].pc = "close" /\ task'[t].pc = "done"
  <2>1. CASE r = Failure
    BY <2>1, <1>2, <1>3, <1>4 DEF Failure, AfterSink, TaskRec
  <2>2. CASE r = Ok /\ task[t].pc = "flush"
    BY <2>2, <1>2, <1>3, <1>4 DEF Ok, AfterSink, TaskRec
  <2>3. CASE r = Ok /\ task[t].pc = "ready"
    BY <2>3, <1>2, <1>3, <1>4 DEF Ok, AfterSink, TaskRec
  <2>4. CASE r = Ok /\ task[t].pc = "close"
    BY <2>4, <1>2, <1>3, <1>4 DEF Ok, AfterSink, TaskRec
  <2> QED  BY <1>2, <2>1, <2>2, <2>3, <2>4, SinkResultIs
<1>6. /\ sink'[t].buf = << >>
      /\ Len(sink'[t].cells) <= MaxBody
      /\ sink'[t].ram => Len(sink'[t].cells) <= MaxBodyRam
      /\ r.poll = "ok" => sink'[t].cells \o sink'[t].buf = sink[t].cells \o sink[t].buf
  BY <1>1, <1>3, SinkApplied
<1>7. SideInv(k)'
  BY <1>0, <1>3 DEF SideInv, Asking, Pooled
<1>8. SideInv(s)'
  <2>1. CASE task'[t].pc # "done"
    <3>1. Live(t) /\ Live(t)'
      BY <1>2, <1>5, <2>1 DEF Live, Ended
    <3>2. wait[s] \notin {"new", "running"}
      BY <1>0, <1>1, <1>2 DEF SideInv, Polls
    <3> QED  BY <1>0, <1>1, <3>1, <3>2, SideStaysInv
  <2>2. CASE task'[t].pc = "done"
    <3>1. task[t].ended
      BY <2>2, <1>1, <1>2, <1>5 DEF TaskInv
    <3>2. wait[s] = "no" /\ wait'[s] = "no" /\ out'[s] = Nothing
      BY <3>1, <1>1, <1>3 DEF TaskInv, SideStays, WaitMoves, SideInv
    <3> QED  BY <2>2, <3>2 DEF SideInv, Asking, Pooled, Live, Ended
  <2> QED  BY <2>1, <2>2
<1>9. /\ wait'[k] = "no"
      /\ wait'[s] = "result" <=> wait[s] = "result"
      /\ wait'[s] = "no" <=> wait[s] = "no"
  BY DEF SideStays, WaitMoves
<1>10. TaskInv(t)'
  BY <1>1, <1>2, <1>3, <1>4, <1>5, <1>6, <1>9 DEF TaskInv
<1>11. BodyInv(t)'
  <2>1. ASSUME Healthy(t)'
        PROVE  sink'[t].cells \o sink'[t].buf \o task'[t].item \o Underway(t)'
                          = Cells(0, consumed'[t])
    <3>1. Healthy(t) /\ task'[t].pc # "failing"
      BY <1>0, <1>2, <1>3, <1>9, <2>1, SidesShape DEF Healthy
    <3>2. r.poll = "ok"
      BY <3>1, <1>5 DEF Ok
    <3>3. Underway(t)' = Underway(t)
      BY <1>3, <1>9 DEF Underway
    <3>4. sink[t].cells \o sink[t].buf \o task[t].item \o Underway(t) = Cells(0, consumed[t])
      BY <1>1, <3>1 DEF BodyInv
    <3> QED  BY <3>2, <3>3, <3>4, <1>3, <1>5, <1>6
  <2> QED  BY <1>6, <2>1 DEF BodyInv
<1> QED  BY <1>7, <1>8, <1>10, <1>11 DEF Local

\* A side asks for a permit, gets it, sends its operation to the pool, or waits on:
\* its task goes on, or leaves it with Pending.
LEMMA WaitStepInv ==
  ASSUME TypeOK, NEW t \in Tasks, Local(t), NEW c \in Sides, c[1] = t, Polls(c),
         UNCHANGED <<setup, consumed, sink, out>>,
         \A d \in Sides \ {c} : SideStays(d),
         wait[c] # "result", ~Unblocked(c),
         wait'[c] \in (Asking \ {"granted"}) \cup {"sent", "working"},
         wait'[c] \in Asking => Mode(c) = "permit",
         wait'[c] \in {"sent", "working"} => Mode(c) = "dispatch",
         \/ task' = task
         \/ wait'[c] \notin {"new", "running"} /\ Deliver(c, Pending)
  PROVE  Local(t)'
<1> DEFINE s == <<t, "stream">>  k == <<t, "sink">>
<1>0. s \in Sides /\ k \in Sides /\ s[1] = t /\ k[1] = t /\ s[2] = "stream" /\ k[2] = "sink"
      /\ (c = s \/ c = k) /\ s # k
  BY SidesShape DEF Sides
<1>1. SideInv(s) /\ SideInv(k) /\ TaskInv(t) /\ BodyInv(t)
  BY DEF Local
<1>2. task[t].pc \in {"stream", "ready", "flush", "close"} /\ (c = s => ~task[t].ended)
  BY <1>0 DEF Polls
<1>3. /\ task'[t].item = task[t].item /\ task'[t].ended = task[t].ended
      /\ \/ task'[t].pc = task[t].pc
         \/ c = s /\ task'[t].pc = "flush"
         \/ c = k /\ task'[t].pc = "idle"
  <2>1. CASE task' = task
    BY <2>1
  <2>2. CASE Deliver(c, Pending)
    <3>1. task[t] \in TaskRec /\ task \in [Tasks -> TaskRec]
      BY DEF TypeOK, TaskRec, Body
    <3>2. CASE c = s
      <4>1. task'[t] = [task[t] EXCEPT !.pc = "flush"]
        BY <3>1, <3>2, <2>2 DEF Deliver, AfterStream, Pending
      <4> QED  BY <4>1, <3>1, <3>2 DEF TaskRec
    <3>3. CASE c = k
      <4>1. task'[t] = [task[t] EXCEPT !.pc = "idle"]
        BY <3>1, <3>3, <2>2 DEF Deliver, AfterSink, Pending
      <4> QED  BY <4>1, <3>1, <3>3 DEF TaskRec
    <3> QED  BY <1>0, <3>2, <3>3
  <2> QED  BY <2>1, <2>2
<1>4. Live(t) /\ Live(t)' /\ task[t].pc # "failing" /\ task'[t].pc # "failing"
  BY <1>2, <1>3 DEF Live, Ended
<1>5. /\ Mode(c)' = Mode(c)
      /\ ~Unblocked(c)'
      /\ wait'[c] \in {"new", "running"} => Polls(c)'
  <2>1. Mode(c)' = Mode(c)
    BY DEF Mode
  <2>2. Unblocked(c)' <=> Unblocked(c)
    BY DEF Unblocked, Avail, TooLong, FitsRam, NewLen
  <2>3. wait'[c] \in {"new", "running"} => Polls(c)'
    BY DEF Polls
  <2> QED  BY <2>1, <2>2, <2>3
<1>6. out[c] = Nothing
  BY <1>0, <1>1 DEF SideInv
<1>7. SideInv(c)'
  BY <1>4, <1>5, <1>6 DEF SideInv, Asking, Pooled
<1>8. ASSUME NEW d \in Sides, d[1] = t, d # c  PROVE SideInv(d)'
  <2>1. wait[d] \notin {"new", "running"}
    BY <1>0, <1>1, <1>2, <1>8, SidesShape DEF SideInv, Polls
  <2>2. SideInv(d)
    BY <1>0, <1>1, <1>8, SidesShape
  <2> QED  BY <1>4, <1>8, <2>1, <2>2, SideStaysInv
<1>9. SideInv(s)' /\ SideInv(k)'
  BY <1>0, <1>7, <1>8
<1>10. \A d \in Sides : d # c => /\ wait'[d] = "no" <=> wait[d] = "no"
                                 /\ wait'[d] = "result" <=> wait[d] = "result"
  BY DEF SideStays, WaitMoves
<1>11. wait'[c] # "result"
  BY DEF Asking
<1>12. TaskInv(t)'
  <2>1. CASE c = s
    <3>1. task[t].pc = "stream" /\ task[t].item = << >> /\ ~task[t].ended
      BY <2>1, <1>0, <1>1 DEF Polls, TaskInv
    <3> QED  BY <3>1, <2>1, <1>0, <1>1, <1>3, <1>10 DEF TaskInv
  <2>2. CASE c = k
    <3>1. task[t].pc \in {"ready", "flush", "close"}
      BY <2>2 DEF Polls
    <3>2. wait'[s] = "no" <=> wait[s] = "no"
      BY <2>2, <1>0, <1>10
    <3> QED  BY <3>1, <3>2, <2>2, <1>0, <1>1, <1>3 DEF TaskInv
  <2> QED  BY <1>0, <2>1, <2>2
<1>13. BodyInv(t)'
  <2>1. Healthy(t)' => Healthy(t)
    BY <1>4, <1>3, <1>10, <1>11 DEF Healthy, Live, Ended
  <2>2. Underway(t)' = Underway(t)
    BY <1>0, <1>10, <1>11 DEF Underway
  <2> QED  BY <2>1, <2>2, <1>1, <1>3 DEF BodyInv
<1> QED  BY <1>9, <1>12, <1>13 DEF Local

\* Only the program counter moves, while no side is being polled.
LEMMA PcMovesInv ==
  ASSUME TypeOK, NEW t \in Tasks, Local(t), NEW p,
         task'[t] = [task[t] EXCEPT !.pc = p], Live(t), p \notin Ended \cup {"failing"},
         task[t].pc # "failing",
         UNCHANGED <<setup, consumed, sink, arbiter, wait, out>>,
         wait[<<t, "stream">>] \notin {"new", "running"},
         wait[<<t, "sink">>] \notin {"new", "running"}
  PROVE  /\ SideInv(<<t, "stream">>)' /\ SideInv(<<t, "sink">>)' /\ BodyInv(t)'
         /\ task'[t].pc = p /\ task'[t].item = task[t].item /\ task'[t].ended = task[t].ended
<1> DEFINE s == <<t, "stream">>  k == <<t, "sink">>
<1>0. s \in Sides /\ k \in Sides /\ s[1] = t /\ k[1] = t /\ s[2] = "stream" /\ k[2] = "sink"
  BY DEF Sides
<1>1. SideInv(s) /\ SideInv(k) /\ TaskInv(t) /\ BodyInv(t)
  BY DEF Local
<1>2. task'[t].pc = p /\ task'[t].item = task[t].item /\ task'[t].ended = task[t].ended
  <2>1. task[t] \in TaskRec
    BY DEF TypeOK, TaskRec, Body
  <2> QED  BY <2>1 DEF TaskRec
<1>3. Live(t)'
  BY <1>2 DEF Live
<1>4. SideStays(s) /\ SideStays(k)
  BY DEF SideStays, WaitMoves
<1>5. SideInv(s)' /\ SideInv(k)'
  <2>1. SideInv(s)'
    BY <1>0, <1>1, <1>3, <1>4, SideStaysInv
  <2>2. SideInv(k)'
    BY <1>0, <1>1, <1>3, <1>4, SideStaysInv
  <2> QED  BY <2>1, <2>2
<1>6. BodyInv(t)'
  <2>1. Healthy(t)' => Healthy(t)
    BY <1>2 DEF Healthy, Live, Ended
  <2>2. Underway(t)' = Underway(t)
    BY DEF Underway
  <2> QED  BY <2>1, <2>2, <1>1, <1>2 DEF BodyInv
<1> QED  BY <1>2, <1>5, <1>6

LEMMA ResumeInv ==
  ASSUME TypeOK, NEW t \in Tasks, Local(t), Resume(t)
  PROVE  Local(t)'
<1> DEFINE s == <<t, "stream">>  k == <<t, "sink">>  p == IF task[t].item # << >> THEN "ready" ELSE "stream"
<1>0. s \in Sides /\ k \in Sides /\ s[1] = t /\ k[1] = t /\ s[2] = "stream" /\ k[2] = "sink"
  BY DEF Sides
<1>1. /\ task[t].pc = "idle" /\ UNCHANGED <<setup, consumed, sink, arbiter, wait, out>>
      /\ task'[t] = [task[t] EXCEPT !.pc = p]
  BY DEF Resume, TypeOK
<1>2. wait[s] \notin {"new", "running"} /\ wait[k] \notin {"new", "running"}
  BY <1>0, <1>1 DEF Local, SideInv, Polls
<1>3. Live(t) /\ p \notin Ended \cup {"failing"} /\ task[t].pc # "failing"
  BY <1>1 DEF Live, Ended
<1> HIDE DEF p
<1>4. /\ SideInv(s)' /\ SideInv(k)' /\ BodyInv(t)'
      /\ task'[t].pc = p /\ task'[t].item = task[t].item /\ task'[t].ended = task[t].ended
  BY <1>1, <1>2, <1>3, PcMovesInv
<1>5. TaskInv(t)'
  BY <1>1, <1>4 DEF Local, TaskInv, p
<1> QED  BY <1>4, <1>5 DEF Local

LEMMA SkipEndedInv ==
  ASSUME TypeOK, NEW t \in Tasks, Local(t), SkipEnded(t)
  PROVE  Local(t)'
<1> DEFINE s == <<t, "stream">>  k == <<t, "sink">>
<1>0. s \in Sides /\ k \in Sides /\ s[1] = t /\ k[1] = t /\ s[2] = "stream" /\ k[2] = "sink"
  BY DEF Sides
<1>1. /\ task[t].pc = "stream" /\ task[t].ended
      /\ UNCHANGED <<setup, consumed, sink, arbiter, wait, out>>
      /\ task'[t] = [task[t] EXCEPT !.pc = "close"]
  BY DEF SkipEnded, TypeOK
<1>2. wait[s] \notin {"new", "running"} /\ wait[k] \notin {"new", "running"}
  BY <1>0, <1>1 DEF Local, SideInv, Polls
<1>3. Live(t) /\ "close" \notin Ended \cup {"failing"} /\ task[t].pc # "failing"
  BY <1>1 DEF Live, Ended
<1>4. /\ SideInv(s)' /\ SideInv(k)' /\ BodyInv(t)'
      /\ task'[t].pc = "close" /\ task'[t].item = task[t].item /\ task'[t].ended = task[t].ended
  BY <1>1, <1>2, <1>3, PcMovesInv
<1>5. TaskInv(t)'
  BY <1>1, <1>4 DEF Local, TaskInv
<1> QED  BY <1>4, <1>5 DEF Local

\* Moving the item to buf.
LEMMA StartSendInv ==
  ASSUME TypeOK, NEW t \in Tasks, Local(t), StartSend(t)
  PROVE  Local(t)'
<1> DEFINE s == <<t, "stream">>  k == <<t, "sink">>
<1>0. s \in Sides /\ k \in Sides /\ s[1] = t /\ k[1] = t /\ s[2] = "stream" /\ k[2] = "sink"
  BY DEF Sides
<1>1. SideInv(s) /\ SideInv(k) /\ TaskInv(t) /\ BodyInv(t)
  BY DEF Local
<1>2. /\ task[t].pc = "send" /\ UNCHANGED <<setup, consumed, arbiter, wait, out>>
      /\ task'[t] = [task[t] EXCEPT !.pc = "stream", !.item = << >>]
      /\ sink'[t] = [sink[t] EXCEPT !.buf = task[t].item]
  BY DEF StartSend, TypeOK
<1>3. task[t] \in TaskRec /\ sink[t] \in SinkRec
  BY DEF TypeOK, TaskRec, SinkRec, Body
<1>4. /\ task'[t].pc = "stream" /\ task'[t].item = << >> /\ task'[t].ended = task[t].ended
      /\ sink'[t].ram = sink[t].ram /\ sink'[t].cells = sink[t].cells
      /\ sink'[t].buf = task[t].item
  BY <1>2, <1>3 DEF TaskRec, SinkRec
<1>5. task[t].item # << >> /\ sink[t].buf = << >> /\ wait[s] = "no" /\ wait[k] = "no" /\ ~task[t].ended
  BY <1>1, <1>2 DEF TaskInv
<1>6. Live(t) /\ Live(t)'
  BY <1>2, <1>4 DEF Live, Ended
<1>7. SideInv(s)' /\ SideInv(k)'
  BY <1>0, <1>1, <1>2, <1>5, <1>6 DEF SideInv, Asking, Pooled
<1>8. TaskInv(t)'
  BY <1>1, <1>2, <1>4, <1>5 DEF TaskInv
<1>9. BodyInv(t)'
  <2>1. ASSUME Healthy(t)'
        PROVE  sink'[t].cells \o sink'[t].buf \o task'[t].item \o Underway(t)' = Cells(0, consumed'[t])
    <3>1. Healthy(t)
      BY <1>2, <1>4, <2>1 DEF Healthy
    <3>2. sink[t].cells \o << >> \o task[t].item \o << >> = Cells(0, consumed[t])
      BY <1>1, <1>5, <3>1 DEF BodyInv, Underway
    <3>3. sink[t].cells \in Body /\ task[t].item \in Body
      BY TaskTypes
    <3>4. sink[t].cells \o << >> = sink[t].cells
      BY <3>3 DEF Body
    <3>5. (sink[t].cells \o task[t].item) \o << >> = sink[t].cells \o task[t].item
      <4>1. sink[t].cells \o task[t].item \in Seq(Nat \ {0})
        BY <3>3 DEF Body
      <4> QED  BY <4>1, ConcatEmptySeq, Zenon
    <3>6. Underway(t)' = << >>
      BY <1>2, <1>5 DEF Underway
    <3> QED  BY <1>2, <1>4, <3>2, <3>4, <3>5, <3>6
  <2> QED  BY <1>1, <1>4, <2>1 DEF BodyInv
<1> QED  BY <1>7, <1>8, <1>9 DEF Local

\* The task takes the result of a dispatched read.
LEMMA TakeStreamInv ==
  ASSUME TypeOK, NEW t \in Tasks, Local(t), TakeResult(<<t, "stream">>)
  PROVE  Local(t)'
<1> DEFINE s == <<t, "stream">>  k == <<t, "sink">>  r == out[s]
<1>0. /\ s \in Sides /\ k \in Sides /\ s[1] = t /\ k[1] = t
      /\ s[2] = "stream" /\ k[2] = "sink" /\ s # k
  BY DEF Sides
<1>1. SideInv(s) /\ SideInv(k) /\ TaskInv(t) /\ BodyInv(t)
  BY DEF Local
<1>2. task[t].pc = "stream" /\ ~task[t].ended /\ task[t].item = << >> /\ wait[s] = "result"
  BY <1>0, <1>1 DEF TakeResult, Polls, TaskInv
<1>3. /\ UNCHANGED <<setup, consumed, sink, arbiter>>
      /\ task'[t] = AfterStream(task[t], r)
      /\ wait'[s] = "no" /\ wait'[k] = wait[k] /\ out'[s] = Nothing /\ out'[k] = out[k]
  BY <1>0 DEF TakeResult, Deliver, TypeOK
<1>4. task[t] \in TaskRec /\ consumed[t] \in Nat /\ r \in OutRec
  BY <1>0 DEF TypeOK, TaskRec, OutRec, Body
<1>5. /\ r.poll \in {"item", "end", "err"}
      /\ r.poll = "item" <=> r.cells # << >>
      /\ r.poll = "end" => consumed[t] = setup[t].stored
  BY <1>0, <1>1, <1>2 DEF SideInv
<1>6. \/ r.poll = "err" /\ task'[t].pc = "failing" /\ task'[t].item = << >> /\ ~task'[t].ended
      \/ /\ r.poll = "end" /\ task'[t].pc = "close" /\ task'[t].item = << >> /\ task'[t].ended
      \/ /\ r.poll = "item" /\ task'[t].pc = "ready" /\ task'[t].item = r.cells /\ ~task'[t].ended
  <2>1. CASE r.poll = "err"
    BY <2>1, <1>2, <1>3, <1>4 DEF AfterStream, TaskRec
  <2>2. CASE r.poll = "end"
    <3>1. task'[t] = [task[t] EXCEPT !.pc = "close", !.ended = TRUE]
      BY <2>2, <1>3 DEF AfterStream
    <3>2. task'[t].pc = "close" /\ task'[t].item = << >> /\ task'[t].ended = TRUE
      BY <3>1, <1>2, <1>4 DEF TaskRec
    <3> QED  BY <2>2, <3>2
  <2>3. CASE r.poll = "item"
    BY <2>3, <1>2, <1>3, <1>4 DEF AfterStream, TaskRec
  <2> QED  BY <1>5, <2>1, <2>2, <2>3
<1>7. Live(t) /\ Live(t)'
  BY <1>2, <1>6 DEF Live, Ended
<1>8. SideInv(s)'
  BY <1>0, <1>1, <1>2, <1>3, <1>7 DEF SideInv, Asking, Pooled
<1>9. SideInv(k)'
  <2>1. wait[k] \notin {"new", "running"}
    BY <1>0, <1>1, <1>2 DEF SideInv, Polls
  <2>2. SideStays(k)
    BY <1>3 DEF SideStays, WaitMoves
  <2> QED  BY <1>0, <1>1, <1>7, <2>1, <2>2, SideStaysInv
<1>10. TaskInv(t)'
  <2> HIDE DEF r
  <2> QED  BY <1>1, <1>2, <1>3, <1>5, <1>6 DEF TaskInv
<1>11. BodyInv(t)'
  <2>1. ASSUME Healthy(t)'
        PROVE  sink[t].cells \o sink[t].buf \o task'[t].item \o << >> = Cells(0, consumed[t])
    <3>1. task'[t].pc # "failing" /\ (wait[k] = "result" => out[k].poll # "err")
      BY <1>0, <1>3, <2>1 DEF Healthy
    <3>2. r.poll # "err"
      BY <3>1, <1>6
    <3>3. Healthy(t)
      BY <1>0, <1>2, <3>1, <3>2, SidesShape DEF Healthy
    <3>4. sink[t].cells \o sink[t].buf \o << >> \o r.cells = Cells(0, consumed[t])
      BY <1>1, <1>2, <3>3 DEF BodyInv, Underway
    <3>5. task'[t].item = r.cells
      BY <1>5, <1>6, <3>2
    <3>6. sink[t].cells \o sink[t].buf \in Seq(Nat \ {0}) /\ r.cells \in Seq(Nat \ {0})
      BY <1>4, TaskTypes DEF OutRec, Body
    <3>7. (sink[t].cells \o sink[t].buf) \o << >> = sink[t].cells \o sink[t].buf
      BY <3>6, ConcatEmptySeq, Zenon
    <3>8. ((sink[t].cells \o sink[t].buf) \o r.cells) \o << >> = (sink[t].cells \o sink[t].buf) \o r.cells
      <4>1. (sink[t].cells \o sink[t].buf) \o r.cells \in Seq(Nat \ {0})
        BY <3>6, ConcatProperties, Zenon
      <4> QED  BY <4>1, ConcatEmptySeq, Zenon
    <3> HIDE DEF r
    <3> QED  BY <3>4, <3>5, <3>7, <3>8, Zenon
  <2>2. Underway(t)' = << >>
    BY <1>3 DEF Underway
  <2> QED  BY <1>1, <1>3, <2>1, <2>2 DEF BodyInv
<1> QED  BY <1>8, <1>9, <1>10, <1>11 DEF Local

LEMMA TakeSinkInv ==
  ASSUME TypeOK, NEW t \in Tasks, Local(t), TakeResult(<<t, "sink">>)
  PROVE  Local(t)'
<1> DEFINE s == <<t, "stream">>  k == <<t, "sink">>  r == out[k]
<1>0. /\ s \in Sides /\ k \in Sides /\ s[1] = t /\ k[1] = t
      /\ s[2] = "stream" /\ k[2] = "sink" /\ s # k
  BY DEF Sides
<1>1. SideInv(s) /\ SideInv(k) /\ TaskInv(t) /\ BodyInv(t)
  BY DEF Local
<1>2. task[t].pc \in {"ready", "flush", "close"} /\ wait[k] = "result"
  BY <1>0 DEF TakeResult, Polls
<1>3. /\ UNCHANGED <<setup, consumed, sink, arbiter>>
      /\ task'[t] = AfterSink(task[t], r)
      /\ wait'[k] = "no" /\ wait'[s] = wait[s] /\ out'[k] = Nothing /\ out'[s] = out[s]
  BY <1>0 DEF TakeResult, Deliver, TypeOK
<1>4. task[t] \in TaskRec
  BY DEF TypeOK, TaskRec, Body
<1>5. r.poll \in {"ok", "err"} /\ sink[t].buf = << >>
  BY <1>0, <1>1, <1>2 DEF SideInv
<1>6. /\ task'[t].item = task[t].item
      /\ task'[t].ended = task[t].ended
      /\ \/ r.poll = "err" /\ task'[t].pc = "failing"
         \/ /\ r.poll = "ok"
            /\ \/ task[t].pc = "flush" /\ task'[t].pc = "idle"
               \/ task[t].pc = "ready" /\ task'[t].pc = "send"
               \/ task[t].pc = "close" /\ task'[t].pc = "done"
  <2> HIDE DEF r
  <2>1. CASE r.poll = "err"
    BY <2>1, <1>2, <1>3, <1>4 DEF AfterSink, TaskRec
  <2>2. CASE r.poll = "ok" /\ task[t].pc = "flush"
    BY <2>2, <1>2, <1>3, <1>4 DEF AfterSink, TaskRec
  <2>3. CASE r.poll = "ok" /\ task[t].pc = "ready"
    BY <2>3, <1>2, <1>3, <1>4 DEF AfterSink, TaskRec
  <2>4. CASE r.poll = "ok" /\ task[t].pc = "close"
    BY <2>4, <1>2, <1>3, <1>4 DEF AfterSink, TaskRec
  <2> QED  BY <1>2, <1>5, <2>1, <2>2, <2>3, <2>4
<1>7. Live(t)
  BY <1>2 DEF Live, Ended
<1>8. SideInv(k)'
  BY <1>0, <1>1, <1>2, <1>3, <1>7 DEF SideInv, Asking, Pooled
<1>9. SideInv(s)'
  <2>1. CASE task'[t].pc # "done"
    <3>1. Live(t)'
      BY <1>6, <2>1 DEF Live, Ended
    <3>2. wait[s] \notin {"new", "running"}
      BY <1>0, <1>1, <1>2 DEF SideInv, Polls
    <3>3. SideStays(s)
      BY <1>3 DEF SideStays, WaitMoves
    <3> QED  BY <1>0, <1>1, <1>7, <3>1, <3>2, <3>3, SideStaysInv
  <2>2. CASE task'[t].pc = "done"
    <3>1. task[t].ended
      BY <2>2, <1>1, <1>2, <1>6 DEF TaskInv
    <3>2. wait[s] = "no" /\ wait'[s] = "no" /\ out'[s] = Nothing
      BY <3>1, <1>1, <1>3 DEF TaskInv, SideInv
    <3> QED  BY <2>2, <3>2 DEF SideInv, Asking, Pooled, Live, Ended
  <2> QED  BY <2>1, <2>2
<1>10. TaskInv(t)'
  <2> HIDE DEF r
  <2> QED  BY <1>1, <1>2, <1>3, <1>5, <1>6 DEF TaskInv
<1>11. BodyInv(t)'
  <2>1. ASSUME Healthy(t)'  PROVE Healthy(t)
    <3>1. task'[t].pc # "failing" /\ (wait[s] = "result" => out[s].poll # "err")
      BY <1>0, <1>3, <2>1 DEF Healthy
    <3>2. r.poll # "err"
      BY <3>1, <1>6
    <3> QED  BY <1>0, <1>2, <3>1, <3>2, SidesShape DEF Healthy
  <2>2. Underway(t)' = Underway(t)
    BY <1>3 DEF Underway
  <2> QED  BY <1>1, <1>3, <1>6, <2>1, <2>2 DEF BodyInv
<1> QED  BY <1>8, <1>9, <1>10, <1>11 DEF Local

\* A pool thread has run a dispatched read, whatever its task does meanwhile.
LEMMA WorkerReadInv ==
  ASSUME TypeOK, NEW t \in Tasks, Local(t), WorkerDone(<<t, "stream">>)
  PROVE  Local(t)'
<1> DEFINE s == <<t, "stream">>  k == <<t, "sink">>
<1>0. /\ s \in Sides /\ k \in Sides /\ s[1] = t /\ k[1] = t
      /\ s[2] = "stream" /\ k[2] = "sink" /\ s # k
  BY DEF Sides
<1>1. SideInv(s) /\ SideInv(k) /\ TaskInv(t) /\ BodyInv(t)
  BY DEF Local
<1>2. PICK r \in StreamResults(t) : Apply(s, r) /\ out' = [out EXCEPT ![s] = r]
  BY <1>0 DEF WorkerDone, Results
<1>3. /\ wait[s] = "working" /\ UNCHANGED <<setup, task>>
      /\ sink' = sink
      /\ consumed'[t] = consumed[t] + Len(r.cells)
      /\ arbiter'[s] = CanBlock(s) /\ arbiter'[k] = arbiter[k]
      /\ wait'[s] = "result" /\ wait'[k] = wait[k]
      /\ out'[s] = r /\ out'[k] = out[k]
  BY <1>0, <1>2 DEF WorkerDone, Apply, TypeOK
<1>4. /\ r \in OutRec
      /\ r.poll \in {"item", "end", "err"}
      /\ r.poll = "item" <=> r.cells # << >>
      /\ r.poll = "end" => consumed[t] = setup[t].stored
  BY <1>0, <1>1, ResultTypes DEF Results
<1>5. ~Unblocked(s) /\ Mode(s) = "dispatch"
  BY <1>1, <1>3 DEF SideInv, Pooled
<1>6. ~task[t].ended /\ task[t].item = << >>
  BY <1>1, <1>3 DEF TaskInv
<1>7. \/ r = Failure /\ consumed'[t] = consumed[t]
      \/ r = End /\ consumed'[t] = consumed[t] /\ consumed[t] = setup[t].stored
      \/ \E n \in Nat \ {0} :
           /\ r = Item(t, n) /\ consumed[t] + n <= setup[t].stored /\ consumed'[t] = consumed[t] + n
           /\ r.cells = Cells(consumed[t], consumed[t] + n)
  <2>0. consumed[t] <= setup[t].stored /\ consumed[t] \in Nat
    BY <1>1, TaskTypes DEF TaskInv
  <2>1. CASE r = Failure
    BY <2>0, <2>1, <1>3 DEF Failure
  <2>2. CASE r = End /\ consumed[t] = setup[t].stored
    BY <2>0, <2>2, <1>3 DEF End
  <2>3. ASSUME NEW n \in Nat \ {0}, r = Item(t, n), consumed[t] + n <= setup[t].stored
        PROVE  consumed'[t] = consumed[t] + n /\ r.cells = Cells(consumed[t], consumed[t] + n)
    <3>1. r.cells = Cells(consumed[t], consumed[t] + n) /\ Len(r.cells) = n
      BY <2>3, ItemIs
    <3> QED  BY <3>1, <1>3
  <2> QED  BY <2>0, <2>1, <2>2, <2>3, StreamResultIs
<1>8. SideInv(s)'
  <2>1. arbiter'[s] = "Void"
    BY <1>3, <1>5 DEF CanBlock
  <2>2. Mode(s)' = "dispatch"
    BY <1>3, <1>5 DEF Mode
  <2>3. r.poll = "end" => consumed'[t] = setup[t].stored
    <3>1. r.poll = "end" => r.cells = << >>
      BY <1>4
    <3>2. r.cells = << >> => consumed'[t] = consumed[t]
      <4>1. consumed[t] \in Nat
        BY TaskTypes
      <4> QED  BY <4>1, <1>3
    <3> QED  BY <3>1, <3>2, <1>4
  <2> QED  BY <1>0, <1>3, <1>4, <2>1, <2>2, <2>3 DEF SideInv, Asking, Pooled
<1>9. SideInv(k)'
  <2>1. SideStays(k)
    BY <1>0, <1>3 DEF SideStays, WaitMoves
  <2>2. wait[k] \in {"new", "running"} => Polls(k)'
    BY <1>1, <1>3 DEF SideInv, Polls
  <2>3. Live(t)' <=> Live(t)
    BY <1>3 DEF Live
  <2> QED  BY <1>0, <1>1, <2>1, <2>2, <2>3, SideStaysInv
<1>10. TaskInv(t)'
  <2>1. consumed'[t] <= setup[t].stored
    BY <1>1, <1>7 DEF TaskInv
  <2> QED  BY <1>1, <1>3, <1>6, <2>1 DEF TaskInv
<1>11. BodyInv(t)'
  <2>1. ASSUME Healthy(t)'
        PROVE  sink[t].cells \o sink[t].buf \o << >> \o r.cells = Cells(0, consumed'[t])
    <3>1. r.poll # "err"
      BY <1>0, <1>3, <2>1 DEF Healthy
    <3>2. Healthy(t)
      BY <1>0, <1>3, <2>1, SidesShape DEF Healthy
    <3>3. sink[t].cells \o sink[t].buf \o << >> \o << >> = Cells(0, consumed[t])
      BY <1>1, <1>3, <1>6, <3>2 DEF BodyInv, Underway
    <3>4. CASE r = End /\ consumed'[t] = consumed[t]
      BY <3>3, <3>4 DEF End
    <3>5. ASSUME NEW n \in Nat \ {0}, r.cells = Cells(consumed[t], consumed[t] + n),
                 consumed'[t] = consumed[t] + n
          PROVE  sink[t].cells \o sink[t].buf \o << >> \o r.cells = Cells(0, consumed'[t])
      <4>1. sink[t].cells \in Body /\ sink[t].buf \in Body /\ consumed[t] \in Nat
        BY TaskTypes
      <4>2. sink[t].cells \o sink[t].buf \o << >> \o Cells(consumed[t], consumed[t] + n)
              = Cells(0, consumed[t] + n)
        BY <3>3, <4>1, ReadOn, ZenonT(60)
      <4> QED  BY <4>2, <3>5
    <3>6. r # Failure
      BY <3>1 DEF Failure
    <3> QED  BY <1>7, <3>4, <3>5, <3>6
  <2>2. Underway(t)' = r.cells
    BY <1>3 DEF Underway
  <2> QED  BY <1>1, <1>3, <1>6, <2>1, <2>2 DEF BodyInv
<1> QED  BY <1>8, <1>9, <1>10, <1>11 DEF Local

\* A pool thread has run a dispatched write.
LEMMA WorkerWriteInv ==
  ASSUME TypeOK, NEW t \in Tasks, Local(t), WorkerDone(<<t, "sink">>)
  PROVE  Local(t)'
<1> DEFINE s == <<t, "stream">>  k == <<t, "sink">>
<1>0. /\ s \in Sides /\ k \in Sides /\ s[1] = t /\ k[1] = t
      /\ s[2] = "stream" /\ k[2] = "sink" /\ s # k
  BY DEF Sides
<1>1. SideInv(s) /\ SideInv(k) /\ TaskInv(t) /\ BodyInv(t)
  BY DEF Local
<1>2. PICK r \in SinkResults(t) : Apply(k, r) /\ out' = [out EXCEPT ![k] = r]
  BY <1>0 DEF WorkerDone, Results
<1>3. /\ wait[k] = "working" /\ UNCHANGED <<setup, task>>
      /\ consumed' = consumed
      /\ sink'[t] = AfterSend(t, r)
      /\ arbiter'[k] = CanBlock(k) /\ arbiter'[s] = arbiter[s]
      /\ wait'[k] = "result" /\ wait'[s] = wait[s]
      /\ out'[k] = r /\ out'[s] = out[s]
  BY <1>0, <1>2 DEF WorkerDone, Apply, TypeOK
<1>4. r = Failure \/ r = Ok
  BY SinkResultIs
<1>5. ~Unblocked(k) /\ Mode(k) = "dispatch"
  BY <1>1, <1>3 DEF SideInv, Pooled
<1>6. /\ sink'[t].buf = << >>
      /\ Len(sink'[t].cells) <= MaxBody
      /\ sink'[t].ram => Len(sink'[t].cells) <= MaxBodyRam
      /\ r.poll = "ok" => sink'[t].cells \o sink'[t].buf = sink[t].cells \o sink[t].buf
  BY <1>1, <1>3, SinkApplied
<1>7. SideInv(k)'
  <2>1. arbiter'[k] = "Void"
    BY <1>3, <1>5 DEF CanBlock
  <2>2. Mode(k)' = "dispatch"
    BY <1>3, <1>5 DEF Mode
  <2>3. r.poll \in {"ok", "err"} /\ r.cells = << >>
    BY <1>4 DEF Failure, Ok
  <2> QED  BY <1>0, <1>3, <1>6, <2>1, <2>2, <2>3 DEF SideInv, Asking, Pooled
<1>8. SideInv(s)'
  <2>1. SideStays(s)
    BY <1>0, <1>3 DEF SideStays, WaitMoves
  <2>2. wait[s] \in {"new", "running"} => Polls(s)'
    BY <1>1, <1>3 DEF SideInv, Polls
  <2>3. Live(t)' <=> Live(t)
    BY <1>3 DEF Live
  <2> QED  BY <1>0, <1>1, <2>1, <2>2, <2>3, SideStaysInv
<1>9. task[t].pc \notin {"send", "done"}
  BY <1>1, <1>3 DEF TaskInv
<1>10. TaskInv(t)'
  BY <1>1, <1>3, <1>6, <1>9 DEF TaskInv
<1>11. BodyInv(t)'
  <2>1. ASSUME Healthy(t)'
        PROVE  sink'[t].cells \o sink'[t].buf \o task[t].item \o Underway(t) = Cells(0, consumed[t])
    <3>1. r.poll # "err"
      BY <1>0, <1>3, <2>1 DEF Healthy
    <3>2. Healthy(t)
      BY <1>0, <1>3, <2>1, SidesShape DEF Healthy
    <3>3. r.poll = "ok"
      BY <1>4, <3>1 DEF Failure, Ok
    <3>4. sink[t].cells \o sink[t].buf \o task[t].item \o Underway(t) = Cells(0, consumed[t])
      BY <1>1, <3>2 DEF BodyInv
    <3> QED  BY <3>3, <3>4, <1>6
  <2>2. Underway(t)' = Underway(t)
    BY <1>3 DEF Underway
  <2> QED  BY <1>3, <1>6, <2>1, <2>2 DEF BodyInv
<1> QED  BY <1>7, <1>8, <1>10, <1>11 DEF Local

-----------------------------------------------------------------------------
(* Permits that come back. *)

\* The waiters at the front of the queue are granted a permit, the others wait on.
LEMMA ReleaseMoves ==
  ASSUME NEW n \in Nat, NEW q \in Seq(Sides), NEW w, Release(n, q, w),
         \A i \in 1 .. Len(q) : w[q[i]] = "queued"
  PROVE  \A d \in Sides : wait'[d] = w[d] \/ (w[d] = "queued" /\ wait'[d] = "granted")
<1> DEFINE m == IF n < Len(q) THEN n ELSE Len(q)
<1>1. m \in 0 .. Len(q)
  OBVIOUS
<1>2. wait' = [c \in Sides |-> IF c \in {q[i] : i \in 1 .. m} THEN "granted" ELSE w[c]]
  BY DEF Release
<1>3. \A i \in 1 .. m : w[q[i]] = "queued"
  BY <1>1
<1> HIDE DEF m
<1> QED  BY <1>2, <1>3

\* Who leaves the queue of the Semaphore: the sides of the task.
LEMMA LeavesQueueProps ==
  ASSUME TypeOK, QueueInv, NEW t \in Tasks
  PROVE  LET p == LeavesQueue(t)
         IN  /\ p \in Seq(Sides) /\ IsInjective(p)
             /\ Range(p) = {c \in Sides : c[1] # t /\ wait[c] = "queued"}
<1> DEFINE s == <<t, "stream">>  k == <<t, "sink">>
           p == RemoveFirst(waiters, s)  r == RemoveFirst(p, k)
<1>1. waiters \in Seq(Sides) /\ IsInjective(waiters)
      /\ Range(waiters) = {c \in Sides : wait[c] = "queued"}
  BY DEF TypeOK, QueueInv, Lists
<1>2. p \in Seq(Sides) /\ IsInjective(p) /\ Range(p) = Range(waiters) \ {s}
  BY <1>1, RemoveFirstProps
<1> HIDE DEF p
<1>3. r \in Seq(Sides) /\ IsInjective(r) /\ Range(r) = Range(p) \ {k}
  BY <1>2, RemoveFirstProps
<1>4. LeavesQueue(t) = r
  BY DEF LeavesQueue, p
<1> HIDE DEF r
<1>5. Range(r) = {c \in Sides : c[1] # t /\ wait[c] = "queued"}
  <2>1. \A c \in Sides : c[1] # t <=> c # s /\ c # k
    BY SidesShape
  <2> QED  BY <1>1, <1>2, <1>3, <2>1
<1> QED  BY <1>3, <1>4, <1>5

\* What DropForward leaves of the waits of the sides.
AfterDrop(t) == [c \in Sides |-> IF c[1] = t /\ wait[c] \in {"new", "queued", "granted"}
                                 THEN "no" ELSE wait[c]]

LEMMA DropMoves ==
  ASSUME TypeOK, QueueInv, NEW t \in Tasks, DropForward(t), IsFiniteSet(GrantedPermits(t))
  PROVE  \A d \in Sides : \/ wait'[d] = AfterDrop(t)[d]
                          \/ /\ d[1] # t /\ wait[d] = "queued" /\ wait'[d] = "granted"
<1> DEFINE n == Cardinality(GrantedPermits(t))  q == LeavesQueue(t)  w == AfterDrop(t)
<1>1. n \in Nat
  BY FS_CardinalityType
<1>2. /\ q \in Seq(Sides)
      /\ Range(q) = {c \in Sides : c[1] # t /\ wait[c] = "queued"}
  BY LeavesQueueProps
<1>3. Release(n, q, w)
  BY DEF DropForward, AfterDrop
<1>4. ASSUME NEW i \in 1 .. Len(q)
      PROVE  q[i] \in Sides /\ q[i][1] # t /\ wait[q[i]] = "queued"
  <2>1. q[i] \in Range(q)
    <3> HIDE DEF q
    <3> QED  BY <1>2 DEF Range
  <2> QED  BY <1>2, <2>1
<1>5. \A i \in 1 .. Len(q) : w[q[i]] = "queued"
  <2> HIDE DEF q
  <2> QED  BY <1>4 DEF AfterDrop
<1> HIDE DEF n, q, w
<1>6. \A d \in Sides : wait'[d] = w[d] \/ (w[d] = "queued" /\ wait'[d] = "granted")
  BY <1>1, <1>2, <1>3, <1>5, ReleaseMoves
<1>7. \A d \in Sides : w[d] = "queued" => d[1] # t /\ wait[d] = "queued"
  BY DEF w, AfterDrop
<1> QED  BY <1>6, <1>7 DEF w

LEMMA DropInv ==
  ASSUME TypeOK, QueueInv, NEW t \in Tasks, Local(t), DropForward(t),
         IsFiniteSet(GrantedPermits(t))
  PROVE  Local(t)'
<1> DEFINE s == <<t, "stream">>  k == <<t, "sink">>
<1>0. /\ s \in Sides /\ k \in Sides /\ s[1] = t /\ k[1] = t
      /\ s[2] = "stream" /\ k[2] = "sink" /\ s # k
  BY DEF Sides
<1>1. SideInv(s) /\ SideInv(k) /\ TaskInv(t) /\ BodyInv(t)
  BY DEF Local
<1>2. UNCHANGED <<setup, consumed, sink, arbiter, out>>
  BY DEF DropForward
<1>3. /\ task[t].pc \in {"failing", "idle"} /\ task'[t].pc \in {"failed", "dropped"}
      /\ task'[t].item = task[t].item /\ task'[t].ended = task[t].ended
  <2>1. task \in [Tasks -> TaskRec]
    BY DEF TypeOK, TaskRec, Body
  <2> QED  BY <2>1 DEF DropForward, TaskRec
<1>4. /\ wait'[s] = AfterDrop(t)[s] /\ wait'[k] = AfterDrop(t)[k]
  BY <1>0, DropMoves
<1>5. wait[s] \notin {"new", "running"} /\ wait[k] \notin {"new", "running"}
  BY <1>0, <1>1, <1>3 DEF SideInv, Polls
<1>6. /\ wait'[s] = "no" \/ (wait[s] \in Pooled /\ wait'[s] = wait[s])
      /\ wait'[k] = "no" \/ (wait[k] \in Pooled /\ wait'[k] = wait[k])
  <2>1. wait \in [Sides -> Asking \cup Pooled \cup {"no"}]
    BY DEF TypeOK, Asking, Pooled
  <2> QED  BY <1>0, <1>4, <1>5, <2>1 DEF AfterDrop, Asking, Pooled
<1>7. ~Live(t)'
  BY <1>3 DEF Live, Ended
<1>8. ASSUME NEW c \in {s, k}  PROVE SideInv(c)'
  <2>1. SideInv(c) /\ (wait'[c] = "no" \/ (wait[c] \in Pooled /\ wait'[c] = wait[c])) /\ c[1] = t
    BY <1>1, <1>6
  <2>2. Mode(c)' = Mode(c) /\ (Unblocked(c)' <=> Unblocked(c))
    BY <1>2 DEF Mode, Unblocked, Avail, TooLong, FitsRam, NewLen
  <2>3. CASE wait'[c] = "no"
    <3>1. out[c] = Nothing
      <4>1. wait[c] # "result"
        BY <1>0, <1>4, <2>3 DEF AfterDrop
      <4> QED  BY <2>1, <4>1 DEF SideInv
    <3> QED  BY <1>2, <1>7, <2>1, <2>3, <3>1 DEF SideInv, Asking, Pooled
  <2>4. CASE wait[c] \in Pooled /\ wait'[c] = wait[c]
    BY <1>2, <1>7, <2>1, <2>2, <2>4 DEF SideInv, Asking, Pooled
  <2> QED  BY <2>1, <2>3, <2>4
<1>9. SideInv(s)' /\ SideInv(k)'
  BY <1>8
<1>10. TaskInv(t)'
  BY <1>1, <1>2, <1>3, <1>6 DEF TaskInv, Pooled
<1>11. BodyInv(t)'
  <2>1. ~Healthy(t)'
    BY <1>3 DEF Healthy
  <2> QED  BY <1>1, <1>2, <2>1 DEF BodyInv
<1> QED  BY <1>9, <1>10, <1>11 DEF Local

-----------------------------------------------------------------------------
(* The invariant of all tasks is kept by every step. *)

\* What a step of task t, or of the pool for it, does to the other tasks.
OthersStay(t) ==
  /\ setup' = setup
  /\ \A u \in Tasks \ {t} : task'[u] = task[u] /\ consumed'[u] = consumed[u] /\ sink'[u] = sink[u]
  /\ \A d \in Sides : d[1] # t => arbiter'[d] = arbiter[d] /\ out'[d] = out[d] /\ WaitMoves(d)

LEMMA OthersStayInv ==
  ASSUME NEW t \in Tasks, \A u \in Tasks : Local(u), OthersStay(t), Local(t)'
  PROVE  \A u \in Tasks : Local(u)'
<1> SUFFICES ASSUME NEW u \in Tasks, u # t PROVE Local(u)'
  OBVIOUS
<1>1. TaskStays(u)
  BY SidesShape DEF OthersStay, TaskStays, SideStays
<1> QED  BY <1>1, TaskStaysInv

LEMMA DeliverOthers ==
  ASSUME TypeOK, NEW c \in Sides, NEW r, Deliver(c, r)
  PROVE  \A u \in Tasks \ {c[1]} : task'[u] = task[u]
<1>1. DOMAIN task = Tasks
  BY DEF TypeOK
<1> QED  BY <1>1 DEF Deliver

LEMMA ApplyOthers ==
  ASSUME TypeOK, NEW c \in Sides, NEW r, Apply(c, r)
  PROVE  \A u \in Tasks \ {c[1]} : consumed'[u] = consumed[u] /\ sink'[u] = sink[u]
<1>1. DOMAIN consumed = Tasks /\ DOMAIN sink = Tasks
  BY DEF TypeOK
<1>2. CASE c[2] = "stream"
  BY <1>1, <1>2 DEF Apply
<1>3. CASE c[2] # "stream"
  BY <1>1, <1>3 DEF Apply
<1> QED  BY <1>2, <1>3

\* A side completes its operation within a poll.
LEMMA CompletesInv ==
  ASSUME TypeOK, NEW c \in Sides, Local(c[1]), NEW r \in Results(c),
         Polls(c), wait[c] \in {"no", "running"}, Apply(c, r), Deliver(c, r),
         wait'[c] = "no", arbiter'[c] = "Void", out' = out, setup' = setup,
         \A d \in Sides \ {c} : arbiter'[d] = arbiter[d] /\ WaitMoves(d)
  PROVE  Local(c[1])'
<1> DEFINE t == c[1]
<1>0. t \in Tasks
  BY SidesShape
<1>1. CASE c = <<t, "stream">>
  <2>1. r \in StreamResults(t) /\ sink' = sink
    BY <1>1 DEF Results, Apply
  <2>2. SideStays(<<t, "sink">>)
    BY <1>0, <1>1, <2>1 DEF SideStays, Sides
  <2> HIDE DEF t
  <2> QED  BY <1>0, <1>1, <2>1, <2>2, StreamCompletesInv DEF t
<1>2. CASE c = <<t, "sink">>
  <2>1. r \in SinkResults(t) /\ consumed' = consumed
    BY <1>2 DEF Results, Apply
  <2>2. SideStays(<<t, "stream">>)
    BY <1>0, <1>2, <2>1 DEF SideStays, Sides
  <2> HIDE DEF t
  <2> QED  BY <1>0, <1>2, <2>1, <2>2, SinkCompletesInv DEF t
<1> QED  BY <1>1, <1>2, SidesShape

LEMMA PollDirectStep ==
  ASSUME IInv, NEW c \in Sides, PollDirect(c)
  PROVE  \A u \in Tasks : Local(u)'
<1>0. c[1] \in Tasks /\ TypeOK /\ \A u \in Tasks : Local(u)
  BY SidesShape DEF IInv
<1>1. PICK r \in Results(c) : Apply(c, r) /\ Deliver(c, r)
  BY DEF PollDirect
<1>2. Polls(c) /\ wait[c] = "no" /\ UNCHANGED <<setup, arbiter, wait, out>>
  BY DEF PollDirect
<1>3. SideInv(c)
  BY <1>0, SidesShape DEF Local
<1>4. arbiter[c] = "Void"
  <2>1. Live(c[1])
    BY <1>2 DEF Polls, Live, Ended
  <2> QED  BY <1>2, <1>3, <2>1 DEF SideInv
<1>5. Local(c[1])'
  BY <1>0, <1>1, <1>2, <1>4, CompletesInv DEF WaitMoves
<1>6. OthersStay(c[1])
  BY <1>0, <1>1, <1>2, DeliverOthers, ApplyOthers DEF OthersStay, WaitMoves
<1> QED  BY <1>0, <1>5, <1>6, OthersStayInv

LEMMA RunPermittedStep ==
  ASSUME IInv, NEW c \in Sides, RunPermitted(c)
  PROVE  \A u \in Tasks : Local(u)'
<1>0. c[1] \in Tasks /\ TypeOK /\ \A u \in Tasks : Local(u)
  BY SidesShape DEF IInv
<1> DEFINE w == [wait EXCEPT ![c] = "no"]
<1>1. PICK r \in Results(c) : Apply(c, r) /\ Deliver(c, r)
  BY DEF RunPermitted
<1>2. /\ Polls(c) /\ wait[c] = "running" /\ setup' = setup /\ out' = out
      /\ arbiter' = [arbiter EXCEPT ![c] = CanBlock(c)] /\ Release(1, waiters, w)
  BY DEF RunPermitted
<1>3. SideInv(c)
  BY <1>0, SidesShape DEF Local
<1>4. CanBlock(c) = "Void"
  <2>1. ~Unblocked(c)
    BY <1>2, <1>3 DEF SideInv, Asking
  <2> QED  BY <2>1 DEF CanBlock
<1>5. /\ arbiter'[c] = "Void" /\ \A d \in Sides \ {c} : arbiter'[d] = arbiter[d]
      /\ w[c] = "no" /\ \A d \in Sides \ {c} : w[d] = wait[d]
  BY <1>0, <1>2, <1>4 DEF TypeOK
<1>6. \A d \in Sides : wait'[d] = w[d] \/ (w[d] = "queued" /\ wait'[d] = "granted")
  <2>1. waiters \in Seq(Sides)
    BY <1>0 DEF TypeOK
  <2>2. ASSUME NEW i \in 1 .. Len(waiters)  PROVE w[waiters[i]] = "queued"
    <3>1. waiters[i] \in Range(waiters)
      BY <2>1 DEF Range
    <3>2. waiters[i] \in Sides /\ wait[waiters[i]] = "queued"
      BY <3>1 DEF IInv, QueueInv, Lists
    <3>3. waiters[i] # c
      BY <1>2, <3>2
    <3> QED  BY <1>5, <3>2, <3>3
  <2> HIDE DEF w
  <2> QED  BY <1>2, <2>1, <2>2, ReleaseMoves
<1>7. wait'[c] = "no" /\ \A d \in Sides \ {c} : WaitMoves(d)
  <2> HIDE DEF w
  <2> QED  BY <1>5, <1>6 DEF WaitMoves
<1>8. Local(c[1])'
  BY <1>0, <1>1, <1>2, <1>5, <1>7, CompletesInv
<1>9. OthersStay(c[1])
  BY <1>0, <1>1, <1>2, <1>5, <1>7, DeliverOthers, ApplyOthers DEF OthersStay
<1> QED  BY <1>0, <1>8, <1>9, OthersStayInv

\* The five actions of a side that waits.
LEMMA WaitingStep ==
  ASSUME IInv, NEW c \in Sides,
         RequestPermit(c) \/ Dispatch(c) \/ TryAcquire(c) \/ Acquire(c) \/ StillWaits(c)
  PROVE  \A u \in Tasks : Local(u)'
<1> DEFINE t == c[1]
<1>0. t \in Tasks /\ TypeOK /\ (\A u \in Tasks : Local(u)) /\ SideInv(c)
  BY SidesShape DEF IInv, Local
<1>1. /\ Polls(c) /\ UNCHANGED <<setup, consumed, sink, out>>
      /\ wait[c] # "result"
      /\ \A d \in Sides \ {c} : wait'[d] = wait[d] /\ arbiter'[d] = arbiter[d]
  <2>1. wait \in [Sides -> Asking \cup Pooled \cup {"no"}] /\ arbiter \in [Sides -> {"Void", "Pending", "Once"}]
    BY <1>0 DEF TypeOK, Asking, Pooled
  <2> QED  BY <2>1 DEF RequestPermit, Dispatch, TryAcquire, Acquire, StillWaits
<1>2. /\ ~Unblocked(c)
      /\ wait'[c] \in (Asking \ {"granted"}) \cup {"sent", "working"}
      /\ wait'[c] \in Asking => Mode(c) = "permit"
      /\ wait'[c] \in {"sent", "working"} => Mode(c) = "dispatch"
      /\ task' = task \/ (wait'[c] \notin {"new", "running"} /\ Deliver(c, Pending))
  <2>0. c \in DOMAIN wait
    BY <1>0 DEF TypeOK
  <2>1. CASE RequestPermit(c)
    BY <2>0, <2>1 DEF RequestPermit, Recurse, Asking
  <2>2. CASE Dispatch(c)
    BY <2>0, <2>2 DEF Dispatch, Recurse, Asking
  <2>3. CASE TryAcquire(c)
    <3>1. wait[c] = "new" /\ Mode(c) = "permit" /\ ~Unblocked(c)
      BY <2>3, <1>0 DEF TryAcquire, SideInv, Asking
    <3> QED  BY <2>0, <2>3, <3>1 DEF TryAcquire, Asking
  <2>4. CASE Acquire(c)
    <3>1. wait[c] = "granted" /\ Mode(c) = "permit" /\ ~Unblocked(c)
      BY <2>4, <1>0 DEF Acquire, SideInv, Asking
    <3> QED  BY <2>0, <2>4, <3>1 DEF Acquire, Asking
  <2>5. CASE StillWaits(c)
    <3>1. wait[c] \in {"queued", "sent", "working"} /\ wait' = wait /\ Deliver(c, Pending)
      BY <2>5 DEF StillWaits
    <3> QED  BY <1>0, <3>1 DEF SideInv, Asking, Pooled
  <2> QED  BY <2>1, <2>2, <2>3, <2>4, <2>5
<1>3. \A d \in Sides \ {c} : SideStays(d)
  BY <1>1 DEF SideStays, WaitMoves
<1>4. Local(t)'
  <2> HIDE DEF t
  <2>1. c[1] = t /\ Local(t)
    BY <1>0 DEF t
  <2> QED  BY <1>0, <1>1, <1>2, <1>3, <2>1, WaitStepInv
<1>5. OthersStay(t)
  <2>1. \A u \in Tasks \ {t} : task'[u] = task[u]
    BY <1>0, <1>2, DeliverOthers
  <2> QED  BY <1>1, <2>1 DEF OthersStay, WaitMoves
<1> QED  BY <1>0, <1>4, <1>5, OthersStayInv

LEMMA TakeResultStep ==
  ASSUME IInv, NEW c \in Sides, TakeResult(c)
  PROVE  \A u \in Tasks : Local(u)'
<1> DEFINE t == c[1]
<1>0. t \in Tasks /\ TypeOK /\ (\A u \in Tasks : Local(u))
  BY SidesShape DEF IInv
<1>1. Local(t)'
  <2>1. CASE c = <<t, "stream">>
    <3> HIDE DEF t
    <3> QED  BY <1>0, <2>1, TakeStreamInv
  <2>2. CASE c = <<t, "sink">>
    <3> HIDE DEF t
    <3> QED  BY <1>0, <2>2, TakeSinkInv
  <2> QED  BY <2>1, <2>2, SidesShape
<1>2. OthersStay(t)
  <2>1. \A u \in Tasks \ {t} : task'[u] = task[u]
    BY <1>0, DeliverOthers DEF TakeResult
  <2> QED  BY <1>0, <2>1 DEF TakeResult, OthersStay, WaitMoves, TypeOK
<1> QED  BY <1>0, <1>1, <1>2, OthersStayInv

LEMMA WorkerDoneStep ==
  ASSUME IInv, NEW c \in Sides, WorkerDone(c)
  PROVE  \A u \in Tasks : Local(u)'
<1> DEFINE t == c[1]
<1>0. t \in Tasks /\ TypeOK /\ (\A u \in Tasks : Local(u))
  BY SidesShape DEF IInv
<1>1. Local(t)'
  <2>1. CASE c = <<t, "stream">>
    <3> HIDE DEF t
    <3> QED  BY <1>0, <2>1, WorkerReadInv
  <2>2. CASE c = <<t, "sink">>
    <3> HIDE DEF t
    <3> QED  BY <1>0, <2>2, WorkerWriteInv
  <2> QED  BY <2>1, <2>2, SidesShape
<1>2. OthersStay(t)
  <2>1. PICK r \in Results(c) : Apply(c, r) /\ out' = [out EXCEPT ![c] = r]
    BY DEF WorkerDone
  <2>2. \A u \in Tasks \ {t} : consumed'[u] = consumed[u] /\ sink'[u] = sink[u]
    BY <1>0, <2>1, ApplyOthers
  <2> QED  BY <1>0, <2>1, <2>2 DEF WorkerDone, OthersStay, WaitMoves, TypeOK
<1> QED  BY <1>0, <1>1, <1>2, OthersStayInv

LEMMA WorkerTakesStep ==
  ASSUME IInv, WorkerTakes
  PROVE  \A u \in Tasks : Local(u)'
<1>1. jobs \in Seq(Sides) /\ jobs # << >> /\ wait \in [Sides -> Asking \cup Pooled \cup {"no"}]
  BY DEF IInv, TypeOK, WorkerTakes, Asking, Pooled
<1>2. Head(jobs) \in Sides /\ wait[Head(jobs)] = "sent"
  <2>1. Head(jobs) \in Range(jobs)
    BY <1>1 DEF Range
  <2> QED  BY <2>1 DEF IInv, JobsInv, Lists
<1>3. \A d \in Sides : WaitMoves(d)
  BY <1>1, <1>2 DEF WorkerTakes, WaitMoves
<1> SUFFICES ASSUME NEW u \in Tasks PROVE Local(u)'
  OBVIOUS
<1>4. TaskStays(u)
  BY <1>3, SidesShape DEF WorkerTakes, TaskStays, SideStays
<1> QED  BY <1>4, TaskStaysInv DEF IInv

LEMMA DropStep ==
  ASSUME IInv, NEW t \in Tasks, DropForward(t)
  PROVE  \A u \in Tasks : Local(u)'
<1>0. TypeOK /\ QueueInv /\ (\A u \in Tasks : Local(u))
  BY DEF IInv
<1>1. IsFiniteSet(GrantedPermits(t))
  <2>1. GrantedPermits(t) \subseteq Holders /\ IsFiniteSet(Holders)
    BY DEF IInv, PermitInv, GrantedPermits, Holders
  <2> QED  BY <2>1, FS_Subset
<1>2. Local(t)'
  BY <1>0, <1>1, DropInv
<1>3. OthersStay(t)
  <2>1. \A d \in Sides : d[1] # t => WaitMoves(d)
    BY <1>0, <1>1, DropMoves DEF AfterDrop, WaitMoves
  <2> QED  BY <1>0, <2>1 DEF DropForward, OthersStay, TypeOK
<1> QED  BY <1>0, <1>2, <1>3, OthersStayInv

LEMMA OwnStep ==
  ASSUME IInv, NEW t \in Tasks, Resume(t) \/ SkipEnded(t) \/ StartSend(t)
  PROVE  \A u \in Tasks : Local(u)'
<1>0. TypeOK /\ (\A u \in Tasks : Local(u))
  BY DEF IInv
<1>1. Local(t)'
  BY <1>0, ResumeInv, SkipEndedInv, StartSendInv
<1>2. OthersStay(t)
  BY <1>0 DEF Resume, SkipEnded, StartSend, OthersStay, WaitMoves, TypeOK
<1> QED  BY <1>0, <1>1, <1>2, OthersStayInv

LEMMA LocalStep ==
  ASSUME IInv, [Next]_vars
  PROVE  \A u \in Tasks : Local(u)'
<1>1. CASE UNCHANGED vars
  <2> SUFFICES ASSUME NEW u \in Tasks PROVE Local(u)'
    OBVIOUS
  <2>1. TaskStays(u)
    BY <1>1 DEF vars, TaskStays, SideStays, WaitMoves
  <2> QED  BY <2>1, TaskStaysInv DEF IInv
<1>2. ASSUME NEW t \in Tasks, Poll(t)  PROVE \A u \in Tasks : Local(u)'
  BY <1>2, OwnStep, PollDirectStep, WaitingStep, RunPermittedStep, TakeResultStep DEF Poll
<1>3. ASSUME NEW t \in Tasks, DropForward(t)  PROVE \A u \in Tasks : Local(u)'
  BY <1>3, DropStep
<1>4. CASE WorkerTakes
  BY <1>4, WorkerTakesStep
<1>5. ASSUME NEW c \in Sides, WorkerDone(c)  PROVE \A u \in Tasks : Local(u)'
  BY <1>5, WorkerDoneStep
<1> QED  BY <1>1, <1>2, <1>3, <1>4, <1>5 DEF Next

-----------------------------------------------------------------------------
(* The queues and the permits. *)

LEMMA AppendQueue ==
  ASSUME NEW S, NEW q \in Seq(S), NEW e \in S, IsInjective(q), e \notin Range(q)
  PROVE  IsInjective(Append(q, e)) /\ Range(Append(q, e)) = Range(q) \cup {e}
<1> DEFINE p == Append(q, e)
<1>1. /\ Len(q) \in Nat /\ DOMAIN q = 1 .. Len(q) /\ DOMAIN p = 1 .. Len(q) + 1
      /\ \A i \in 1 .. Len(q) : p[i] = q[i]
      /\ p[Len(q) + 1] = e
  OBVIOUS
<1> HIDE DEF p
<1>2. \A i \in 1 .. Len(q) + 1 : i \in 1 .. Len(q) \/ i = Len(q) + 1
  BY <1>1
<1>3. \A i \in 1 .. Len(q) : q[i] # e
  BY <1>1 DEF Range
<1>4. ASSUME NEW i \in DOMAIN p, NEW j \in DOMAIN p, p[i] = p[j]  PROVE i = j
  <2>1. CASE i \in 1 .. Len(q) /\ j \in 1 .. Len(q)
    BY <2>1, <1>1, <1>4 DEF IsInjective
  <2>2. CASE i = Len(q) + 1 \/ j = Len(q) + 1
    BY <2>2, <1>1, <1>2, <1>3, <1>4
  <2> QED  BY <1>1, <1>2, <2>1, <2>2
<1>5. IsInjective(p)
  BY <1>4 DEF IsInjective
<1>6. ASSUME NEW x  PROVE x \in Range(p) <=> x \in Range(q) \/ x = e
  <2>1. ASSUME x \in Range(p)  PROVE x \in Range(q) \/ x = e
    <3>1. PICK i \in 1 .. Len(q) + 1 : p[i] = x
      BY <1>1, <2>1 DEF Range
    <3> QED  BY <1>1, <1>2, <3>1 DEF Range
  <2>2. ASSUME x \in Range(q)  PROVE x \in Range(p)
    <3>1. PICK i \in 1 .. Len(q) : q[i] = x
      BY <1>1, <2>2 DEF Range
    <3>2. i \in DOMAIN p /\ p[i] = x
      BY <1>1, <3>1
    <3> QED  BY <3>2 DEF Range
  <2>3. e \in Range(p)
    <3>1. Len(q) + 1 \in DOMAIN p /\ p[Len(q) + 1] = e
      BY <1>1
    <3> QED  BY <3>1 DEF Range
  <2> QED  BY <2>1, <2>2, <2>3
<1>7. Range(p) = Range(q) \cup {e}
  BY <1>6
<1> QED  BY <1>5, <1>7 DEF p

\* The front of a queue, and what is behind it.
LEMMA SplitQueue ==
  ASSUME NEW S, NEW q \in Seq(S), IsInjective(q), NEW m \in 0 .. Len(q),
         NEW g, \A x : x \in g <=> \E i \in 1 .. m : q[i] = x,
         NEW p \in Seq(S), Len(p) = Len(q) - m, \A i \in 1 .. Len(q) - m : p[i] = q[i + m]
  PROVE  /\ p \in Seq(S) /\ IsInjective(p) /\ Range(p) = Range(q) \ g
         /\ g \subseteq Range(q)
         /\ IsFiniteSet(g) /\ Cardinality(g) = m
<1>1. /\ Len(q) \in Nat /\ m \in Nat /\ DOMAIN q = 1 .. Len(q)
      /\ p \in Seq(S) /\ DOMAIN p = 1 .. Len(q) - m
      /\ \A i \in 1 .. Len(q) - m : p[i] = q[i + m]
  OBVIOUS
<1>2. \A i \in 1 .. Len(q) - m : i + m \in DOMAIN q /\ i + m \notin 1 .. m
  BY <1>1
<1>3. IsInjective(p)
  <2> SUFFICES ASSUME NEW i \in DOMAIN p, NEW j \in DOMAIN p, p[i] = p[j]  PROVE i = j
    BY DEF IsInjective
  <2>1. q[i + m] = q[j + m] /\ i + m \in DOMAIN q /\ j + m \in DOMAIN q
    BY <1>1, <1>2
  <2>2. i + m = j + m
    BY <2>1 DEF IsInjective
  <2> QED  BY <1>1, <2>2
<1>4. g \subseteq Range(q)
  <2>1. 1 .. m \subseteq DOMAIN q
    BY <1>1
  <2> QED  BY <2>1 DEF Range
<1>5. ASSUME NEW x  PROVE x \in Range(p) <=> x \in Range(q) /\ x \notin g
  <2>1. ASSUME x \in Range(p)  PROVE x \in Range(q) /\ x \notin g
    <3>1. PICK i \in 1 .. Len(q) - m : p[i] = x
      BY <1>1, <2>1 DEF Range
    <3>2. q[i + m] = x /\ i + m \in DOMAIN q /\ i + m \notin 1 .. m
      BY <1>1, <1>2, <3>1
    <3>3. \A j \in 1 .. m : q[j] # x
      <4> TAKE j \in 1 .. m
      <4>1. j \in DOMAIN q /\ j # i + m
        BY <1>1, <3>2
      <4> QED  BY <3>2, <4>1 DEF IsInjective
    <3> QED  BY <3>2, <3>3 DEF Range
  <2>2. ASSUME x \in Range(q), x \notin g  PROVE x \in Range(p)
    <3>1. PICK i \in 1 .. Len(q) : q[i] = x
      BY <1>1, <2>2 DEF Range
    <3>2. i \notin 1 .. m
      BY <2>2, <3>1
    <3>3. i - m \in 1 .. Len(q) - m /\ (i - m) + m = i
      BY <1>1, <3>2
    <3>4. i - m \in DOMAIN p /\ p[i - m] = x
      BY <1>1, <3>1, <3>3
    <3> QED  BY <3>4 DEF Range
  <2> QED  BY <2>1, <2>2
<1>6. IsFiniteSet(g) /\ Cardinality(g) = m
  <2> DEFINE f == [i \in 1 .. m |-> q[i]]
  <2>1. f \in [1 .. m -> g] /\ \A x \in g : \E i \in 1 .. m : f[i] = x
    OBVIOUS
  <2>2. \A i, j \in 1 .. m : f[i] = f[j] => i = j
    <3>1. 1 .. m \subseteq DOMAIN q
      BY <1>1
    <3> QED  BY <3>1 DEF IsInjective
  <2> HIDE DEF f
  <2>3. f \in Bijection(1 .. m, g)
    <3>1. f \in Injection(1 .. m, g)
      BY <2>1, <2>2 DEF Injection, IsInjective
    <3>2. f \in Surjection(1 .. m, g)
      BY <2>1 DEF Surjection
    <3> QED  BY <3>1, <3>2 DEF Bijection
  <2>4. ExistsBijection(1 .. m, g)
    BY <2>3, Zenon DEF ExistsBijection
  <2>5. IsFiniteSet(1 .. m) /\ Cardinality(1 .. m) = m
    <3>1. 1 \in Int /\ m \in Int
      BY <1>1
    <3>2. IsFiniteSet(1 .. m) /\ Cardinality(1 .. m) = IF 1 > m THEN 0 ELSE m - 1 + 1
      BY <3>1, FS_Interval
    <3> QED  BY <1>1, <3>2
  <2> QED  BY <2>4, <2>5, FS_Bijection
<1>7. Range(p) = Range(q) \ g
  BY <1>5
<1> QED  BY <1>1, <1>3, <1>4, <1>6, <1>7

\* A queue whose first element leaves.
LEMMA PopQueue ==
  ASSUME NEW S, NEW q \in Seq(S), IsInjective(q), q # << >>
  PROVE  /\ Tail(q) \in Seq(S) /\ IsInjective(Tail(q))
         /\ Range(Tail(q)) = Range(q) \ {Head(q)} /\ Head(q) \in Range(q)
<1> DEFINE m == 1  g == {Head(q)}  p == Tail(q)
<1>1. m \in 0 .. Len(q)
  OBVIOUS
<1>2. /\ \A x : x \in g <=> \E i \in 1 .. m : q[i] = x
      /\ p \in Seq(S) /\ Len(p) = Len(q) - m
      /\ \A i \in 1 .. Len(q) - m : p[i] = q[i + m]
  <2>1. \A i : i \in 1 .. m <=> i = 1
    OBVIOUS
  <2> QED  BY <2>1
<1> HIDE DEF m, g, p
<1>3. /\ p \in Seq(S) /\ IsInjective(p) /\ Range(p) = Range(q) \ g
      /\ g \subseteq Range(q)
      /\ IsFiniteSet(g) /\ Cardinality(g) = m
  BY <1>1, <1>2, SplitQueue
<1> QED  BY <1>3 DEF g, p

\* q is the queue and w the waits of the sides; n permits are about to come back.
Accounts(n, q, w) ==
  /\ IsInjective(q) /\ Range(q) = {c \in Sides : w[c] = "queued"}
  /\ IsFiniteSet({c \in Sides : w[c] \in {"granted", "running"}})
  /\ free + n + Cardinality({c \in Sides : w[c] \in {"granted", "running"}}) = Permits

\* Permits that come back go to the first waiters or become free: none is lost, none is
\* made up, and who got one has left the queue.
LEMMA ReleasePermits ==
  ASSUME NEW n \in Nat, NEW q \in Seq(Sides), NEW w, free \in Int,
         Accounts(n, q, w), Release(n, q, w)
  PROVE  PermitInv' /\ QueueInv' /\ free' \in Int /\ free' >= free /\ waiters' \in Seq(Sides)
<1> DEFINE m == IF n < Len(q) THEN n ELSE Len(q)
           g == {q[i] : i \in 1 .. m}
           p == SubSeq(q, m + 1, Len(q))
           H == {c \in Sides : w[c] \in {"granted", "running"}}
<1>0. /\ IsInjective(q) /\ Range(q) = {c \in Sides : w[c] = "queued"}
      /\ IsFiniteSet(H) /\ free + n + Cardinality(H) = Permits
  BY DEF Accounts
<1>1. m \in 0 .. Len(q) /\ m \in Nat /\ m <= n
  OBVIOUS
<1>2. /\ free' = free + (n - m)
      /\ waiters' = p
      /\ wait' = [c \in Sides |-> IF c \in g THEN "granted" ELSE w[c]]
  BY DEF Release
<1>3. /\ p \in Seq(Sides) /\ IsInjective(p) /\ Range(p) = Range(q) \ g
      /\ g \subseteq Range(q)
      /\ IsFiniteSet(g) /\ Cardinality(g) = m
  <2>1. /\ \A x : x \in g <=> \E i \in 1 .. m : q[i] = x
        /\ p \in Seq(Sides) /\ Len(p) = Len(q) - m
        /\ \A i \in 1 .. Len(q) - m : p[i] = q[i + m]
    <3>1. m \in 0 .. Len(q)
      BY <1>1
    <3> HIDE DEF m
    <3> QED  BY <3>1
  <2>2. IsInjective(q)
    BY <1>0
  <2> HIDE DEF m, g, p, H
  <2> QED  BY <1>1, <2>1, <2>2, SplitQueue
<1> HIDE DEF m, g, p, H
<1>4. g \subseteq {c \in Sides : w[c] = "queued"}
  BY <1>0, <1>3
<1>5. Holders' = H \cup g
  BY <1>2, <1>4 DEF Holders, H
<1>6. H \cap g = {}
  BY <1>4 DEF H
<1>7. /\ IsFiniteSet(H \cup g)
      /\ Cardinality(H \cup g) = Cardinality(H) + Cardinality(g) - Cardinality(H \cap g)
      /\ Cardinality(H \cap g) = 0
  BY <1>0, <1>3, <1>6, FS_Union, FS_EmptySet
<1>8. Cardinality(H) \in Nat
  BY <1>0, FS_CardinalityType
<1>9. free' + Cardinality(H \cup g) = Permits
  BY <1>0, <1>1, <1>2, <1>3, <1>7, <1>8
<1>10. PermitInv'
  BY <1>5, <1>7, <1>9 DEF PermitInv
<1>11. QueueInv'
  <2>1. Range(p) = {c \in Sides : wait'[c] = "queued"}
    BY <1>0, <1>2, <1>3
  <2> QED  BY <1>2, <1>3, <2>1 DEF QueueInv, Lists
<1> QED  BY <1>1, <1>2, <1>3, <1>10, <1>11

\* Steps that leave a queue, or the permits, alone.
LEMMA QueueKept ==
  ASSUME QueueInv, waiters' = waiters,
         \A d \in Sides : wait'[d] = "queued" <=> wait[d] = "queued"
  PROVE  QueueInv'
BY DEF QueueInv, Lists

LEMMA JobsKept ==
  ASSUME JobsInv, jobs' = jobs,
         \A d \in Sides : wait'[d] = "sent" <=> wait[d] = "sent"
  PROVE  JobsInv'
BY DEF JobsInv, Lists

LEMMA HoldersKept ==
  ASSUME PermitInv, free' = free,
         \A d \in Sides : wait'[d] \in {"granted", "running"} <=> wait[d] \in {"granted", "running"}
  PROVE  PermitInv'
<1>1. Holders' = Holders
  BY DEF Holders
<1> QED  BY <1>1 DEF PermitInv

GlobalInv == QueueInv /\ JobsInv /\ PermitInv

\* A free permit is taken.
LEMMA TakePermit ==
  ASSUME PermitInv, NEW c \in Sides, wait[c] = "new", wait \in [Sides -> Asking \cup Pooled \cup {"no"}],
         free \in Int, free' = free - 1, wait' = [wait EXCEPT ![c] = "running"]
  PROVE  PermitInv'
<1>1. Holders' = Holders \cup {c} /\ c \notin Holders
  BY DEF Holders
<1>2. /\ IsFiniteSet(Holders \cup {c})
      /\ Cardinality(Holders \cup {c}) = Cardinality(Holders) + 1
  BY <1>1, FS_AddElement DEF PermitInv
<1>3. Cardinality(Holders) \in Nat
  BY FS_CardinalityType DEF PermitInv
<1> QED  BY <1>1, <1>2, <1>3 DEF PermitInv

\* The permits are accounted for when a side has run its operation,
LEMMA RunAccounts ==
  ASSUME TypeOK, QueueInv, PermitInv, NEW c \in Sides, wait[c] = "running"
  PROVE  Accounts(1, waiters, [wait EXCEPT ![c] = "no"])
<1> DEFINE w == [wait EXCEPT ![c] = "no"]
<1>1. w[c] = "no" /\ \A d \in Sides \ {c} : w[d] = wait[d]
  BY DEF TypeOK
<1> HIDE DEF w
<1>2. {d \in Sides : w[d] \in {"granted", "running"}} = Holders \ {c} /\ c \in Holders
  BY <1>1 DEF Holders
<1>3. /\ IsFiniteSet(Holders \ {c})
      /\ Cardinality(Holders \ {c}) = Cardinality(Holders) - 1
  BY <1>2, FS_RemoveElement DEF PermitInv
<1>4. Cardinality(Holders) \in Nat /\ free \in Int
  BY FS_CardinalityType DEF PermitInv, TypeOK
<1>5. free + 1 + Cardinality(Holders \ {c}) = Permits
  BY <1>3, <1>4 DEF PermitInv
<1>6. {d \in Sides : w[d] = "queued"} = {d \in Sides : wait[d] = "queued"}
  BY <1>1
<1> QED  BY <1>2, <1>3, <1>5, <1>6 DEF Accounts, QueueInv, Lists, w

\* and when a forward is dropped with those of its sides that hold one.
LEMMA DropAccounts ==
  ASSUME TypeOK, QueueInv, PermitInv, NEW t \in Tasks,
         wait[<<t, "stream">>] # "running", wait[<<t, "sink">>] # "running"
  PROVE  /\ Cardinality(GrantedPermits(t)) \in Nat
         /\ Accounts(Cardinality(GrantedPermits(t)), LeavesQueue(t), AfterDrop(t))
<1> DEFINE g == GrantedPermits(t)  w == AfterDrop(t)
<1>1. g \subseteq Holders
  BY DEF GrantedPermits, Holders
<1>2. IsFiniteSet(Holders) /\ IsFiniteSet(g)
  BY <1>1, FS_Subset DEF PermitInv
<1>3. \A c \in Sides : c[1] = t => wait[c] # "running"
  BY SidesShape
<1>4. {c \in Sides : w[c] \in {"granted", "running"}} = Holders \ g
  BY <1>3 DEF Holders, GrantedPermits, AfterDrop
<1>5. {c \in Sides : w[c] = "queued"} = {c \in Sides : c[1] # t /\ wait[c] = "queued"}
  BY DEF AfterDrop
<1>6. Holders \cap g = g
  BY <1>1
<1> HIDE DEF g, w
<1>7. /\ IsFiniteSet(Holders \ g)
      /\ Cardinality(Holders \ g) = Cardinality(Holders) - Cardinality(g)
  BY <1>2, <1>6, FS_Difference
<1>8. Cardinality(Holders) \in Nat /\ Cardinality(g) \in Nat /\ free \in Int
  BY <1>2, FS_CardinalityType DEF TypeOK
<1>9. free + Cardinality(g) + Cardinality(Holders \ g) = Permits
  BY <1>7, <1>8 DEF PermitInv
<1>10. IsInjective(LeavesQueue(t)) /\ Range(LeavesQueue(t)) = {c \in Sides : w[c] = "queued"}
  BY <1>5, LeavesQueueProps
<1>11. Accounts(Cardinality(g), LeavesQueue(t), w)
  BY <1>4, <1>7, <1>9, <1>10 DEF Accounts
<1> QED  BY <1>8, <1>11 DEF g, w

\* Every step keeps the queues and the permits.
LEMMA GlobalStep ==
  ASSUME IInv, [Next]_vars
  PROVE  GlobalInv' /\ free' \in Nat /\ waiters' \in Seq(Sides) /\ jobs' \in Seq(Sides)
<1>0. /\ TypeOK /\ QueueInv /\ JobsInv /\ PermitInv
      /\ free \in Nat /\ waiters \in Seq(Sides) /\ jobs \in Seq(Sides)
      /\ wait \in [Sides -> Asking \cup Pooled \cup {"no"}]
  BY DEF IInv, TypeOK, Asking, Pooled
<1>1. ASSUME waiters' = waiters, jobs' = jobs, free' = free,
             \A d \in Sides : /\ wait'[d] = "queued" <=> wait[d] = "queued"
                              /\ wait'[d] = "sent" <=> wait[d] = "sent"
                              /\ wait'[d] \in {"granted", "running"} <=> wait[d] \in {"granted", "running"}
      PROVE  GlobalInv' /\ free' \in Nat /\ waiters' \in Seq(Sides) /\ jobs' \in Seq(Sides)
  BY <1>0, <1>1, QueueKept, JobsKept, HoldersKept DEF GlobalInv
<1>2. CASE UNCHANGED vars
  BY <1>1, <1>2 DEF vars
<1>3. ASSUME NEW t \in Tasks, Resume(t) \/ SkipEnded(t) \/ StartSend(t)
      PROVE  GlobalInv' /\ free' \in Nat /\ waiters' \in Seq(Sides) /\ jobs' \in Seq(Sides)
  <2>1. waiters' = waiters /\ jobs' = jobs /\ free' = free /\ wait' = wait
    BY <1>3 DEF Resume, SkipEnded, StartSend
  <2> QED  BY <1>1, <2>1
<1>4. ASSUME NEW c \in Sides, PollDirect(c) \/ StillWaits(c)
      PROVE  GlobalInv' /\ free' \in Nat /\ waiters' \in Seq(Sides) /\ jobs' \in Seq(Sides)
  <2>1. waiters' = waiters /\ jobs' = jobs /\ free' = free /\ wait' = wait
    BY <1>4 DEF PollDirect, StillWaits
  <2> QED  BY <1>1, <2>1
<1>5. ASSUME NEW c \in Sides, RequestPermit(c) \/ Acquire(c) \/ TakeResult(c) \/ WorkerDone(c)
      PROVE  GlobalInv' /\ free' \in Nat /\ waiters' \in Seq(Sides) /\ jobs' \in Seq(Sides)
  <2>1. /\ waiters' = waiters /\ jobs' = jobs /\ free' = free
        /\ \A d \in Sides : /\ wait'[d] = "queued" <=> wait[d] = "queued"
                            /\ wait'[d] = "sent" <=> wait[d] = "sent"
                            /\ wait'[d] \in {"granted", "running"} <=> wait[d] \in {"granted", "running"}
    BY <1>0, <1>5 DEF RequestPermit, Acquire, TakeResult, WorkerDone
  <2> QED  BY <1>1, <2>1
<1>6. ASSUME NEW c \in Sides, Dispatch(c)
      PROVE  GlobalInv' /\ free' \in Nat /\ waiters' \in Seq(Sides) /\ jobs' \in Seq(Sides)
  <2>1. /\ waiters' = waiters /\ free' = free /\ jobs' = Append(jobs, c)
        /\ wait[c] = "no" /\ wait' = [wait EXCEPT ![c] = "sent"]
    BY <1>6 DEF Dispatch
  <2>2. /\ \A d \in Sides : wait'[d] = "queued" <=> wait[d] = "queued"
        /\ \A d \in Sides : wait'[d] \in {"granted", "running"} <=> wait[d] \in {"granted", "running"}
        /\ {d \in Sides : wait'[d] = "sent"} = {d \in Sides : wait[d] = "sent"} \cup {c}
    BY <1>0, <2>1
  <2>3. IsInjective(jobs) /\ Range(jobs) = {d \in Sides : wait[d] = "sent"}
    BY <1>0 DEF JobsInv, Lists
  <2>4. c \notin Range(jobs)
    BY <2>1, <2>3
  <2>5. IsInjective(jobs') /\ Range(jobs') = Range(jobs) \cup {c}
    BY <1>0, <2>1, <2>3, <2>4, AppendQueue
  <2>6. JobsInv'
    BY <2>2, <2>3, <2>5 DEF JobsInv, Lists
  <2> QED  BY <1>0, <2>1, <2>2, <2>6, QueueKept, HoldersKept DEF GlobalInv
<1>7. ASSUME NEW c \in Sides, TryAcquire(c)
      PROVE  GlobalInv' /\ free' \in Nat /\ waiters' \in Seq(Sides) /\ jobs' \in Seq(Sides)
  <2>0. wait[c] = "new" /\ jobs' = jobs
    BY <1>7 DEF TryAcquire
  <2>1. CASE free > 0
    <3>1. free' = free - 1 /\ wait' = [wait EXCEPT ![c] = "running"] /\ waiters' = waiters
      BY <1>7, <2>1 DEF TryAcquire
    <3>2. PermitInv'
      <4>1. PermitInv /\ free \in Int /\ wait \in [Sides -> Asking \cup Pooled \cup {"no"}]
        BY <1>0
      <4> QED  BY <2>0, <3>1, <4>1, TakePermit
    <3>3. \A d \in Sides : /\ wait'[d] = "queued" <=> wait[d] = "queued"
                           /\ wait'[d] = "sent" <=> wait[d] = "sent"
      BY <1>0, <2>0, <3>1
    <3> QED  BY <1>0, <2>0, <2>1, <3>1, <3>2, <3>3, QueueKept, JobsKept DEF GlobalInv
  <2>2. CASE ~(free > 0)
    <3>1. free' = free /\ wait' = [wait EXCEPT ![c] = "queued"] /\ waiters' = Append(waiters, c)
      BY <1>7, <2>2 DEF TryAcquire
    <3>2. /\ \A d \in Sides : wait'[d] = "sent" <=> wait[d] = "sent"
          /\ \A d \in Sides : wait'[d] \in {"granted", "running"} <=> wait[d] \in {"granted", "running"}
          /\ {d \in Sides : wait'[d] = "queued"} = {d \in Sides : wait[d] = "queued"} \cup {c}
      BY <1>0, <2>0, <3>1
    <3>3. IsInjective(waiters) /\ Range(waiters) = {d \in Sides : wait[d] = "queued"}
      BY <1>0 DEF QueueInv, Lists
    <3>4. c \notin Range(waiters)
      BY <2>0, <3>3
    <3>5. IsInjective(waiters') /\ Range(waiters') = Range(waiters) \cup {c}
      BY <1>0, <3>1, <3>3, <3>4, AppendQueue
    <3>6. QueueInv'
      BY <3>2, <3>3, <3>5 DEF QueueInv, Lists
    <3> QED  BY <1>0, <2>0, <3>1, <3>2, <3>6, JobsKept, HoldersKept DEF GlobalInv
  <2> QED  BY <2>1, <2>2
<1>8. ASSUME NEW c \in Sides, RunPermitted(c)
      PROVE  GlobalInv' /\ free' \in Nat /\ waiters' \in Seq(Sides) /\ jobs' \in Seq(Sides)
  <2> DEFINE w == [wait EXCEPT ![c] = "no"]
  <2>1. wait[c] = "running" /\ jobs' = jobs /\ Release(1, waiters, w)
    BY <1>8 DEF RunPermitted
  <2>2. Accounts(1, waiters, w)
    BY <1>0, <2>1, RunAccounts
  <2>3. \A d \in Sides : w[d] = "sent" <=> wait[d] = "sent"
    BY <1>0, <2>1
  <2> HIDE DEF w
  <2>4. PermitInv' /\ QueueInv' /\ free' \in Int /\ free' >= free /\ waiters' \in Seq(Sides)
    <3>1. free \in Int /\ waiters \in Seq(Sides) /\ 1 \in Nat
      BY <1>0
    <3> QED  BY <2>1, <2>2, <3>1, ReleasePermits
  <2>5. \A d \in Sides : wait'[d] = w[d] \/ (w[d] = "queued" /\ wait'[d] = "granted")
    <3>1. ASSUME NEW i \in 1 .. Len(waiters)  PROVE w[waiters[i]] = "queued"
      <4>1. waiters[i] \in Range(waiters)
        BY <1>0 DEF Range
      <4> QED  BY <2>2, <4>1 DEF Accounts
    <3> QED  BY <1>0, <2>1, <3>1, ReleaseMoves
  <2>6. JobsInv'
    BY <1>0, <2>1, <2>3, <2>5, JobsKept
  <2> QED  BY <1>0, <2>1, <2>4, <2>6 DEF GlobalInv
<1>9. CASE WorkerTakes
  <2> DEFINE h == Head(jobs)
  <2>1. /\ jobs # << >> /\ jobs' = Tail(jobs) /\ waiters' = waiters /\ free' = free
        /\ wait' = [wait EXCEPT ![h] = "working"]
    BY <1>9 DEF WorkerTakes
  <2>2. IsInjective(jobs) /\ Range(jobs) = {d \in Sides : wait[d] = "sent"}
    BY <1>0 DEF JobsInv, Lists
  <2>3. IsInjective(jobs)
    BY <2>2
  <2>4. /\ Tail(jobs) \in Seq(Sides) /\ IsInjective(Tail(jobs))
        /\ Range(Tail(jobs)) = Range(jobs) \ {Head(jobs)} /\ Head(jobs) \in Range(jobs)
    BY <1>0, <2>1, <2>3, PopQueue
  <2>5. /\ jobs' \in Seq(Sides) /\ IsInjective(jobs')
        /\ Range(jobs') = Range(jobs) \ {h} /\ h \in Range(jobs)
    BY <2>1, <2>4
  <2>6. h \in Sides /\ wait[h] = "sent"
    BY <2>2, <2>5
  <2> HIDE DEF h
  <2>7. /\ \A d \in Sides : wait'[d] = "queued" <=> wait[d] = "queued"
        /\ \A d \in Sides : wait'[d] \in {"granted", "running"} <=> wait[d] \in {"granted", "running"}
        /\ {d \in Sides : wait'[d] = "sent"} = {d \in Sides : wait[d] = "sent"} \ {h}
    BY <1>0, <2>1, <2>6
  <2>8. JobsInv'
    BY <2>2, <2>5, <2>7 DEF JobsInv, Lists
  <2> QED  BY <1>0, <2>1, <2>5, <2>7, <2>8, QueueKept, HoldersKept DEF GlobalInv
<1>10. ASSUME NEW t \in Tasks, DropForward(t)
       PROVE  GlobalInv' /\ free' \in Nat /\ waiters' \in Seq(Sides) /\ jobs' \in Seq(Sides)
  <2> DEFINE n == Cardinality(GrantedPermits(t))  q == LeavesQueue(t)  w == AfterDrop(t)
  <2>1. Release(n, q, w) /\ jobs' = jobs /\ task[t].pc \in {"failing", "idle"}
    BY <1>10 DEF DropForward, AfterDrop
  <2>2. wait[<<t, "stream">>] # "running" /\ wait[<<t, "sink">>] # "running"
    BY <2>1 DEF IInv, Local, SideInv, Polls
  <2>3. n \in Nat /\ Accounts(n, q, w)
    BY <1>0, <2>2, DropAccounts
  <2>4. q \in Seq(Sides)
    BY <1>0, LeavesQueueProps
  <2> HIDE DEF n, q, w
  <2>5. PermitInv' /\ QueueInv' /\ free' \in Int /\ free' >= free /\ waiters' \in Seq(Sides)
    <3>1. free \in Int
      BY <1>0
    <3> QED  BY <2>1, <2>3, <2>4, <3>1, ReleasePermits
  <2>6. \A d \in Sides : wait'[d] = w[d] \/ (w[d] = "queued" /\ wait'[d] = "granted")
    <3>1. ASSUME NEW i \in 1 .. Len(q)  PROVE w[q[i]] = "queued"
      <4>1. q[i] \in Range(q)
        BY <2>4 DEF Range
      <4> QED  BY <2>3, <4>1 DEF Accounts
    <3> QED  BY <2>1, <2>3, <2>4, <3>1, ReleaseMoves
  <2>7. \A d \in Sides : w[d] = "sent" <=> wait[d] = "sent"
    BY DEF w, AfterDrop
  <2>8. JobsInv'
    BY <1>0, <2>1, <2>6, <2>7, JobsKept
  <2> QED  BY <1>0, <2>1, <2>5, <2>8 DEF GlobalInv
<1> QED  BY <1>2, <1>3, <1>4, <1>5, <1>6, <1>7, <1>8, <1>9, <1>10 DEF Next, Poll

-----------------------------------------------------------------------------
(* Types. *)

Waits == {"no", "new", "queued", "granted", "running", "sent", "working", "result"}

\* What TypeOK says of all but the queues and the permits.
Types ==
  /\ setup \in [Tasks -> Setups]
  /\ task \in [Tasks -> TaskRec]
  /\ consumed \in [Tasks -> Nat]
  /\ sink \in [Tasks -> SinkRec]
  /\ arbiter \in [Sides -> {"Void", "Pending", "Once"}]
  /\ wait \in [Sides -> Waits]
  /\ out \in [Sides -> OutRec]
  /\ heard \subseteq Sides
  /\ woken \subseteq Tasks

LEMMA TypesAre ==
  TypeOK <=> /\ Types
             /\ free \in 0 .. Permits /\ waiters \in Seq(Sides) /\ jobs \in Seq(Sides)
BY DEF TypeOK, Types, TaskRec, SinkRec, OutRec, Waits, Body

LEMMA WakeTypes ==
  ASSUME Types, NEW cs, Wake(cs)
  PROVE  heard' \subseteq Sides /\ woken' \subseteq Tasks
BY SidesShape DEF Types, Wake

LEMMA ReleaseTypes ==
  ASSUME Types, NEW n, NEW q, NEW w, \A c \in Sides : w[c] \in Waits, Release(n, q, w)
  PROVE  wait' \in [Sides -> Waits] /\ heard' \subseteq Sides /\ woken' \subseteq Tasks
<1> DEFINE g == {q[i] : i \in 1 .. (IF n < Len(q) THEN n ELSE Len(q))}
<1>1. wait' = [c \in Sides |-> IF c \in g THEN "granted" ELSE w[c]] /\ Wake(g)
  BY DEF Release
<1> HIDE DEF g
<1>2. "granted" \in Waits
  BY DEF Waits
<1> QED  BY <1>1, <1>2, WakeTypes

LEMMA CanBlockType ==
  ASSUME Types, NEW c \in Sides
  PROVE  CanBlock(c) \in {"Void", "Pending", "Once"}
BY DEF Types, CanBlock

LEMMA TypeStep ==
  ASSUME IInv, [Next]_vars
  PROVE  Types'
<1>0. TypeOK /\ Types /\ \A c \in Sides : TaskInv(c[1])
  BY TypesAre, SidesShape DEF IInv, Local
<1>1. CASE UNCHANGED vars
  BY <1>0, <1>1 DEF vars, Types
<1>2. ASSUME NEW t \in Tasks, Resume(t) \/ SkipEnded(t) \/ StartSend(t)  PROVE Types'
  <2>0. task[t] \in TaskRec /\ sink[t] \in SinkRec /\ << >> \in Body
    BY <1>0 DEF Types, Body
  <2>1. CASE Resume(t)
    <3>1. [task[t] EXCEPT !.pc = IF task[t].item # << >> THEN "ready" ELSE "stream"] \in TaskRec
      BY <2>0 DEF TaskRec
    <3>2. task' \in [Tasks -> TaskRec]
      BY <1>0, <2>1, <3>1 DEF Resume, Types
    <3> QED  BY <1>0, <2>1, <3>2 DEF Resume, Types
  <2>2. CASE SkipEnded(t)
    <3>1. [task[t] EXCEPT !.pc = "close"] \in TaskRec
      BY <2>0 DEF TaskRec
    <3>2. task' \in [Tasks -> TaskRec]
      BY <1>0, <2>2, <3>1 DEF SkipEnded, Types
    <3> QED  BY <1>0, <2>2, <3>2 DEF SkipEnded, Types
  <2>3. CASE StartSend(t)
    <3>1. /\ [task[t] EXCEPT !.pc = "stream", !.item = << >>] \in TaskRec
          /\ [sink[t] EXCEPT !.buf = task[t].item] \in SinkRec
      BY <2>0 DEF TaskRec, SinkRec
    <3>2. task' = [task EXCEPT ![t] = [task[t] EXCEPT !.pc = "stream", !.item = << >>]]
      BY <1>0, <2>3 DEF StartSend, Types
    <3>3. sink' = [sink EXCEPT ![t] = [sink[t] EXCEPT !.buf = task[t].item]]
      BY <1>0, <2>3 DEF StartSend, Types
    <3>4. task' \in [Tasks -> TaskRec] /\ sink' \in [Tasks -> SinkRec]
      BY <1>0, <3>1, <3>2, <3>3 DEF Types
    <3> QED  BY <1>0, <2>3, <3>4 DEF StartSend, Types
  <2> QED  BY <1>2, <2>1, <2>2, <2>3
<1>3. ASSUME NEW c \in Sides, NEW r \in Results(c), Apply(c, r)
      PROVE  /\ r \in OutRec /\ r.cells \in Body
             /\ r.poll \in (IF c[2] = "stream" THEN {"item", "end", "err", "pending"}
                                               ELSE {"ok", "err", "pending"})
             /\ consumed' \in [Tasks -> Nat] /\ sink' \in [Tasks -> SinkRec]
  <2>1. /\ r \in OutRec
        /\ r.poll \in (IF c[2] = "stream" THEN {"item", "end", "err"} ELSE {"ok", "err"})
    BY <1>0, ResultTypes
  <2>2. r.cells \in Body
    BY <2>1 DEF OutRec
  <2>3. consumed' \in [Tasks -> Nat] /\ sink' \in [Tasks -> SinkRec]
    BY <1>0, <1>3, <2>2, ApplyTypes
  <2>4. r.poll \in (IF c[2] = "stream" THEN {"item", "end", "err", "pending"}
                                       ELSE {"ok", "err", "pending"})
    BY <2>1
  <2> QED  BY <2>1, <2>2, <2>3, <2>4
<1>4. ASSUME NEW c \in Sides, Polls(c), Deliver(c, Pending)
      PROVE  task' \in [Tasks -> TaskRec]
  <2>1. Pending.cells \in Body /\ Pending.poll = "pending"
    BY DEF Pending, Body
  <2>2. Pending.poll \in (IF c[2] = "stream" THEN {"item", "end", "err", "pending"}
                                             ELSE {"ok", "err", "pending"})
    BY <2>1
  <2> QED  BY <1>0, <1>4, <2>1, <2>2, DeliverTypes
<1>5. ASSUME NEW c \in Sides, PollDirect(c)  PROVE Types'
  <2>1. PICK r \in Results(c) : Apply(c, r) /\ Deliver(c, r)
    BY <1>5 DEF PollDirect
  <2>2. task' \in [Tasks -> TaskRec]
    <3>1. Polls(c)
      BY <1>5 DEF PollDirect
    <3> QED  BY <1>0, <1>3, <2>1, <3>1, DeliverTypes
  <2> QED  BY <1>0, <1>3, <1>5, <2>1, <2>2 DEF PollDirect, Types
<1>6. ASSUME NEW c \in Sides, RequestPermit(c) \/ Dispatch(c) \/ Acquire(c)  PROVE Types'
  <2>1. /\ UNCHANGED <<setup, task, consumed, sink, out, heard, woken>>
        /\ \E a \in {"Pending", "Once"} : arbiter' = [arbiter EXCEPT ![c] = a]
        /\ \E w \in {"new", "sent", "running"} : wait' = [wait EXCEPT ![c] = w]
    BY <1>6 DEF RequestPermit, Dispatch, Acquire, Recurse
  <2>2. arbiter' \in [Sides -> {"Void", "Pending", "Once"}]
    BY <1>0, <2>1 DEF Types
  <2>3. wait' \in [Sides -> Waits]
    BY <1>0, <2>1 DEF Types, Waits
  <2> QED  BY <1>0, <2>1, <2>2, <2>3 DEF Types
<1>7. ASSUME NEW c \in Sides, TryAcquire(c)  PROVE Types'
  <2>1. /\ UNCHANGED <<setup, consumed, sink, out, woken>>
        /\ arbiter' = arbiter \/ arbiter' = [arbiter EXCEPT ![c] = "Once"]
        /\ \E w \in {"queued", "running"} : wait' = [wait EXCEPT ![c] = w]
        /\ heard' = heard \/ heard' = heard \cup {c}
        /\ task' = task \/ Deliver(c, Pending)
        /\ Polls(c)
    BY <1>7 DEF TryAcquire
  <2>2. arbiter' \in [Sides -> {"Void", "Pending", "Once"}]
    BY <1>0, <2>1 DEF Types
  <2>3. wait' \in [Sides -> Waits]
    BY <1>0, <2>1 DEF Types, Waits
  <2>4. heard' \subseteq Sides
    BY <1>0, <2>1 DEF Types
  <2>5. task' \in [Tasks -> TaskRec]
    BY <1>0, <1>4, <2>1 DEF Types
  <2> QED  BY <1>0, <2>1, <2>2, <2>3, <2>4, <2>5 DEF Types
<1>8. ASSUME NEW c \in Sides, StillWaits(c)  PROVE Types'
  <2>1. task' \in [Tasks -> TaskRec]
    BY <1>4, <1>8 DEF StillWaits
  <2> QED  BY <1>0, <1>8, <2>1 DEF StillWaits, Types
<1>9. ASSUME NEW c \in Sides, RunPermitted(c)  PROVE Types'
  <2> DEFINE w == [wait EXCEPT ![c] = "no"]
  <2>1. PICK r \in Results(c) : Apply(c, r) /\ Deliver(c, r)
    BY <1>9 DEF RunPermitted
  <2>2. /\ Polls(c) /\ setup' = setup /\ out' = out
        /\ arbiter' = [arbiter EXCEPT ![c] = CanBlock(c)] /\ Release(1, waiters, w)
    BY <1>9 DEF RunPermitted
  <2>3. task' \in [Tasks -> TaskRec]
    BY <1>0, <1>3, <2>1, <2>2, DeliverTypes
  <2>4. \A d \in Sides : w[d] \in Waits
    BY <1>0 DEF Types, Waits
  <2> HIDE DEF w
  <2>5. wait' \in [Sides -> Waits] /\ heard' \subseteq Sides /\ woken' \subseteq Tasks
    BY <1>0, <2>2, <2>4, ReleaseTypes
  <2>6. arbiter' \in [Sides -> {"Void", "Pending", "Once"}]
    BY <1>0, <2>2, CanBlockType DEF Types
  <2> QED  BY <1>0, <1>3, <2>1, <2>2, <2>3, <2>5, <2>6 DEF Types
<1>10. ASSUME NEW c \in Sides, TakeResult(c)  PROVE Types'
  <2>1. /\ Polls(c) /\ wait[c] = "result" /\ Deliver(c, out[c]) /\ out[c] \in OutRec
        /\ c[2] \in {"stream", "sink"}
    BY <1>0, <1>10 DEF TakeResult, Types, Sides
  <2>2. /\ out[c].cells \in Body
        /\ out[c].poll \in (IF c[2] = "stream" THEN {"item", "end", "err", "pending"}
                                               ELSE {"ok", "err", "pending"})
    <3>1. SideInv(c)
      BY SidesShape DEF IInv, Local
    <3> QED  BY <2>1, <3>1 DEF SideInv, OutRec
  <2>3. task' \in [Tasks -> TaskRec]
    BY <1>0, <2>1, <2>2, DeliverTypes
  <2>4. Nothing \in OutRec
    BY DEF Nothing, OutRec, Body
  <2> QED  BY <1>0, <1>10, <2>3, <2>4 DEF TakeResult, Types, Waits
<1>11. CASE WorkerTakes
  BY <1>0, <1>11 DEF WorkerTakes, Types, Waits
<1>12. ASSUME NEW c \in Sides, WorkerDone(c)  PROVE Types'
  <2>1. PICK r \in Results(c) : Apply(c, r) /\ out' = [out EXCEPT ![c] = r]
    BY <1>12 DEF WorkerDone
  <2>2. heard' \subseteq Sides /\ woken' \subseteq Tasks
    BY <1>0, <1>12, WakeTypes DEF WorkerDone
  <2>3. /\ arbiter' \in [Sides -> {"Void", "Pending", "Once"}] /\ wait' \in [Sides -> Waits]
        /\ setup' = setup /\ task' = task
    BY <1>0, <1>12, CanBlockType DEF WorkerDone, Types, Waits
  <2>4. out' \in [Sides -> OutRec]
    BY <1>0, <1>3, <2>1 DEF Types
  <2> QED  BY <1>0, <1>3, <2>1, <2>2, <2>3, <2>4 DEF Types
<1>13. ASSUME NEW t \in Tasks, DropForward(t)  PROVE Types'
  <2>1. \E p \in Ended : task' = [task EXCEPT ![t].pc = p]
    BY <1>13 DEF DropForward, Ended
  <2>2. task' \in [Tasks -> TaskRec]
    <3>1. PICK p \in Ended : task' = [task EXCEPT ![t].pc = p]
      BY <2>1
    <3>2. [task[t] EXCEPT !.pc = p] \in TaskRec
      BY <1>0 DEF Types, TaskRec
    <3> QED  BY <1>0, <3>1, <3>2 DEF Types
  <2>3. Release(Cardinality(GrantedPermits(t)), LeavesQueue(t), AfterDrop(t))
    BY <1>13 DEF DropForward, AfterDrop
  <2>4. \A d \in Sides : AfterDrop(t)[d] \in Waits
    BY <1>0 DEF Types, AfterDrop, Waits
  <2>5. wait' \in [Sides -> Waits] /\ heard' \subseteq Sides /\ woken' \subseteq Tasks
    BY <1>0, <2>3, <2>4, ReleaseTypes
  <2> QED  BY <1>0, <1>13, <2>2, <2>5 DEF DropForward, Types
<1> QED  BY <1>1, <1>2, <1>5, <1>6, <1>7, <1>8, <1>9, <1>10, <1>11, <1>12, <1>13 DEF Next, Poll

-----------------------------------------------------------------------------
(* Wakers. *)

\* Whoever holds the task's waker keeps it, or calls it in this step.
AwaitKept(d) == Awaits(d) => Awaits(d)' \/ d[1] \in woken'

\* A poll that ends without an answer comes from a flush that had nothing to wait for, after
\* the stream had left the waker.
LEMMA WakeKept ==
  ASSUME NEW u \in Tasks, WakeInv(u), u \in woken => u \in woken',
         AwaitKept(<<u, "stream">>), AwaitKept(<<u, "sink">>),
         task'[u].pc \in {"idle", "flush"} =>
           \/ task'[u].pc = task[u].pc
           \/ task[u].pc = "flush" /\ task'[u].pc = "idle"
  PROVE  WakeInv(u)'
BY DEF WakeInv, AwaitKept

LEMMA CompletesPc ==
  ASSUME TypeOK, NEW c \in Sides, Polls(c), NEW r, Deliver(c, r),
         r.poll \in (IF c[2] = "stream" THEN {"item", "end", "err"} ELSE {"ok", "err"})
  PROVE  task'[c[1]].pc \in {"idle", "flush"} =>
           task[c[1]].pc = "flush" /\ task'[c[1]].pc = "idle"
<1> DEFINE t == c[1]
<1>0. t \in Tasks /\ c[2] \in {"stream", "sink"} /\ task \in [Tasks -> TaskRec]
  BY SidesShape DEF Sides, TypeOK, TaskRec, Body
<1>1. CASE c[2] = "stream"
  <2>1. task'[t] = AfterStream(task[t], r) /\ task[t] \in TaskRec
    BY <1>0, <1>1 DEF Deliver
  <2> QED  BY <1>1, <2>1 DEF AfterStream, TaskRec
<1>2. CASE c[2] = "sink"
  <2>1. task'[t] = AfterSink(task[t], r) /\ task[t] \in TaskRec
    BY <1>0, <1>2 DEF Deliver
  <2>2. task[t].pc \in {"ready", "flush", "close"}
    BY <1>2 DEF Polls
  <2>3. r.poll = "err" => task'[t].pc = "failing"
    BY <2>1 DEF AfterSink, TaskRec
  <2>4. r.poll = "ok" /\ task[t].pc = "flush" => task'[t].pc = "idle"
    BY <2>1 DEF AfterSink, TaskRec
  <2>5. r.poll = "ok" /\ task[t].pc = "ready" => task'[t].pc = "send"
    BY <2>1 DEF AfterSink, TaskRec
  <2>6. r.poll = "ok" /\ task[t].pc = "close" => task'[t].pc = "done"
    BY <2>1 DEF AfterSink, TaskRec
  <2> QED  BY <1>2, <2>2, <2>3, <2>4, <2>5, <2>6
<1> QED  BY <1>0, <1>1, <1>2

\* A side that answers Pending has left the waker before.
LEMMA WakePending ==
  ASSUME TypeOK, NEW c \in Sides, Polls(c), Deliver(c, Pending), Awaits(c)'
  PROVE  WakeInv(c[1])'
<1> DEFINE t == c[1]
<1>0. t \in Tasks /\ c[2] \in {"stream", "sink"} /\ task \in [Tasks -> TaskRec]
  BY SidesShape DEF Sides, TypeOK, TaskRec, Body
<1>1. CASE c = <<t, "stream">>
  <2>1. task'[t] = AfterStream(task[t], Pending) /\ task[t] \in TaskRec
    BY <1>0, <1>1 DEF Deliver
  <2>2. task'[t].pc = "flush"
    BY <2>1 DEF AfterStream, TaskRec, Pending
  <2> QED  BY <1>1, <2>2 DEF WakeInv
<1>2. CASE c = <<t, "sink">>
  <2>1. task'[t] = AfterSink(task[t], Pending) /\ task[t] \in TaskRec
    BY <1>0, <1>2 DEF Deliver
  <2>2. task'[t].pc = "idle"
    BY <2>1 DEF AfterSink, TaskRec, Pending
  <2> QED  BY <1>2, <2>2 DEF WakeInv
<1> QED  BY <1>1, <1>2, SidesShape

\* Permits that come back wake those who get them.
LEMMA ReleaseWakes ==
  ASSUME NEW n, NEW q, NEW w, Release(n, q, w)
  PROVE  /\ \A d \in Sides : w[d] = wait[d] => AwaitKept(d)
         /\ woken \subseteq woken'
<1> DEFINE g == {q[i] : i \in 1 .. (IF n < Len(q) THEN n ELSE Len(q))}
<1>1. wait' = [c \in Sides |-> IF c \in g THEN "granted" ELSE w[c]] /\ Wake(g)
  BY DEF Release
<1> HIDE DEF g
<1> QED  BY <1>1 DEF Wake, AwaitKept, Awaits

LEMMA WakeStep ==
  ASSUME IInv, [Next]_vars
  PROVE  \A u \in Tasks : WakeInv(u)'
<1>0. /\ TypeOK /\ (\A u \in Tasks : WakeInv(u))
      /\ (\A u \in Tasks : <<u, "stream">> \in Sides /\ <<u, "sink">> \in Sides)
      /\ wait \in [Sides -> Waits] /\ task \in [Tasks -> TaskRec]
      /\ (\A c \in Sides : TaskInv(c[1]) /\ SideInv(c) /\ c[1] \in Tasks)
  BY TypesAre, SidesShape DEF IInv, Local, Types
<1>1. ASSUME woken \subseteq woken', \A d \in Sides : AwaitKept(d), task' = task
      PROVE  \A u \in Tasks : WakeInv(u)'
  BY <1>0, <1>1, WakeKept
<1>2. CASE UNCHANGED vars
  <2>1. \A d \in Sides : AwaitKept(d)
    BY <1>2 DEF vars, AwaitKept, Awaits
  <2> QED  BY <1>1, <1>2, <2>1 DEF vars
<1>3. ASSUME NEW t \in Tasks, Resume(t) \/ SkipEnded(t) \/ StartSend(t)
      PROVE  \A u \in Tasks : WakeInv(u)'
  <2>1. /\ task'[t].pc \notin {"idle", "flush"} /\ (\A u \in Tasks \ {t} : task'[u] = task[u])
        /\ (\A u \in Tasks \ {t} : u \in woken => u \in woken')
    BY <1>0, <1>3 DEF Resume, SkipEnded, StartSend, TaskRec
  <2>2. \A d \in Sides : AwaitKept(d)
    BY <1>3 DEF Resume, SkipEnded, StartSend, AwaitKept, Awaits
  <2>3. WakeInv(t)'
    BY <2>1 DEF WakeInv
  <2> QED  BY <1>0, <2>1, <2>2, <2>3, WakeKept
<1>4. ASSUME NEW c \in Sides, NEW r, Polls(c), Deliver(c, r),
             r.poll \in (IF c[2] = "stream" THEN {"item", "end", "err"} ELSE {"ok", "err"}),
             woken \subseteq woken', \A d \in Sides : AwaitKept(d)
      PROVE  \A u \in Tasks : WakeInv(u)'
  <2>1. task'[c[1]].pc \in {"idle", "flush"} =>
          task[c[1]].pc = "flush" /\ task'[c[1]].pc = "idle"
    BY <1>0, <1>4, CompletesPc
  <2>2. \A u \in Tasks \ {c[1]} : task'[u] = task[u]
    BY <1>0, <1>4, DeliverOthers
  <2>3. WakeInv(c[1])'
    BY <1>0, <1>4, <2>1, WakeKept
  <2> QED  BY <1>0, <1>4, <2>2, <2>3, WakeKept
<1>5. ASSUME NEW c \in Sides, Polls(c), Deliver(c, Pending), Awaits(c)',
             woken' = woken, \A d \in Sides : AwaitKept(d)
      PROVE  \A u \in Tasks : WakeInv(u)'
  <2>1. \A u \in Tasks \ {c[1]} : task'[u] = task[u]
    BY <1>0, <1>5, DeliverOthers
  <2>2. WakeInv(c[1])'
    BY <1>0, <1>5, WakePending
  <2> QED  BY <1>0, <1>5, <2>1, <2>2, WakeKept
<1>6. ASSUME NEW c \in Sides, PollDirect(c)  PROVE \A u \in Tasks : WakeInv(u)'
  <2>1. PICK r \in Results(c) : Deliver(c, r)
    BY <1>6 DEF PollDirect
  <2>2. r.poll \in (IF c[2] = "stream" THEN {"item", "end", "err"} ELSE {"ok", "err"})
    BY <1>0, ResultTypes
  <2>3. Polls(c) /\ woken' = woken /\ \A d \in Sides : AwaitKept(d)
    BY <1>6 DEF PollDirect, AwaitKept, Awaits
  <2> QED  BY <1>4, <2>1, <2>2, <2>3
<1>7. ASSUME NEW c \in Sides, RequestPermit(c) \/ Dispatch(c) \/ Acquire(c)
      PROVE  \A u \in Tasks : WakeInv(u)'
  <2>1. /\ task' = task /\ woken' = woken /\ heard' = heard /\ wait[c] \in {"no", "granted"}
        /\ \A d \in Sides \ {c} : wait'[d] = wait[d]
    BY <1>0, <1>7 DEF RequestPermit, Dispatch, Acquire, Recurse
  <2>2. \A d \in Sides : AwaitKept(d)
    BY <2>1 DEF AwaitKept, Awaits
  <2> QED  BY <1>1, <2>1, <2>2
<1>8. ASSUME NEW c \in Sides, TryAcquire(c)  PROVE \A u \in Tasks : WakeInv(u)'
  <2>1. /\ Polls(c) /\ woken' = woken /\ wait[c] = "new"
        /\ \A d \in Sides \ {c} : wait'[d] = wait[d]
    BY <1>0, <1>8 DEF TryAcquire
  <2>2. CASE free > 0
    <3>1. task' = task /\ heard' = heard
      BY <1>8, <2>2 DEF TryAcquire
    <3>2. \A d \in Sides : AwaitKept(d)
      BY <2>1, <3>1 DEF AwaitKept, Awaits
    <3> QED  BY <1>1, <2>1, <3>1, <3>2
  <2>3. CASE ~(free > 0)
    <3>1. wait'[c] = "queued" /\ heard' = heard \cup {c} /\ Deliver(c, Pending)
      BY <1>0, <1>8, <2>3 DEF TryAcquire
    <3>2. Awaits(c)' /\ \A d \in Sides : AwaitKept(d)
      BY <2>1, <3>1 DEF AwaitKept, Awaits
    <3> QED  BY <1>5, <2>1, <3>1, <3>2
  <2> QED  BY <2>2, <2>3
<1>9. ASSUME NEW c \in Sides, StillWaits(c)  PROVE \A u \in Tasks : WakeInv(u)'
  <2>1. /\ Polls(c) /\ Deliver(c, Pending) /\ woken' = woken
        /\ wait[c] \in {"queued", "sent", "working"} /\ wait' = wait /\ heard' = heard \cup {c}
    BY <1>9 DEF StillWaits
  <2>2. Awaits(c)' /\ \A d \in Sides : AwaitKept(d)
    BY <2>1 DEF AwaitKept, Awaits
  <2> QED  BY <1>5, <2>1, <2>2
<1>10. ASSUME NEW c \in Sides, RunPermitted(c)  PROVE \A u \in Tasks : WakeInv(u)'
  <2> DEFINE w == [wait EXCEPT ![c] = "no"]
  <2>1. PICK r \in Results(c) : Deliver(c, r)
    BY <1>10 DEF RunPermitted
  <2>2. r.poll \in (IF c[2] = "stream" THEN {"item", "end", "err"} ELSE {"ok", "err"})
    BY <1>0, ResultTypes
  <2>3. Polls(c) /\ wait[c] = "running" /\ Release(1, waiters, w)
    BY <1>10 DEF RunPermitted
  <2>4. \A d \in Sides \ {c} : w[d] = wait[d]
    BY <1>0
  <2> HIDE DEF w
  <2>5. woken \subseteq woken' /\ \A d \in Sides : w[d] = wait[d] => AwaitKept(d)
    BY <2>3, ReleaseWakes
  <2>6. AwaitKept(c)
    BY <2>3 DEF AwaitKept, Awaits
  <2>7. \A d \in Sides : AwaitKept(d)
    BY <2>4, <2>5, <2>6
  <2> QED  BY <1>4, <2>1, <2>2, <2>3, <2>5, <2>7
<1>11. ASSUME NEW c \in Sides, TakeResult(c)  PROVE \A u \in Tasks : WakeInv(u)'
  <2>1. /\ Polls(c) /\ wait[c] = "result" /\ Deliver(c, out[c]) /\ woken' = woken
        /\ heard' = heard \ {c} /\ \A d \in Sides \ {c} : wait'[d] = wait[d]
    BY <1>0, <1>11 DEF TakeResult
  <2>2. out[c].poll \in (IF c[2] = "stream" THEN {"item", "end", "err"} ELSE {"ok", "err"})
    BY <1>0, <2>1 DEF SideInv
  <2>3. \A d \in Sides : AwaitKept(d)
    BY <2>1 DEF AwaitKept, Awaits
  <2> QED  BY <1>4, <2>1, <2>2, <2>3
<1>12. CASE WorkerTakes
  <2>1. task' = task /\ woken' = woken /\ heard' = heard
        /\ \A d \in Sides : wait'[d] = wait[d] \/ wait'[d] = "working"
    BY <1>0, <1>12 DEF WorkerTakes
  <2>2. \A d \in Sides : AwaitKept(d)
    BY <2>1 DEF AwaitKept, Awaits
  <2> QED  BY <1>1, <2>1, <2>2
<1>13. ASSUME NEW c \in Sides, WorkerDone(c)  PROVE \A u \in Tasks : WakeInv(u)'
  <2>1. task' = task /\ Wake({c}) /\ \A d \in Sides \ {c} : wait'[d] = wait[d]
    BY <1>0, <1>13 DEF WorkerDone
  <2>2. woken \subseteq woken' /\ \A d \in Sides : AwaitKept(d)
    BY <2>1 DEF AwaitKept, Awaits, Wake
  <2> QED  BY <1>1, <2>1, <2>2
<1>14. ASSUME NEW t \in Tasks, DropForward(t)  PROVE \A u \in Tasks : WakeInv(u)'
  <2>1. /\ task'[t].pc \notin {"idle", "flush"} /\ (\A u \in Tasks \ {t} : task'[u] = task[u])
        /\ Release(Cardinality(GrantedPermits(t)), LeavesQueue(t), AfterDrop(t))
    BY <1>0, <1>14 DEF DropForward, AfterDrop, TaskRec
  <2>2. woken \subseteq woken' /\ \A d \in Sides : AfterDrop(t)[d] = wait[d] => AwaitKept(d)
    BY <2>1, ReleaseWakes
  <2>3. \A d \in Sides : d[1] # t => AwaitKept(d)
    BY <2>2 DEF AfterDrop
  <2>4. WakeInv(t)'
    BY <2>1 DEF WakeInv
  <2>5. ASSUME NEW u \in Tasks \ {t}  PROVE WakeInv(u)'
    <3>1. AwaitKept(<<u, "stream">>) /\ AwaitKept(<<u, "sink">>)
      BY <1>0, <2>3
    <3> QED  BY <1>0, <2>1, <2>2, <3>1, WakeKept
  <2> QED  BY <2>4, <2>5
<1> QED  BY <1>2, <1>3, <1>6, <1>7, <1>8, <1>9, <1>10, <1>11, <1>12, <1>13, <1>14 DEF Next, Poll

-----------------------------------------------------------------------------
(* The theorems. *)

LEMMA InitInv == Init => IInv
<1> SUFFICES ASSUME Init PROVE IInv
  OBVIOUS
<1>0. /\ 0 \in Nat /\ << >> \in Body /\ Permits \in Nat /\ MaxBody \in Nat /\ MaxBodyRam \in Nat
      /\ \A t \in Tasks : setup[t] \in SetupType
  BY ForwardAssumption DEF Init, Body
<1>1. TypeOK
  <2>1. /\ setup \in [Tasks -> Setups] /\ consumed \in [Tasks -> Nat]
        /\ task \in [Tasks -> TaskRec]
    BY <1>0 DEF Init, TaskRec
  <2>2. sink \in [Tasks -> SinkRec]
    BY <1>0 DEF Init, SinkRec, SetupType
  <2>3. /\ arbiter \in [Sides -> {"Void", "Pending", "Once"}] /\ wait \in [Sides -> Waits]
        /\ out \in [Sides -> OutRec]
    BY <1>0 DEF Init, Waits, OutRec, Nothing
  <2>4. /\ heard \subseteq Sides /\ woken \subseteq Tasks /\ free \in 0 .. Permits
        /\ waiters \in Seq(Sides) /\ jobs \in Seq(Sides)
    BY <1>0 DEF Init
  <2> QED  BY <2>1, <2>2, <2>3, <2>4, TypesAre DEF Types
<1>2. ASSUME NEW t \in Tasks  PROVE Local(t) /\ WakeInv(t)
  <2> DEFINE s == <<t, "stream">>  k == <<t, "sink">>
  <2>0. /\ s \in Sides /\ k \in Sides
        /\ wait[s] = "no" /\ wait[k] = "no" /\ arbiter[s] = "Void" /\ arbiter[k] = "Void"
        /\ out[s] = Nothing /\ out[k] = Nothing
        /\ task[t] = [pc |-> "idle", item |-> << >>, ended |-> FALSE]
        /\ consumed[t] = 0 /\ t \in woken
        /\ sink[t] = [ram |-> setup[t].ram, cells |-> << >>, buf |-> << >>]
    BY SidesShape DEF Init
  <2>1. SideInv(s) /\ SideInv(k)
    BY <2>0 DEF SideInv, Asking, Pooled
  <2>2. TaskInv(t)
    BY <1>0, <2>0 DEF TaskInv, SetupType
  <2>3. BodyInv(t)
    <3>1. Cells(0, 0) = << >>
      <4>1. Cells(0, 0) \in Body /\ Len(Cells(0, 0)) = 0
        BY <1>0, CellsProps
      <4> QED  BY <4>1 DEF Body
    <3>2. << >> \o << >> \o << >> \o << >> = << >>
      OBVIOUS
    <3> QED  BY <1>0, <2>0, <3>1, <3>2 DEF BodyInv, Underway
  <2>4. WakeInv(t)
    BY <2>0 DEF WakeInv
  <2> QED  BY <2>1, <2>2, <2>3, <2>4 DEF Local
<1>3. \A c \in Sides : wait[c] = "no"
  BY DEF Init
<1>4. QueueInv /\ JobsInv
  <2>1. waiters = << >> /\ jobs = << >>
    BY DEF Init
  <2>2. IsInjective(<< >>) /\ Range(<< >>) = {}
    BY DEF IsInjective, Range
  <2> QED  BY <1>3, <2>1, <2>2 DEF QueueInv, JobsInv, Lists
<1>5. PermitInv
  <2>1. Holders = {}
    BY <1>3 DEF Holders
  <2> QED  BY <1>0, <2>1, FS_EmptySet DEF Init, PermitInv
<1> QED  BY <1>1, <1>2, <1>4, <1>5 DEF IInv

LEMMA InvStep == IInv /\ [Next]_vars => IInv'
<1> SUFFICES ASSUME IInv, [Next]_vars PROVE IInv'
  OBVIOUS
<1>1. GlobalInv' /\ free' \in Nat /\ waiters' \in Seq(Sides) /\ jobs' \in Seq(Sides)
  BY GlobalStep
<1>2. free' \in 0 .. Permits
  <2>1. Cardinality(Holders') \in Nat
    BY <1>1, FS_CardinalityType DEF GlobalInv, PermitInv
  <2> QED  BY <1>1, <2>1, ForwardAssumption DEF GlobalInv, PermitInv
<1>3. Types'
  BY TypeStep
<1>4. TypeOK'
  BY <1>1, <1>2, <1>3 DEF TypeOK, Types, TaskRec, SinkRec, OutRec, Waits, Body
<1>5. \A u \in Tasks : Local(u)'
  BY LocalStep
<1>6. \A u \in Tasks : WakeInv(u)'
  BY WakeStep
<1> QED  BY <1>1, <1>4, <1>5, <1>6 DEF IInv, GlobalInv

LEMMA SidesInv ==
  ASSUME IInv  PROVE \A c \in Sides : SideInv(c)
BY SidesShape DEF IInv, Local

\* The invariant holds in every state that streams, sinks, the Semaphore, the pool and the
\* executor reach together.
THEOREM Invariance == Spec => []IInv
<1> QED  BY InitInv, InvStep, PTL DEF Spec

\* The variables have their types (the fields of Forward, AsyncBodyImage, AsyncBodySink and
\* StatefulArbiter).
THEOREM TypeCorrect == Spec => []TypeOK
<1>1. IInv => TypeOK
  BY DEF IInv
<1> QED  BY <1>1, Invariance, PTL

\* Nothing that was read is lost, repeated or swapped on its way to the sink, and what
\* forward has finished is complete (poll_impl, poll_send, poll_flush_impl).
THEOREM BodyInOrder == Spec => []InOrder
<1>1. IInv => InOrder
  <2> SUFFICES ASSUME IInv, NEW t \in Tasks
               PROVE  /\ Healthy(t) =>
                           sink[t].cells \o sink[t].buf \o task[t].item \o Underway(t)
                             = Cells(0, consumed[t])
                      /\ task[t].pc = "done" =>
                           /\ sink[t].cells = Cells(0, setup[t].stored)
                           /\ sink[t].buf = << >>
                           /\ wait[<<t, "sink">>] = "no"
    BY DEF InOrder
  <2>1. TaskInv(t) /\ BodyInv(t) /\ TypeOK
    BY DEF IInv, Local
  <2>2. ASSUME task[t].pc = "done"
        PROVE  /\ sink[t].cells = Cells(0, setup[t].stored)
               /\ sink[t].buf = << >>
               /\ wait[<<t, "sink">>] = "no"
    <3>1. /\ sink[t].buf = << >> /\ wait[<<t, "sink">>] = "no"
          /\ task[t].item = << >> /\ consumed[t] = setup[t].stored
          /\ wait[<<t, "stream">>] = "no"
      BY <2>1, <2>2 DEF TaskInv
    <3>2. Healthy(t)
      <4>1. \A c \in Sides : c[1] = t => wait[c] # "result"
        BY <3>1, SidesShape
      <4> QED  BY <2>2, <4>1 DEF Healthy
    <3>3. Underway(t) = << >>
      BY <3>1 DEF Underway
    <3>4. sink[t].cells \o << >> \o << >> \o << >> = Cells(0, setup[t].stored)
      BY <2>1, <3>1, <3>2, <3>3 DEF BodyInv
    <3>5. sink[t].cells \o << >> \o << >> \o << >> = sink[t].cells
      <4>1. sink[t].cells \in Seq(Nat \ {0})
        BY <2>1, TaskTypes DEF Body
      <4>2. sink[t].cells \o << >> = sink[t].cells
        BY <4>1, ConcatEmptySeq, Zenon
      <4> QED  BY <4>2
    <3> QED  BY <3>1, <3>4, <3>5
  <2> QED  BY <2>1, <2>2 DEF BodyInv
<1> QED  BY <1>1, Invariance, PTL

\* A sink never accepts more than max_body, nor holds more than max_body_ram in RAM
\* (poll_send).
THEOREM LimitsHold == Spec => []SinkLimits
<1>1. IInv => SinkLimits
  BY DEF IInv, Local, BodyInv, SinkLimits
<1> QED  BY <1>1, Invariance, PTL

\* A task that is not going to be polled has left its waker with the Semaphore or the pool:
\* the recursion after each new future keeps it from sleeping for ever.
THEOREM WakerKept == Spec => []NoLostWakeup
<1>1. IInv => NoLostWakeup
  <2> SUFFICES ASSUME IInv, NEW t \in Tasks, task[t].pc = "idle", t \notin woken
               PROVE  \E c \in heard : c[1] = t /\ wait[c] \in {"queued", "sent", "working"}
    BY DEF NoLostWakeup
  <2>1. Awaits(<<t, "stream">>) \/ Awaits(<<t, "sink">>)
    BY DEF IInv, WakeInv
  <2> QED  BY <2>1 DEF Awaits
<1> QED  BY <1>1, Invariance, PTL

\* Permits are neither lost nor made up, whichever forwards fail or are dropped while they
\* wait (BlockingPermitFuture, BlockingPermit).
THEOREM PermitsAccounted == Spec => []PermitsKept
<1>1. IInv => PermitsKept
  <2> SUFFICES ASSUME IInv PROVE PermitsKept
    OBVIOUS
  <2>1. \A c \in Sides : wait[c] \in {"granted", "running"} => task[c[1]].pc \notin Ended
    BY SidesInv DEF SideInv, Asking, Live
  <2>2. {c \in Sides : wait[c] \in {"granted", "running"} /\ task[c[1]].pc \notin Ended} = Holders
    BY <2>1 DEF Holders
  <2> QED  BY <2>2 DEF IInv, PermitInv, PermitsKept
<1> QED  BY <1>1, Invariance, PTL

\* The debug assertions of poll_flush and poll_next, and the expectations of start_send, are
\* true whenever they are reached.
THEOREM Asserts == Spec => []AssertsHold
<1>1. IInv => AssertsHold
  <2> SUFFICES ASSUME IInv PROVE AssertsHold
    OBVIOUS
  <2>1. \A c \in Sides : SideInv(c)
    BY SidesInv
  <2>2. \A t \in Tasks : TaskInv(t)
    BY DEF IInv, Local
  <2> QED  BY <2>1, <2>2, SidesShape DEF AssertsHold, SideInv, TaskInv, Live
<1> QED  BY <1>1, Invariance, PTL

\* Files are read and written only with a permit or on a thread of the pool, unless the
\* policy is to block at once (can_block).
THEOREM PermissionFirst == Spec => BlocksWithPermission
<1> DEFINE Allowed(c) == \/ Mode(c) = "direct"
                         \/ Mode(c) = "permit" /\ wait[c] = "running"
                         \/ Mode(c) = "dispatch" /\ wait[c] = "working"
<1>1. ASSUME IInv, Next  PROVE \A c \in Sides : Blocks(c) => Allowed(c)
  <2>0. TypeOK /\ \A d \in Sides : SideInv(d)
    BY <1>1, SidesInv DEF IInv
  <2>1. ASSUME NEW c \in Sides, consumed' = consumed, sink' = sink  PROVE ~Blocks(c)
    BY <2>1 DEF Blocks
  <2>2. ASSUME NEW t \in Tasks, NEW c \in Sides, StartSend(t)  PROVE ~Blocks(c)
    <3>1. consumed' = consumed /\ sink[c[1]].cells = sink'[c[1]].cells
      BY <2>0, <2>2, SidesShape DEF StartSend, TypeOK
    <3> QED  BY <3>1 DEF Blocks
  <2>3. ASSUME NEW d \in Sides, NEW r \in Results(d), Apply(d, r),
               Unblocked(d) \/ Allowed(d),
               NEW c \in Sides, Blocks(c)
        PROVE  Allowed(c)
    <3>1. c = d
      <4>1. CASE d[2] = "stream"
        <5>1. sink' = sink /\ \A u \in Tasks \ {d[1]} : consumed'[u] = consumed[u]
          BY <2>0, <2>3, <4>1, ApplyOthers DEF Apply
        <5>2. c[2] = "stream" /\ c[1] = d[1]
          BY <2>3, <5>1, SidesShape DEF Blocks
        <5> QED  BY <4>1, <5>2, SidesShape
      <4>2. CASE d[2] # "stream"
        <5>1. consumed' = consumed /\ \A u \in Tasks \ {d[1]} : sink'[u] = sink[u]
          BY <2>0, <2>3, <4>2, ApplyOthers DEF Apply
        <5>2. c[2] # "stream" /\ c[1] = d[1]
          BY <2>3, <5>1, SidesShape DEF Blocks
        <5> QED  BY <4>2, <5>2, SidesShape
      <4> QED  BY <4>1, <4>2
    <3>2. ASSUME Unblocked(d)  PROVE FALSE
      <4> DEFINE t == d[1]
      <4>0. t \in Tasks
        BY SidesShape
      <4>1. CASE d = <<t, "stream">>
        <5>1. setup[t].kind # "Ram" /\ consumed'[t] # consumed[t]
          BY <2>3, <3>1, <4>1 DEF Blocks
        <5>2. Avail(t) = 0 /\ r \in StreamResults(t)
          BY <2>3, <3>2, <4>1, <5>1 DEF Unblocked, Results
        <5>3. Len(r.cells) = 0
          BY <5>2 DEF StreamResults, End
        <5>4. consumed'[t] = consumed[t] + 0 /\ consumed[t] \in Nat
          BY <2>0, <2>3, <4>0, <4>1, <5>3 DEF Apply, TypeOK
        <5> QED  BY <5>1, <5>4
      <4>2. CASE d = <<t, "sink">>
        <5>1. ~sink'[t].ram /\ sink[t].cells # sink'[t].cells
          BY <2>3, <3>1, <4>2 DEF Blocks
        <5>2. sink'[t] = AfterSend(t, r)
          BY <2>0, <2>3, <4>0, <4>2 DEF Apply, TypeOK
        <5>3. r \in SinkResults(t)
          BY <2>3, <4>2 DEF Results
        <5>4. r.poll = "ok" /\ sink'[t].cells = Written(sink[t])
          BY <5>1, <5>2 DEF AfterSend
        <5>5. sink[t].buf = << >> \/ ~TooLong(t)
          <6> HIDE DEF t
          <6>1. r # Failure
            BY <5>4 DEF Failure
          <6> QED  BY <4>0, <5>3, <6>1, SinkResultIs
        <5>6. sink[t].buf # << >>
          <6>1. ASSUME sink[t].buf = << >>  PROVE Written(sink[t]) = sink[t].cells
            <7>1. sink[t].cells \in Seq(Nat \ {0})
              BY <2>0, <4>0, TaskTypes DEF Body
            <7> QED  BY <6>1, <7>1, ConcatEmptySeq, Zenon DEF Written
          <6> QED  BY <5>1, <5>4, <6>1
        <5>7. FitsRam(t)
          BY <3>2, <4>2, <5>5, <5>6 DEF Unblocked
        <5>8. sink[t].ram
          BY <5>7 DEF FitsRam
        <5>9. sink'[t].ram = (sink[t].ram /\ (sink[t].buf = << >> \/ TooLong(t) \/ FitsRam(t)))
          BY <5>2 DEF AfterSend
        <5> QED  BY <5>1, <5>7, <5>8, <5>9
      <4> QED  BY <4>1, <4>2, SidesShape
    <3> QED  BY <2>3, <3>1, <3>2
  <2>4. ASSUME NEW d \in Sides, PollDirect(d)  PROVE \A c \in Sides : Blocks(c) => Allowed(c)
    <3>1. PICK r \in Results(d) : Apply(d, r)
      BY <2>4 DEF PollDirect
    <3>2. Unblocked(d) \/ Mode(d) = "direct"
      BY <2>4 DEF PollDirect
    <3> QED  BY <2>3, <3>1, <3>2
  <2>5. ASSUME NEW d \in Sides, RunPermitted(d)  PROVE \A c \in Sides : Blocks(c) => Allowed(c)
    <3>1. PICK r \in Results(d) : Apply(d, r)
      BY <2>5 DEF RunPermitted
    <3>2. wait[d] = "running" /\ Mode(d) = "permit"
      BY <2>0, <2>5 DEF RunPermitted, SideInv, Asking
    <3> QED  BY <2>3, <3>1, <3>2
  <2>6. ASSUME NEW d \in Sides, WorkerDone(d)  PROVE \A c \in Sides : Blocks(c) => Allowed(c)
    <3>1. PICK r \in Results(d) : Apply(d, r)
      BY <2>6 DEF WorkerDone
    <3>2. wait[d] = "working" /\ Mode(d) = "dispatch"
      BY <2>0, <2>6 DEF WorkerDone, SideInv, Pooled
    <3> QED  BY <2>3, <3>1, <3>2
  <2>7. \/ consumed' = consumed /\ sink' = sink
        \/ \E t \in Tasks : StartSend(t)
        \/ \E d \in Sides : PollDirect(d) \/ RunPermitted(d) \/ WorkerDone(d)
    BY <1>1 DEF Next, Poll, Resume, SkipEnded, RequestPermit, Dispatch, TryAcquire, Acquire,
           StillWaits, TakeResult, WorkerTakes, DropForward
  <2> QED  BY <2>1, <2>2, <2>4, <2>5, <2>6, <2>7
<1>2. IInv /\ [Next]_vars => [\A c \in Sides : Blocks(c) => Allowed(c)]_vars
  BY <1>1
<1> QED  BY <1>2, Invariance, PTL DEF Spec, BlocksWithPermission

=============================================================================
