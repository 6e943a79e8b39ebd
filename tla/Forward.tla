------------------------------ MODULE Forward -------------------------------
(***************************************************************************)
(* Tasks that each forward an asynchronous stream into an asynchronous sink  *)
(* (body-image-futio: stream.rs, sink.rs, blocking.rs, as composed in       *)
(* fetch.rs and in the tests).                                              *)
(*                                                                         *)
(* A stream is an AsyncBodyImage, PermitBodyImage or DispatchBodyImage, a   *)
(* sink an AsyncBodySink, PermitBodySink or DispatchBodySink.  The two      *)
(* "sides" of all tasks share one Semaphore of blocking permits and one      *)
(* DispatchPool.  Both of these, Forward of futures-util, and the executor   *)
(* are external: a task is polled if it has been woken, and a poll takes     *)
(* several steps, during which other tasks and the pool run.                *)
(*                                                                         *)
(* The cells of a body are the numbers from 1.                              *)
(***************************************************************************)
EXTENDS Integers, FiniteSets, SequencesExt

CONSTANTS
  Tasks,
  Setups,      \* what a task may be made of, see SetupType
  MaxBodyRam,  \* Tunables.max_body_ram
  MaxBody,     \* Tunables.max_body
  BufferFs,    \* Tunables.buffer_size_fs
  Permits,     \* permits of the Semaphore
  Workers,     \* threads of the DispatchPool
  Faults       \* subset of {"io", "drop"}

Modes == {"direct", "permit", "dispatch"}

(* kind: the state of the image; len: its length; stored: cells that are      *)
(* really in its file; reads, writes: the types of stream and sink; ram: the  *)
(* sink starts in RAM.                                                      *)
SetupType == [kind : {"Ram", "File", "MemMap"}, len : Nat, stored : Nat,
              reads : Modes, writes : Modes, ram : BOOLEAN]

ASSUME ForwardAssumption ==
  /\ Setups \subseteq SetupType
  /\ \A s \in Setups : s.stored <= s.len /\ (s.kind # "File" => s.stored = s.len)
  /\ MaxBodyRam \in Nat /\ MaxBody \in Nat /\ MaxBodyRam <= MaxBody
  /\ BufferFs \in Nat \ {0}
  /\ Permits \in Nat \ {0} /\ Workers \in Nat \ {0}
  /\ Faults \subseteq {"io", "drop"}

VARIABLES
  setup,     \* [Tasks -> Setups], fixed
  task,      \* Forward of a task: pc, the buffered item, the fused end
  consumed,  \* AsyncBodyImage.consumed
  sink,      \* AsyncBodySink: is_ram, the cells of its BodySink, buf
  arbiter,   \* StatefulArbiter of each side
  wait,      \* what a side waits for
  out,       \* the result that a dispatched operation has left
  heard,     \* sides whose pending future holds the task's waker
  woken,     \* tasks to be polled
  free,      \* permits in the Semaphore
  waiters,   \* sides queued for a permit
  jobs       \* operations in the queue of the DispatchPool

vars == <<setup, task, consumed, sink, arbiter, wait, out, heard, woken,
          free, waiters, jobs>>

Sides == Tasks \X {"stream", "sink"}

Mode(c) == IF c[2] = "stream" THEN setup[c[1]].reads ELSE setup[c[1]].writes

Ended == {"done", "failed", "dropped"}

Nothing == [poll |-> "none", cells |-> << >>]

\* The side that Forward::poll is calling.
Polls(c) ==
  \/ c[2] = "stream" /\ task[c[1]].pc = "stream" /\ ~task[c[1]].ended
  \/ c[2] = "sink"   /\ task[c[1]].pc \in {"ready", "flush", "close"}

Init ==
  /\ setup \in [Tasks -> Setups]
  /\ task = [t \in Tasks |-> [pc |-> "idle", item |-> << >>, ended |-> FALSE]]
  /\ consumed = [t \in Tasks |-> 0]
  /\ sink = [t \in Tasks |-> [ram |-> setup[t].ram, cells |-> << >>, buf |-> << >>]]
  /\ arbiter = [c \in Sides |-> "Void"]
  /\ wait = [c \in Sides |-> "no"]
  /\ out = [c \in Sides |-> Nothing]
  /\ heard = {}
  /\ woken = Tasks
  /\ free = Permits
  /\ waiters = << >>
  /\ jobs = << >>

-----------------------------------------------------------------------------
(* The operations: AsyncBodyImage::poll_impl and AsyncBodySink::poll_send.    *)

Cells(i, j) == [k \in 1 .. j - i |-> i + k]

Avail(t) == setup[t].len - consumed[t]

NewLen(t) == Len(sink[t].cells) + Len(sink[t].buf)

TooLong(t) == NewLen(t) > MaxBody

\* Mutant: a small body needs no permission, wherever it is.
SmallBody(t) == NewLen(t) <= MaxBodyRam

\* Mutant: look at the length before the push.
FitsBefore(t) == sink[t].ram /\ Len(sink[t].cells) <= MaxBodyRam

FitsRam(t) == sink[t].ram /\ NewLen(t) <= MaxBodyRam

\* The operation comes to its end without a call of can_block.
Unblocked(c) ==
  LET t == c[1]
  IN  IF c[2] = "stream"
      THEN Avail(t) = 0 \/ setup[t].kind = "Ram"
      ELSE sink[t].buf = << >> \/ TooLong(t) \/ FitsRam(t)

\* rlen: what one read of the file may return at most.
ReadLen(t) == LET in_file == setup[t].stored - consumed[t]
              IN  IF in_file < BufferFs THEN in_file ELSE BufferFs

Item(t, n) == [poll |-> "item", cells |-> Cells(consumed[t], consumed[t] + n)]
End        == [poll |-> "end", cells |-> << >>]
Failure    == [poll |-> "err", cells |-> << >>]
Failures   == IF "io" \in Faults THEN {Failure} ELSE {}

\* A file may return less than was asked for, and ends early if it is shorter
\* than the image; a memory map is one item; any division of RAM into buffers
\* is possible.
StreamResults(t) ==
  IF Avail(t) = 0 THEN {End}
  ELSE CASE setup[t].kind = "Ram" -> {Item(t, n) : n \in 1 .. Avail(t)}
         [] setup[t].kind = "MemMap" -> {Item(t, Avail(t))} \cup Failures
         [] setup[t].kind = "File" ->
              IF consumed[t] = setup[t].stored THEN {End} \cup Failures
              ELSE {Item(t, n) : n \in 1 .. ReadLen(t)} \cup Failures

Ok == [poll |-> "ok", cells |-> << >>]

\* poll_send keeps its buffer after a write that was interrupted, but write_all itself
\* goes on after an interrupt and never returns one.
SinkResults(t) ==
  IF sink[t].buf # << >> /\ TooLong(t) THEN {Failure}
  ELSE {Ok} \cup (IF Unblocked(<<t, "sink">>) THEN {} ELSE Failures)

Results(c) == IF c[2] = "stream" THEN StreamResults(c[1]) ELSE SinkResults(c[1])

\* Mutant: write the buffer before the buffers that are still in RAM.
WrittenFirst(s) == s.buf \o s.cells

\* Push, or write_back and write_all.
Written(s) == s.cells \o s.buf

\* The buffer was taken out of buf before; a failed write loses it.
AfterSend(t, r) ==
  [ram   |-> sink[t].ram /\ (sink[t].buf = << >> \/ TooLong(t) \/ FitsRam(t)),
   cells |-> IF r.poll = "ok" THEN Written(sink[t]) ELSE sink[t].cells,
   buf   |-> << >>]

\* Side c runs its operation, with result r.
Apply(c, r) ==
  LET t == c[1]
  IN  IF c[2] = "stream"
      THEN consumed' = [consumed EXCEPT ![t] = @ + Len(r.cells)] /\ UNCHANGED sink
      ELSE sink' = [sink EXCEPT ![t] = AfterSend(t, r)] /\ UNCHANGED consumed

\* Mutant: an allowance is not used up.
LeftOnce(c) == "Once"

\* can_block with an allowance for one operation, if the operation gets to it.
CanBlock(c) == IF Unblocked(c) THEN arbiter[c] ELSE "Void"

-----------------------------------------------------------------------------
(* What Forward does with the result of a poll.                              *)

Pending == [poll |-> "pending", cells |-> << >>]

AfterStream(k, r) ==
  CASE r.poll = "item" -> [k EXCEPT !.pc = "ready", !.item = r.cells]
    [] r.poll = "end" -> [k EXCEPT !.pc = "close", !.ended = TRUE]
    [] r.poll = "err" -> [k EXCEPT !.pc = "failing"]
    [] r.poll = "pending" -> [k EXCEPT !.pc = "flush"]

AfterSink(k, r) ==
  CASE r.poll = "err" -> [k EXCEPT !.pc = "failing"]
    [] r.poll = "pending" \/ (r.poll = "ok" /\ k.pc = "flush") -> [k EXCEPT !.pc = "idle"]
    [] r.poll = "ok" /\ k.pc = "ready" -> [k EXCEPT !.pc = "send"]
    [] r.poll = "ok" /\ k.pc = "close" -> [k EXCEPT !.pc = "done"]

\* Side c answers r to the poll.
Deliver(c, r) ==
  task' = [task EXCEPT ![c[1]] = IF c[2] = "stream" THEN AfterStream(@, r)
                                                  ELSE AfterSink(@, r)]

\* The wakers that the futures of the sides cs hold are called.
Wake(cs) == /\ woken' = woken \cup {c[1] : c \in cs \cap heard}
            /\ heard' = heard \ cs

(* n permits come back: the first waiters get them.  q and w are the queue    *)
(* and the waits of the sides, up to that.                                  *)
Release(n, q, w) ==
  LET k == IF n < Len(q) THEN n ELSE Len(q)
      granted == {q[i] : i \in 1 .. k}
  IN  /\ free' = free + (n - k)
      /\ waiters' = SubSeq(q, k + 1, Len(q))
      /\ wait' = [c \in Sides |-> IF c \in granted THEN "granted" ELSE w[c]]
      /\ Wake(granted)

\* The executor polls the task.
Resume(t) ==
  /\ task[t].pc = "idle" /\ t \in woken
  /\ woken' = woken \ {t}
  /\ task' = [task EXCEPT ![t].pc = IF task[t].item # << >> THEN "ready" ELSE "stream"]
  /\ UNCHANGED <<setup, consumed, sink, arbiter, wait, out, heard, free, waiters, jobs>>

\* Fuse: a stream that ended is not polled again.
SkipEnded(t) ==
  /\ task[t].pc = "stream" /\ task[t].ended
  /\ task' = [task EXCEPT ![t].pc = "close"]
  /\ UNCHANGED <<setup, consumed, sink, arbiter, wait, out, heard, woken, free,
                 waiters, jobs>>

StartSend(t) ==
  /\ task[t].pc = "send"
  /\ sink' = [sink EXCEPT ![t].buf = task[t].item]
  /\ task' = [task EXCEPT ![t].pc = "stream", ![t].item = << >>]
  /\ UNCHANGED <<setup, consumed, arbiter, wait, out, heard, woken, free, waiters, jobs>>

\* The side runs its operation within the poll: it does not block, or need not
\* ask (LenientArbiter).
PollDirect(c) ==
  /\ Polls(c) /\ wait[c] = "no"
  /\ Unblocked(c) \/ Mode(c) = "direct"
  /\ \E r \in Results(c) : Apply(c, r) /\ Deliver(c, r)
  /\ UNCHANGED <<setup, arbiter, wait, out, heard, woken, free, waiters, jobs>>

\* can_block has recorded the request; the next poll is the recursive call.
\* Mutant: no recursive call.
AnswerPending(c) == Deliver(c, Pending)

Recurse(c) == UNCHANGED task

RequestPermit(c) ==
  /\ Polls(c) /\ wait[c] = "no"
  /\ ~Unblocked(c) /\ Mode(c) = "permit"
  /\ arbiter' = [arbiter EXCEPT ![c] = "Pending"]
  /\ wait' = [wait EXCEPT ![c] = "new"]
  /\ Recurse(c)
  /\ UNCHANGED <<setup, consumed, sink, out, heard, woken, free, waiters, jobs>>

Dispatch(c) ==
  /\ Polls(c) /\ wait[c] = "no"
  /\ ~Unblocked(c) /\ Mode(c) = "dispatch"
  /\ arbiter' = [arbiter EXCEPT ![c] = "Once"]
  /\ wait' = [wait EXCEPT ![c] = "sent"]
  /\ jobs' = Append(jobs, c)
  /\ Recurse(c)
  /\ UNCHANGED <<setup, consumed, sink, out, heard, woken, free, waiters>>

\* The first poll of a permit future: it gets a permit, or a place in the queue.
TryAcquire(c) ==
  /\ Polls(c) /\ wait[c] = "new"
  /\ IF free > 0
     THEN /\ free' = free - 1
          /\ wait' = [wait EXCEPT ![c] = "running"]
          /\ arbiter' = [arbiter EXCEPT ![c] = "Once"]
          /\ UNCHANGED <<task, waiters, heard>>
     ELSE /\ waiters' = Append(waiters, c)
          /\ wait' = [wait EXCEPT ![c] = "queued"]
          /\ heard' = heard \cup {c}
          /\ Deliver(c, Pending)
          /\ UNCHANGED <<free, arbiter>>
  /\ UNCHANGED <<setup, consumed, sink, out, woken, jobs>>

\* A later poll finds that the permit was granted.
Acquire(c) ==
  /\ Polls(c) /\ wait[c] = "granted"
  /\ wait' = [wait EXCEPT ![c] = "running"]
  /\ arbiter' = [arbiter EXCEPT ![c] = "Once"]
  /\ UNCHANGED <<setup, task, consumed, sink, out, heard, woken, free, waiters, jobs>>

StillWaits(c) ==
  /\ Polls(c) /\ wait[c] \in {"queued", "sent", "working"}
  /\ heard' = heard \cup {c}
  /\ Deliver(c, Pending)
  /\ UNCHANGED <<setup, consumed, sink, arbiter, wait, out, woken, free, waiters, jobs>>

\* BlockingPermit::run has run the operation; the permit is dropped.
RunPermitted(c) ==
  /\ Polls(c) /\ wait[c] = "running"
  /\ \E r \in Results(c) : Apply(c, r) /\ Deliver(c, r)
  /\ arbiter' = [arbiter EXCEPT ![c] = CanBlock(c)]
  /\ Release(1, waiters, [wait EXCEPT ![c] = "no"])
  /\ UNCHANGED <<setup, out, jobs>>

Working == {c \in Sides : wait[c] = "working"}

WorkerTakes ==
  /\ jobs # << >> /\ Cardinality(Working) < Workers
  /\ wait' = [wait EXCEPT ![Head(jobs)] = "working"]
  /\ jobs' = Tail(jobs)
  /\ UNCHANGED <<setup, task, consumed, sink, arbiter, out, heard, woken, free, waiters>>

\* Nobody takes the result if the task is gone.
WorkerDone(c) ==
  /\ wait[c] = "working"
  /\ \E r \in Results(c) : Apply(c, r) /\ out' = [out EXCEPT ![c] = r]
  /\ arbiter' = [arbiter EXCEPT ![c] = CanBlock(c)]
  /\ wait' = [wait EXCEPT ![c] = "result"]
  /\ Wake({c})
  /\ UNCHANGED <<setup, task, free, waiters, jobs>>

TakeResult(c) ==
  /\ Polls(c) /\ wait[c] = "result"
  /\ Deliver(c, out[c])
  /\ out' = [out EXCEPT ![c] = Nothing]
  /\ wait' = [wait EXCEPT ![c] = "no"]
  /\ heard' = heard \ {c}
  /\ UNCHANGED <<setup, consumed, sink, arbiter, woken, free, waiters, jobs>>

\* Mutant: futures that are dropped stay in the queue of the Semaphore.
StaysQueued(t) == waiters

LeavesQueue(t) == RemoveFirst(RemoveFirst(waiters, <<t, "stream">>), <<t, "sink">>)

\* Mutant: a permit that was granted but not taken is lost.
NoPermits(t) == {}

\* Mutant: a future that waits gives back a permit too.
AnyPermits(t) == {c \in Sides : c[1] = t /\ wait[c] \in {"queued", "granted"}}

GrantedPermits(t) == {c \in Sides : c[1] = t /\ wait[c] = "granted"}

(* Forward, with its stream and sink, is dropped after an error, or between   *)
(* two polls by a timeout.  Dispatched operations run on.                   *)
DropForward(t) ==
  /\ \/ task[t].pc = "failing" /\ task' = [task EXCEPT ![t].pc = "failed"]
     \/ /\ task[t].pc = "idle" /\ "drop" \in Faults
        /\ task' = [task EXCEPT ![t].pc = "dropped"]
  /\ Release(Cardinality(GrantedPermits(t)), LeavesQueue(t),
             [c \in Sides |-> IF c[1] = t /\ wait[c] \in {"new", "queued", "granted"}
                              THEN "no" ELSE wait[c]])
  /\ UNCHANGED <<setup, consumed, sink, arbiter, out, jobs>>

Poll(t) ==
  \/ Resume(t) \/ SkipEnded(t) \/ StartSend(t)
  \/ \E c \in Sides :
       /\ c[1] = t
       /\ \/ PollDirect(c) \/ RequestPermit(c) \/ Dispatch(c) \/ TryAcquire(c)
          \/ Acquire(c) \/ StillWaits(c) \/ RunPermitted(c) \/ TakeResult(c)

Next == \/ \E t \in Tasks : Poll(t) \/ DropForward(t)
        \/ WorkerTakes
        \/ \E c \in Sides : WorkerDone(c)

Spec == Init /\ [][Next]_vars

\* The executor polls tasks that were woken, blocking operations come to an end,
\* the pool runs what it is given, and what failed is dropped.
Fairness ==
  /\ \A t \in Tasks : WF_vars(Poll(t)) /\ WF_vars(task[t].pc = "failing" /\ DropForward(t))
  /\ WF_vars(WorkerTakes)
  /\ \A c \in Sides : WF_vars(WorkerDone(c))

FairSpec == Spec /\ Fairness

-----------------------------------------------------------------------------
(* Type invariant.                                                          *)
TypeOK ==
  LET Body == Seq(Nat \ {0})
  IN  /\ setup \in [Tasks -> Setups]
      /\ task \in [Tasks -> [pc : {"idle", "stream", "ready", "send", "flush", "close",
                                   "failing"} \cup Ended,
                             item : Body, ended : BOOLEAN]]
      /\ consumed \in [Tasks -> Nat]
      /\ sink \in [Tasks -> [ram : BOOLEAN, cells : Body, buf : Body]]
      /\ arbiter \in [Sides -> {"Void", "Pending", "Once"}]
      /\ wait \in [Sides -> {"no", "new", "queued", "granted", "running", "sent",
                             "working", "result"}]
      /\ out \in [Sides -> [poll : {"none", "item", "end", "ok", "err"}, cells : Body]]
      /\ heard \subseteq Sides
      /\ woken \subseteq Tasks
      /\ free \in 0 .. Permits
      /\ waiters \in Seq(Sides)
      /\ jobs \in Seq(Sides)

Healthy(t) ==
  /\ task[t].pc \notin {"failing", "failed", "dropped"}
  /\ \A c \in Sides : c[1] = t /\ wait[c] = "result" => out[c].poll # "err"

Underway(t) == IF wait[<<t, "stream">>] = "result" THEN out[<<t, "stream">>].cells
                                                   ELSE << >>

\* What the stream has read is, in order and once, in the sink, in its buf, in the
\* item that Forward holds or in the result of a dispatched read: waiting for
\* permits and moving between threads neither loses nor repeats nor swaps a buffer
\* (poll_flush_impl puts a buffer back that it could not write).  A forward that
\* returned Ok has all of the body in its sink (all that is there, if the file is
\* shorter than the image), and the BodySink can be taken out of it: nothing is held
\* back in buf, and no dispatched operation still owns it (the unwrap and the panic
\* of DispatchBodySink::into_inner).
InOrder ==
  \A t \in Tasks :
    /\ Healthy(t) =>
         sink[t].cells \o sink[t].buf \o task[t].item \o Underway(t)
           = Cells(0, consumed[t])
    /\ task[t].pc = "done" =>
         /\ sink[t].cells = Cells(0, setup[t].stored)
         /\ sink[t].buf = << >>
         /\ wait[<<t, "sink">>] = "no"

\* The limits hold for what a sink has accepted, also while it waits: in all never more
\* than max_body, and not more than max_body_ram in RAM (poll_send).
SinkLimits ==
  \A t \in Tasks :
    /\ Len(sink[t].cells) <= MaxBody
    /\ sink[t].ram => Len(sink[t].cells) <= MaxBodyRam

\* A task that is not going to be polled has told someone who will wake it: a side is in
\* the queue of the Semaphore, or its operation is with the pool, and holds the waker
\* ("Recurse for correct waking").
NoLostWakeup ==
  \A t \in Tasks : task[t].pc = "idle" /\ t \notin woken =>
    \E c \in heard : c[1] = t /\ wait[c] \in {"queued", "sent", "working"}

\* Each permit is free, granted to a side of a live task, or in use: a forward that fails
\* or times out gives back what it was granted, so the number of blocking operations
\* at a time is bounded and no permit is lost.
PermitsKept ==
  free + Cardinality({c \in Sides : wait[c] \in {"granted", "running"}
                                    /\ task[c[1]].pc \notin Ended}) = Permits

\* The assertions: after an operation the allowance is used up (debug_assert_eq in
\* poll_flush and poll_next), and start_send finds no buffer and the sink at home.
AssertsHold ==
  /\ \A c \in Sides : task[c[1]].pc \notin Ended /\ wait[c] \in {"no", "result"} =>
       arbiter[c] = "Void"
  /\ \A t \in Tasks : task[t].pc = "send" =>
       sink[t].buf = << >> /\ wait[<<t, "sink">>] = "no"

\* Side c of a task reads from a file or map, or writes to a file, in this step.
Blocks(c) ==
  LET t == c[1]
  IN  IF c[2] = "stream"
      THEN setup[t].kind # "Ram" /\ consumed'[t] # consumed[t]
      ELSE ~sink[t]'.ram /\ sink[t].cells # sink[t]'.cells

\* No blocking operation without permission: with the Permit policy a side reads or
\* writes files only while it holds a permit, with the Dispatch policy only on a thread
\* of the pool (can_block asks before each of them).
BlocksWithPermission ==
  [][\A c \in Sides : Blocks(c) =>
       \/ Mode(c) = "direct"
       \/ Mode(c) = "permit" /\ wait[c] = "running"
       \/ Mode(c) = "dispatch" /\ wait[c] = "working"]_vars

\* Every forward comes to its end: streams and sinks of all tasks that wait for permits
\* of one Semaphore and for threads of one pool never wait for each other in a circle,
\* also when some of them fail or are dropped while they wait.
AllEnd == \A t \in Tasks : <>(task[t].pc \in Ended)
=============================================================================
