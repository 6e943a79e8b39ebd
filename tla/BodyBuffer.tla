----------------------------- MODULE BodyBuffer -----------------------------
(* What a BodySink and the BodyImage prepared from it promise together,       *)
(* whatever holds the bytes: a buffer that takes cells in order while it is    *)
(* open, and that all readers see alike, from the start and unchanging, once   *)
(* it is sealed.  Cells are numbered in the order in which they were offered.  *)
EXTENDS Naturals, Sequences

CONSTANTS Readers

VARIABLES
  content,  \* the cells accepted so far
  offered,  \* number of cells offered so far, accepted or not
  phase,    \* "open", "sealed" or "lost"
  seen      \* what each reader has read since it was opened

bufferVars == <<content, offered, phase, seen>>

\* The cells offered by this step.
Fresh == [k \in 1 .. offered' - offered |-> offered + k]

Init ==
  /\ content = << >>
  /\ offered = 0
  /\ phase = "open"
  /\ seen = [r \in Readers |-> << >>]

\* The next cells are taken, all of them ...
Accept ==
  /\ phase = "open"
  /\ offered' \in Nat /\ offered' >= offered
  /\ content' = content \o Fresh
  /\ UNCHANGED <<phase, seen>>

\* ... or, with an error, none.
Reject ==
  /\ phase = "open"
  /\ offered' \in Nat /\ offered' >= offered
  /\ UNCHANGED <<content, phase, seen>>

\* Changing where the bytes are kept fails: the buffer goes on, but empty.
Forget ==
  /\ phase = "open"
  /\ content' = << >>
  /\ UNCHANGED <<offered, phase, seen>>

Seal ==
  /\ phase = "open"
  /\ phase' = "sealed"
  /\ UNCHANGED <<content, offered, seen>>

Lose ==
  /\ phase = "open"
  /\ phase' = "lost"
  /\ content' = << >>
  /\ UNCHANGED <<offered, seen>>

\* A reader sees a longer prefix than before.
Observe(r) ==
  /\ phase = "sealed"
  /\ \E k \in Len(seen[r]) .. Len(content) :
       seen' = [seen EXCEPT ![r] = SubSeq(content, 1, k)]
  /\ UNCHANGED <<content, offered, phase>>

Reopen(r) ==
  /\ phase = "sealed"
  /\ seen' = [seen EXCEPT ![r] = << >>]
  /\ UNCHANGED <<content, offered, phase>>

Next ==
  \/ Accept \/ Reject \/ Forget \/ Seal \/ Lose
  \/ \E r \in Readers : Observe(r) \/ Reopen(r)

Spec == Init /\ [][Next]_bufferVars

=============================================================================
