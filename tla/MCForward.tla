----------------------------- MODULE MCForward ------------------------------
(* Setups for the runs of Forward. *)
EXTENDS Forward

Setup(kind, len, stored, reads, writes, ram) ==
  [kind |-> kind, len |-> len, stored |-> stored, reads |-> reads,
   writes |-> writes, ram |-> ram]

(* Both sides of a task ask for permits, or send to the pool, or one of each;  *)
(* the body outgrows RAM, is too long, or its file is truncated.             *)
MixedSetups ==
  { Setup("File", 3, 3, "permit", "permit", TRUE),
    Setup("File", 2, 1, "dispatch", "dispatch", FALSE),
    Setup("MemMap", 2, 2, "permit", "dispatch", TRUE),
    Setup("Ram", 4, 4, "direct", "permit", TRUE),
    Setup("File", 2, 2, "direct", "direct", TRUE) }

AllFaults == {"io", "drop"}
=============================================================================
