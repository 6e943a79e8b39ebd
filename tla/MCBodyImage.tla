---------------------------- MODULE MCBodyImage -----------------------------
(* Model values for the runs of BodyImage. *)
EXTENDS BodyImage

CONSTANTS i1, i2, r1, r2

TwoImages  == {i1, i2}
TwoReaders == {r1, r2}

IoFaults   == {"io"}
TornFaults == {"io", "torn"}
=============================================================================
