--------------------------- MODULE MCEventPipeline ---------------------------
(* Two or three requests through a queue of 1 or 2 slots, a task channel of  *)
(* one slot, a pool of one or two workers and an event buffer of one or two  *)
(* rows: every place can be full.  One request may lose rows in a flush.     *)
EXTENDS EventPipeline
CONSTANTS i1, i2, i3
MCItem2 == {i1, i2}
MCItem3 == {i1, i2, i3}
=============================================================================
