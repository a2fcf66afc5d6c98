---------------------------- MODULE MCEventBuffer ----------------------------
(* Four events, batches of two, a buffer of three, two flush slots and two   *)
(* attempts: the buffer overflows, all slots are busy, and a batch is        *)
(* committed, retried and given up.                                          *)
EXTENDS EventBuffer
CONSTANTS e1, e2, e3, e4, s1, s2
MCEvent == {e1, e2, e3, e4}
MCSlot == {s1, s2}
=============================================================================
