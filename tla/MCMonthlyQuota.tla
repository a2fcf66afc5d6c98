--------------------------- MODULE MCMonthlyQuota ---------------------------
(* Two months and three events in each, a limit of two: a flush can be       *)
(* overtaken by another one, by the change of the month, and by a crash that *)
(* lets the limit be passed.                                                 *)
EXTENDS MonthlyQuota
MCUnlimited == -1
=============================================================================
