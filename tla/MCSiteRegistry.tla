--------------------------- MODULE MCSiteRegistry ---------------------------
(* Two sites for the domain, two management requests and one lookup at the  *)
(* same time.                                                               *)
EXTENDS SiteRegistry
CONSTANTS s1, s2, m1, m2, i1
MCSite == {s1, s2}
MCRequest == {m1, m2}
MCIngest == {i1}
=============================================================================
