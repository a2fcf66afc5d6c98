--------------------------- MODULE MCSessionStore ---------------------------
(* Timestamps up to one hour apart in units of half an hour, so that every   *)
(* order of arrival is possible; one flush slot besides the worker.          *)
EXTENDS SessionStore
CONSTANT s1
MCSlot == {s1}
MCTime == 0..2
MCNow == {0}
MCName == {"pageview", "goal", "passive", "engagement"}
MCVisit == {"pageview", "goal"}
MCPageview == {"pageview"}
=============================================================================
