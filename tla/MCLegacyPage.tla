----------------------------- MODULE MCLegacyPage -----------------------------
(* Each of the four pages, with all of its tabs.                           *)
EXTENDS LegacyPage

AllPages == {"swa", "sm", "cp", "ccp"}
=============================================================================
