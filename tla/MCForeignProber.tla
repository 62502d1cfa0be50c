--------------------------- MODULE MCForeignProber ---------------------------
(* Three requests that share the prober.                                   *)
EXTENDS ForeignProber

ThreeRequests == {"p", "q", "r"}
=============================================================================
