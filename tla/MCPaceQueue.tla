----------------------------- MODULE MCPaceQueue -----------------------------
(* The pace queue for TLC, with every kind of event.                       *)
EXTENDS PaceQueue

AllKinds == {"stage", "request", "err"}
=============================================================================
