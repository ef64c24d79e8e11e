--------------------------- MODULE MCCardStreamer ---------------------------
(* Instances of CardStreamer for TLC. *)
EXTENDS CardStreamer

\* Every kind of event.
AllKinds == {"thinking", "tool_result", "text", "line"}
=============================================================================
