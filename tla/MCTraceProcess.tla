--------------------------- MODULE MCTraceProcess ---------------------------
(* TraceProcess for TLC. *)
EXTENDS TraceProcess
=============================================================================
